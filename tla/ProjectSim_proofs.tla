--------------------------- MODULE ProjectSim_proofs ---------------------------
(***************************************************************************)
(* The simulation and the other readings of a project, for any set of      *)
(* projects, any horizon and any falling discount factors.  The paybacks   *)
(* are compared by summation by parts: while the balance has not reached   *)
(* zero, the discounted one is at most the balance at the factor of the    *)
(* month.  A loop of the page is a running total (Running): two loops are  *)
(* compared month by month, and the sum of a stretch of months is the      *)
(* running total of the figure outside of which it is zero.                *)
(***************************************************************************)
EXTENDS ProjectViews, FiniteSetTheorems, WellFoundedInduction, TLAPS

-----------------------------------------------------------------------------
(* Induction over the months, and arithmetic *)

\* A set that holds zero and with each number the next holds every number.
LEMMA NatSets ==
  ASSUME NEW S, 0 \in S, \A n \in Nat : n \in S => n + 1 \in S
  PROVE  Nat \subseteq S
<1> DEFINE T == Nat \ S
<1>1. IsWellFoundedOn(OpToRel(<, Nat), Nat)
  BY NatLessThanWellFounded
<1>2. SUFFICES ASSUME T # {} PROVE FALSE
  OBVIOUS
<1>3. PICK x \in T : \A y \in T : ~(<<y, x>> \in OpToRel(<, Nat))
  <2> HIDE DEF T
  <2>1. T \subseteq Nat  
    BY DEF T
  <2> QED BY <1>1, <1>2, <2>1, WFMin
<1>4. x # 0 /\ x - 1 \in Nat /\ x - 1 \in T  
  OBVIOUS
<1>5. <<x-1, x>> \in OpToRel(<, Nat)  
  BY <1>4 DEF OpToRel
<1> QED BY <1>3, <1>4, <1>5

\* The powers of a number exist: each is the number times the one before.
LEMMA PowersExist ==
  ASSUME NEW base, NEW n \in Nat
  PROVE  \E f : f = [k \in 0..n |-> IF k = 0 THEN 1 ELSE base * f[k - 1]]
<1> DEFINE S == {i \in Nat : \E f : f = [k \in 0..i |-> IF k = 0 THEN 1 ELSE base * f[k - 1]]}
<1>1. 0 \in S
  <2> DEFINE f == [k \in 0..0 |-> 1]
  <2>1. f = [k \in 0..0 |-> IF k = 0 THEN 1 ELSE base * f[k - 1]]
    OBVIOUS
  <2> QED BY <2>1
<1>2. ASSUME NEW i \in Nat, i \in S PROVE i + 1 \in S
  <2>1. PICK f : f = [k \in 0..i |-> IF k = 0 THEN 1 ELSE base * f[k - 1]]
    BY <1>2
  <2> DEFINE g == [k \in 0..(i + 1) |-> IF k = i + 1 THEN base * f[i] ELSE f[k]]
  <2>2. \A k \in 0..(i + 1) : g[k] = IF k = 0 THEN 1 ELSE base * g[k - 1]
    BY <2>1
  <2>3. g = [k \in 0..(i + 1) |-> IF k = 0 THEN 1 ELSE base * g[k - 1]]
    BY <2>2
  <2> HIDE DEF g
  <2> QED BY <2>3
<1> HIDE DEF S
<1>3. Nat \subseteq S
  BY <1>1, <1>2, NatSets
<1> QED BY <1>3 DEF S

\* A power of a positive number is positive, and not below the number.
LEMMA PowerPositive ==
  ASSUME NEW base \in Nat \ {0}, NEW n \in Nat \ {0}
  PROVE  Power(base, n) \in Nat /\ Power(base, n) >= base
<1> DEFINE IsPower(f) == f = [k \in 0..n |-> IF k = 0 THEN 1 ELSE base * f[k - 1]]
           P == CHOOSE f : IsPower(f)
<1>1. Power(base, n) = P[n]
  BY DEF Power
<1>2. P = [k \in 0..n |-> IF k = 0 THEN 1 ELSE base * P[k - 1]]
  <2>1. \E f : IsPower(f)
    BY PowersExist, ZenonT(30)
  <2> HIDE DEF IsPower
  <2>2. IsPower(P)
    BY <2>1
  <2> QED BY <2>2 DEF IsPower
<1> HIDE DEF P
<1> DEFINE S == {k \in Nat : k <= n => P[k] \in Nat /\ P[k] >= (IF k = 0 THEN 1 ELSE base)}
<1>3. 0 \in S
  BY <1>2
<1>4. ASSUME NEW k \in Nat, k \in S PROVE k + 1 \in S
  <2>1. SUFFICES ASSUME k + 1 <= n PROVE P[k + 1] \in Nat /\ P[k + 1] >= base
    OBVIOUS
  <2>2. P[k] \in Nat /\ P[k] >= 1
    BY <1>4, <2>1
  <2>3. P[k + 1] = base * P[k]
    BY <1>2, <2>1
  <2>4. base * P[k] >= base
    <3>1. base * (P[k] - 1) >= 0
      BY <2>2
    <3> QED BY <2>2, <3>1
  <2> QED BY <2>2, <2>3, <2>4
<1> HIDE DEF S
<1>5. Nat \subseteq S
  BY <1>3, <1>4, NatSets
<1> QED BY <1>1, <1>5 DEF S

\* A quotient rounds down.
LEMMA Quotient ==
  ASSUME NEW a \in Int, NEW d \in Nat \ {0}
  PROVE  /\ a \div d \in Int
         /\ d * (a \div d) <= a
         /\ a < d * (a \div d) + d
  OBVIOUS

\* An exact quotient gives back the amount.
LEMMA ExactQuotient ==
  ASSUME NEW a \in Int, NEW d \in Nat \ {0}, Exact(a, d)
  PROVE  a \div d \in Int /\ d * (a \div d) = a
  BY DEF Exact

\* Only one number lies between the two.
LEMMA QuotientUnique ==
  ASSUME NEW a \in Int, NEW d \in Nat \ {0}, NEW c \in Int, d * c <= a, a < d * c + d
  PROVE  a \div d = c
<1>1. d * (a \div d) <= a /\ a < d * (a \div d) + d /\ a \div d \in Int
  BY Quotient
<1> DEFINE e == a \div d
<1> HIDE DEF e
<1>2. d * e < d * c + d /\ d * c < d * e + d /\ e \in Int
  BY <1>1 DEF e
<1>3. d * (e - c) < d /\ d * (c - e) < d
  BY <1>2
<1>4. e - c < 1 /\ c - e < 1
  BY <1>2, <1>3
<1> QED BY <1>2, <1>4 DEF e

\* A multiple divided is the factor.
LEMMA QuotientExact ==
  ASSUME NEW c \in Int, NEW d \in Nat \ {0}
  PROVE  (d * c) \div d = c
<1>1. d * c \in Int
  OBVIOUS
<1> QED BY <1>1, QuotientUnique

\* A product grows with its factors.
LEMMA ProductMonotone ==
  ASSUME NEW a \in Int, NEW b \in Int, NEW c \in Int, a <= b, 0 <= c
  PROVE  c * a <= c * b /\ a * c <= b * c /\ c * a \in Int /\ c * b \in Int
  OBVIOUS

\* A quotient grows with what is divided.
LEMMA QuotientMonotone ==
  ASSUME NEW a \in Int, NEW b \in Int, NEW d \in Nat \ {0}, a <= b
  PROVE  a \div d <= b \div d
<1> DEFINE e == a \div d
           g == b \div d
<1>1. e \in Int /\ g \in Int /\ d * e <= a /\ b < d * g + d
  BY Quotient
<1> HIDE DEF e, g
<1>2. d * e < d * g + d
  <2>1. d * e \in Int /\ d * g \in Int
    BY <1>1
  <2> QED BY <1>1, <2>1
<1>3. d * (e - g) < d
  BY <1>1, <1>2
<1>4. e - g < 1
  BY <1>1, <1>3
<1> QED BY <1>1, <1>4 DEF e, g

-----------------------------------------------------------------------------
(* The payments *)

\* An instalment is a whole amount, not negative for an amount that is not, and
\* positive for one that leaves something to pay.
LEMMA PmtInt ==
  ASSUME NEW pv \in Int, NEW interest \in Nat, NEW n \in Int
  PROVE  /\ Pmt(pv, interest, n) \in Int
         /\ pv >= 0 => Pmt(pv, interest, n) >= 0
         /\ pv > 0 /\ n > 0 /\ (interest = 0 => pv >= n) => Pmt(pv, interest, n) > 0
<1>1. CASE n <= 0
  BY <1>1 DEF Pmt
<1>2. CASE n > 0 /\ interest = 0
  <2>1. Pmt(pv, interest, n) = pv \div n /\ n \in Nat \ {0}
    BY <1>2 DEF Pmt
  <2>2. pv \div n \in Int /\ n * (pv \div n) <= pv /\ pv < n * (pv \div n) + n
    BY <2>1, Quotient
  <2> DEFINE x == pv \div n
  <2> HIDE DEF x
  <2>3. x \in Int /\ pv < n * x + n
    BY <2>2 DEF x
  <2>4. pv >= 0 => x >= 0
    BY <2>1, <2>3
  <2>5. pv >= n => x > 0
    BY <2>1, <2>3
  <2> QED BY <1>2, <2>1, <2>3, <2>4, <2>5 DEF x
<1>3. CASE n > 0 /\ interest > 0
  <2> DEFINE P == Power(1 + interest, n)
             a == pv * interest * P
             x == a \div (P - 1)
  <2>1. P \in Nat /\ P >= 1 + interest
    <3>1. 1 + interest \in Nat \ {0} /\ n \in Nat \ {0}
      BY <1>3
    <3> QED BY <3>1, PowerPositive
  <2>2. Pmt(pv, interest, n) = x
    BY <1>3 DEF Pmt
  <2> HIDE DEF P
  <2>3. pv * interest \in Int /\ (pv >= 0 => pv * interest >= 0) /\ (pv > 0 => pv * interest > 0)
    BY <1>3
  <2>4. a \in Int /\ (pv >= 0 => a >= 0) /\ (pv > 0 => a >= P)
    <3> DEFINE c == pv * interest
    <3> HIDE DEF c
    <3>1. c \in Int /\ (pv >= 0 => c >= 0) /\ (pv > 0 => c > 0) /\ a = c * P
      BY <2>3 DEF c
    <3>2. ASSUME c >= 0 PROVE c * P >= 0
      BY <2>1, <3>1, <3>2
    <3>3. ASSUME c > 0 PROVE c * P >= P
      <4>1. (c - 1) * P >= 0
        BY <2>1, <3>1, <3>3
      <4> QED BY <2>1, <3>1, <4>1
    <3> QED BY <2>1, <3>1, <3>2, <3>3
  <2> HIDE DEF a
  <2>5. P - 1 \in Nat \ {0}
    BY <1>3, <2>1
  <2>6. x \in Int /\ a < (P - 1) * x + (P - 1)
    BY <2>4, <2>5, Quotient
  <2> HIDE DEF x
  <2>7. ASSUME a >= 0 PROVE x >= 0
    <3> DEFINE d == P - 1
    <3> HIDE DEF d
    <3>1. d \in Nat \ {0} /\ a < d * x + d
      BY <2>5, <2>6 DEF d
    <3>2. d * (x + 1) > 0
      BY <2>4, <2>6, <2>7, <3>1
    <3> QED BY <2>6, <3>1, <3>2
  <2>8. ASSUME a >= P PROVE x > 0
    <3> DEFINE d == P - 1
    <3> HIDE DEF d
    <3>1. d \in Nat \ {0} /\ a < d * x + d /\ a > d
      BY <2>1, <2>4, <2>5, <2>6, <2>8 DEF d
    <3>2. d * x > 0
      BY <2>4, <2>6, <3>1
    <3> QED BY <2>6, <3>1, <3>2
  <2> QED BY <1>3, <2>2, <2>4, <2>6, <2>7, <2>8
<1> QED BY <1>1, <1>2, <1>3

\* A payment plan: a whole amount in each month, not negative and not rising
\* for an amount that is not negative.
LEMMA DueInt ==
  ASSUME NEW pv \in Int, NEW interest \in Nat, NEW n \in Int, NEW m \in Int
  PROVE  /\ Due(pv, interest, n, m) \in Int
         /\ pv >= 0 => Due(pv, interest, n, m) >= 0
                       /\ Due(pv, interest, n, m + 1) <= Due(pv, interest, n, m)
<1> DEFINE x == Pmt(pv, interest, n)
<1>1. x \in Int /\ (pv >= 0 => x >= 0)
  BY PmtInt
<1>2. /\ Due(pv, interest, n, m) = IF m < n THEN x ELSE 0
      /\ Due(pv, interest, n, m + 1) = IF m + 1 < n THEN x ELSE 0
  BY DEF Due
<1> HIDE DEF x
<1> QED BY <1>1, <1>2

\* What a plan asks of the inputs.
LEMMA PlanInt ==
  ASSUME NEW q \in Inputs
  PROVE  /\ Capex(q) \in Nat /\ q.interest \in Nat /\ q.split \in {"all", "separate"}
         /\ q.charger \in Nat
         /\ AtLeast(1, q.inst) \in Nat \ {0} /\ AtLeast(1, q.chargerInst) \in Nat \ {0}
         /\ AtLeast(1, q.otherInst) \in Nat \ {0}
<1>1. q.override \in Nat /\ q.charger \in Nat /\ q.rest \in Nat
      /\ q.inst \in Nat /\ q.chargerInst \in Nat /\ q.otherInst \in Nat
  BY DEF Inputs
<1>2. q.interest \in Nat /\ q.split \in {"all", "separate"}
  BY DEF Inputs
<1> QED BY <1>1, <1>2 DEF Capex, AtLeast

\* The charger's part of the CAPEX itself is the charger's price.
LEMMA ChargerPartIs ==
  ASSUME NEW q \in Inputs
  PROVE  ChargerPart(q, Capex(q)) = IF Capex(q) > 0 THEN q.charger ELSE 0
<1>1. CASE Capex(q) > 0
  <2>1. Capex(q) \in Nat \ {0} /\ q.charger \in Int
    BY <1>1, PlanInt
  <2>2. (Capex(q) * q.charger) \div Capex(q) = q.charger
    BY <2>1, QuotientExact
  <2> QED BY <1>1, <2>2 DEF ChargerPart
<1>2. CASE ~(Capex(q) > 0)
  BY <1>2 DEF ChargerPart
<1> QED BY <1>1, <1>2

\* The payments of a project are whole; a coherent project's are not negative
\* and never rise.
LEMMA InstalmentInt ==
  ASSUME NEW q \in Inputs, NEW m \in Int
  PROVE  /\ Instalment(q, Capex(q), m) \in Int
         /\ Coherent(q) => Instalment(q, Capex(q), m) >= 0
                           /\ Instalment(q, Capex(q), m + 1) <= Instalment(q, Capex(q), m)
<1> DEFINE c == Capex(q)
           part == ChargerPart(q, c)
<1>1. c \in Nat /\ c \in Int /\ part \in Int /\ c - part \in Int
  BY PlanInt, ChargerPartIs
<1>2. Coherent(q) /\ q.split # "all" => part >= 0 /\ c - part >= 0
  BY PlanInt, ChargerPartIs DEF Coherent
<1>3. /\ AtLeast(1, q.inst) \in Int /\ AtLeast(1, q.chargerInst) \in Int
      /\ AtLeast(1, q.otherInst) \in Int /\ q.interest \in Nat
  BY PlanInt
<1>4. CASE q.split = "all"
  <2> DEFINE A(k) == Due(c, q.interest, AtLeast(1, q.inst), k)
  <2>1. Instalment(q, c, m) = A(m) /\ Instalment(q, c, m + 1) = A(m + 1)
    BY <1>4 DEF Instalment
  <2> HIDE DEF c, part
  <2>2. \A k \in Int : A(k) \in Int /\ (c >= 0 => A(k) >= 0 /\ A(k + 1) <= A(k))
    BY <1>1, <1>3, DueInt
  <2> HIDE DEF A
  <2> QED BY <1>1, <2>1, <2>2 DEF c
<1>5. CASE q.split # "all"
  <2> DEFINE A(k) == Due(part, q.interest, AtLeast(1, q.chargerInst), k)
             B(k) == Due(c - part, q.interest, AtLeast(1, q.otherInst), k)
  <2>1. \A k \in Int : Instalment(q, c, k) = A(k) + B(k)
    BY <1>5 DEF Instalment
  <2> HIDE DEF c, part
  <2>2. \A k \in Int : A(k) \in Int /\ (part >= 0 => A(k) >= 0 /\ A(k + 1) <= A(k))
    BY <1>1, <1>3, DueInt
  <2>3. \A k \in Int : B(k) \in Int /\ (c - part >= 0 => B(k) >= 0 /\ B(k + 1) <= B(k))
    BY <1>1, <1>3, DueInt
  <2> HIDE DEF A, B
  <2>4. m + 1 \in Int
    OBVIOUS
  <2>5. Instalment(q, c, m) = A(m) + B(m) /\ Instalment(q, c, m + 1) = A(m + 1) + B(m + 1)
    BY <2>1, <2>4
  <2> QED BY <1>2, <1>5, <2>2, <2>3, <2>4, <2>5 DEF c
<1> QED BY <1>4, <1>5

-----------------------------------------------------------------------------
(* A month *)

\* The quotient of an integer by a positive integer is an integer.
LEMMA QuotientInt == ASSUME NEW a \in Int, NEW b \in Nat, b > 0 PROVE a \div b \in Int
  OBVIOUS

\* A percentage of an amount is an amount.
LEMMA PctInt == ASSUME NEW a \in Int, NEW b \in Int PROVE Pct(a, b) \in Int
<1>1. a * b \in Int
  OBVIOUS
<1> QED BY <1>1, QuotientInt DEF Pct

\* Clamping keeps integers.
LEMMA ClampInt == ASSUME NEW b \in Int PROVE AtLeast(0, b) \in Int /\ AtMost(100, b) \in Int
  BY DEF AtLeast, AtMost

\* The amounts of a project are integers.
LEMMA AmountsInt ==
  ASSUME NEW q \in Inputs
  PROVE  /\ q.override \in Int /\ q.charger \in Int /\ q.rest \in Int /\ q.kwh \in Int
         /\ q.tariff \in Int /\ q.fee \in Int /\ q.sessions \in Int /\ q.energy \in Int
         /\ q.occ0 \in Int /\ q.occ12 \in Int /\ q.growth \in Int
         /\ q.demand \in Int /\ q.opexOverride \in Int /\ q.items \in Int
         /\ q.gateway \in Int /\ q.unpaid \in Int /\ q.shared \in Int /\ q.tax \in Int
         /\ q.life \in Nat /\ q.life > 0
         /\ q.sharedBase \in {"revenue", "ebitda", "profit"}
         /\ q.horizon \in Months /\ q.rate \in Rates
  BY DEF Inputs

\* Products of integers are integers.
LEMMA ProductInt == ASSUME NEW a \in Int, NEW b \in Int PROVE a * b \in Int
  OBVIOUS

\* The CAPEX of a project is an integer.
LEMMA CapexInt == ASSUME NEW q \in Inputs PROVE Capex(q) \in Int
  BY AmountsInt DEF Capex

\* Every stage of a month of a project is an integer.
LEMMA MonthInt ==
  ASSUME NEW q \in Inputs, NEW m \in Nat, NEW dep \in Int
  PROVE  /\ Revenue(q, m) \in Int /\ OpexBase(q, m) \in Int
         /\ Ebitda(q, m, dep) \in Int /\ Ebit(q, m, dep) \in Int
         /\ Tax(q, m, dep) \in Int /\ Fcf(q, m, dep) \in Int
<1>1. FixedOpex(q) \in Int
  BY AmountsInt DEF FixedOpex
<1>2. OccupancyAt(q, m) \in Int
  <2>1. q.occ0 \in Int /\ q.occ12 \in Int /\ q.growth \in Int
    BY AmountsInt
  <2>2. (q.occ12 - q.occ0) * m \in Int /\ q.occ12 * q.growth * (m - 12) \in Int
    <3>1. q.occ12 - q.occ0 \in Int /\ m - 12 \in Int /\ m \in Int
      BY <2>1
    <3>2. q.occ12 * q.growth \in Int
      BY <2>1, ProductInt
    <3> QED BY <3>1, <3>2, ProductInt
  <2> DEFINE ramp == ((q.occ12 - q.occ0) * m) \div 12
             rise == (q.occ12 * q.growth * (m - 12)) \div 400
  <2>3. ramp \in Int /\ rise \in Int
    BY <2>2, QuotientInt
  <2>4. OccupancyAt(q, m) = IF m <= 12 THEN q.occ0 + ramp ELSE AtMost(100, q.occ12 + rise)
    BY DEF OccupancyAt
  <2> HIDE DEF ramp, rise
  <2>5. q.occ0 + ramp \in Int /\ q.occ12 + rise \in Int
    BY <2>1, <2>3
  <2>6. AtMost(100, q.occ12 + rise) \in Int
    BY <2>5, ClampInt
  <2> QED BY <2>4, <2>5, <2>6
<1>3. AtMost(100, OccupancyAt(q, m)) \in Int
  BY <1>2, ClampInt
<1>4. Kwh(q, m) \in Int
  <2>1. q.kwh \in Int
    BY AmountsInt
  <2> QED BY <1>3, <2>1, PctInt DEF Kwh
<1>5. Revenue(q, m) \in Int
  <2>1. q.sessions * 30 \in Int /\ q.tariff \in Int /\ q.fee \in Int
    BY AmountsInt
  <2>2. Pct(q.sessions * 30, AtMost(100, OccupancyAt(q, m))) \in Int
    BY <1>3, <2>1, PctInt
  <2>3. q.tariff * Kwh(q, m) \in Int
        /\ q.fee * Pct(q.sessions * 30, AtMost(100, OccupancyAt(q, m))) \in Int
    BY <1>4, <2>1, <2>2, ProductInt
  <2> QED BY <2>3 DEF Revenue
<1>6. OpexBase(q, m) \in Int
  <2>1. q.energy \in Int /\ q.demand \in Int /\ q.gateway \in Int /\ q.unpaid \in Int
    BY AmountsInt
  <2>2. Pct(Revenue(q, m), q.gateway) \in Int /\ Pct(Revenue(q, m), q.unpaid) \in Int
    BY <1>5, <2>1, PctInt
  <2>3. q.energy * Kwh(q, m) \in Int
    BY <1>4, <2>1, ProductInt
  <2> QED BY <1>1, <2>1, <2>2, <2>3 DEF OpexBase
<1>7. Shared(q, m, dep) \in Int
  <2>1. Revenue(q, m) - OpexBase(q, m) \in Int /\ Revenue(q, m) - OpexBase(q, m) - dep \in Int
    BY <1>5, <1>6
  <2>2. AtLeast(0, Revenue(q, m) - OpexBase(q, m)) \in Int
        /\ AtLeast(0, Revenue(q, m) - OpexBase(q, m) - dep) \in Int
    BY <2>1, ClampInt
  <2>3. q.shared \in Int /\ q.sharedBase \in {"revenue", "ebitda", "profit"}
    BY AmountsInt
  <2>a. CASE q.sharedBase = "revenue" BY <2>a, <2>3, <1>5, PctInt DEF Shared
  <2>b. CASE q.sharedBase = "ebitda" BY <2>b, <2>2, <2>3, PctInt DEF Shared
  <2>c. CASE q.sharedBase = "profit" BY <2>c, <2>2, <2>3, PctInt DEF Shared
  <2> QED BY <2>3, <2>a, <2>b, <2>c
<1>8. Ebitda(q, m, dep) \in Int /\ Ebit(q, m, dep) \in Int
  BY <1>5, <1>6, <1>7 DEF Ebitda, Ebit
<1>9. Tax(q, m, dep) \in Int
  <2>1. q.tax \in Int /\ AtLeast(0, Ebit(q, m, dep)) \in Int
    BY <1>8, ClampInt, AmountsInt
  <2> QED BY <1>5, <2>1, PctInt DEF Tax
<1> QED BY <1>5, <1>6, <1>8, <1>9 DEF Fcf

\* The depreciation of a month and the net flow are integers.
LEMMA FlowInt ==
  ASSUME NEW q \in Projects, NEW m \in Months
  PROVE  /\ Revenue(q, m) \in Int /\ Depreciation(q, m) \in Int
         /\ Instalment(q, Capex(q), m) \in Int /\ NetFlow(q, m) \in Int
<1>1. q \in Inputs /\ m \in Nat
  BY ProjectsAssumption DEF Months
<1>2. Depreciation(q, m) \in Int
  <2>1. Capex(q) \in Int /\ q.life * 12 \in Nat /\ q.life * 12 > 0
    <3>1. q.life \in Nat /\ q.life > 0
      BY <1>1, AmountsInt
    <3> QED BY <1>1, <3>1, CapexInt
  <2> QED BY <2>1, QuotientInt DEF Depreciation, MonthlyDepreciation
<1>3. Instalment(q, Capex(q), m) \in Int
  BY <1>1, InstalmentInt
<1> QED BY <1>1, <1>2, <1>3, MonthInt DEF NetFlow

\* What the loop starts from.
LEMMA StartInt ==
  ASSUME NEW q \in Projects
  PROVE  /\ Instalment(q, Capex(q), 0) \in Int
         /\ Coherent(q) => Instalment(q, Capex(q), 0) >= 0
         /\ q.horizon \in Months /\ q.rate \in Rates
         /\ \A m \in 0..MaxMonths : Discount[q.rate][m] \in Nat \ {0}
         /\ 0 \in 0..MaxMonths /\ MaxMonths \in Nat
<1>1. q \in Inputs /\ 0 \in 0..MaxMonths
  BY ProjectsAssumption
<1>2. q.horizon \in Months /\ q.rate \in Rates
  BY <1>1, AmountsInt
<1>3. /\ Instalment(q, Capex(q), 0) \in Int
      /\ Coherent(q) => Instalment(q, Capex(q), 0) >= 0
  BY <1>1, InstalmentInt
<1> QED BY <1>1, <1>2, <1>3, DiscountAssumption, ProjectsAssumption

-----------------------------------------------------------------------------
(* Type correctness *)

\* SimTypeOK of computeProject's loop, for any projects and horizons.
THEOREM SimTypes == SimSpec => []SimTypeOK
<1>1. SimInit => SimTypeOK
  BY StartInt DEF SimInit, SimTypeOK, Months
<1>2. SimTypeOK /\ [SimNext]_simVars => SimTypeOK'
  <2> SUFFICES ASSUME SimTypeOK, [SimNext]_simVars PROVE SimTypeOK'
    OBVIOUS
  <2>1. CASE AddMonth
    <3>1. p \in Projects /\ t + 1 \in 1..p.horizon /\ t + 1 \in Months
      BY <2>1, StartInt DEF AddMonth, SimTypeOK, Months
    <3>2. NetFlow(p, t + 1) \in Int /\ Revenue(p, t + 1) \in Int
          /\ Instalment(p, Capex(p), t + 1) \in Int /\ Depreciation(p, t + 1) \in Int
      BY <3>1, FlowInt
    <3>3. Discount[p.rate][t + 1] \in Int
      BY <3>1, StartInt DEF Months
    <3>4. cum' \in Int /\ cumD' \in Int /\ y1Rev' \in Int /\ y1Fcf' \in Int
          /\ paid' \in Int /\ provided' \in Int
      <4>1. NetFlow(p, t + 1) * Discount[p.rate][t + 1] \in Int
        BY <3>2, <3>3
      <4> QED BY <2>1, <3>2, <4>1 DEF AddMonth, AddDiscounted, SimTypeOK
    <3>5. payback' \in Months \cup {NoMonth} /\ paybackDisc' \in Months \cup {NoMonth}
      BY <2>1, <3>1 DEF AddMonth, First, SimTypeOK
    <3> QED BY <2>1, <3>1, <3>4, <3>5 DEF AddMonth, SimTypeOK
  <2>2. CASE EditInputs
    BY <2>2, StartInt DEF EditInputs, Start, SimTypeOK, Months
  <2>3. CASE UNCHANGED simVars
    BY <2>3 DEF simVars, SimTypeOK
  <2> QED BY <2>1, <2>2, <2>3 DEF SimNext
<1> QED BY <1>1, <1>2, PTL DEF SimSpec

-----------------------------------------------------------------------------
(* The order of the two paybacks *)

\* While no payback is found the balance is negative and the discounted one is
\* at most the balance at the factor of the month.
Unpaid ==
  Coherent(p) /\ payback = NoMonth =>
    /\ t = 0 => cum <= 0
    /\ t > 0 => cum < 0
    /\ cumD <= cum * Discount[p.rate][t]
PaybackInv == Unpaid /\ PaybackOrdered /\ (payback # NoMonth => payback <= t)

\* A smaller factor makes a debt smaller.
LEMMA DebtShrinks ==
  ASSUME NEW c \in Int, c <= 0, NEW a \in Int, NEW b \in Int, b <= a
  PROVE  c * a <= c * b
<1>1. (a - b) * (-c) >= 0
  <2>1. ASSUME NEW x \in Nat, NEW y \in Nat PROVE x * y >= 0
    BY <2>1
  <2> QED BY <2>1
<1> QED BY <1>1

\* A debt at a positive factor is a debt.
LEMMA DebtNegative ==
  ASSUME NEW c \in Int, c < 0, NEW a \in Int, a > 0 PROVE c * a < 0
  OBVIOUS

\* The invariant holds of every run of the loop.
LEMMA PaybackInvariant == SimSpec => [](SimTypeOK /\ PaybackInv)
<1>1. SimInit => PaybackInv
  <2> SUFFICES ASSUME NEW q \in Projects, SimInit, p = q, t = 0,
                      cum = -Instalment(q, Capex(q), 0),
                      cumD = -Instalment(q, Capex(q), 0) * Discount[q.rate][0],
                      payback = NoMonth, paybackDisc = NoMonth
               PROVE  PaybackInv
    BY DEF SimInit
  <2>1. Coherent(q) => -Instalment(q, Capex(q), 0) <= 0
    BY StartInt
  <2> QED BY <2>1, StartInt DEF PaybackInv, Unpaid, PaybackOrdered
<1>2. SimTypeOK /\ PaybackInv /\ [SimNext]_simVars => PaybackInv'
  <2> SUFFICES ASSUME SimTypeOK, PaybackInv, [SimNext]_simVars PROVE PaybackInv'
    OBVIOUS
  <2>1. CASE AddMonth
    <3> DEFINE m == t + 1
               w == Discount[p.rate][m]
               w0 == Discount[p.rate][t]
               net == NetFlow(p, m)
    <3>1. /\ p \in Projects /\ p' = p /\ t' = m /\ t \in Nat /\ m \in Months
          /\ cum \in Int /\ cumD \in Int
      BY <2>1, StartInt DEF AddMonth, SimTypeOK, Months
    <3>2. net \in Int
      BY <3>1, FlowInt
    <3>3. w \in Int /\ w0 \in Int /\ w > 0 /\ w <= w0
      <4>1. t \in 0..MaxMonths /\ m \in 0..MaxMonths /\ t = m - 1
        BY <3>1, StartInt DEF Months
      <4> QED BY <3>1, <4>1, StartInt, DiscountAssumption
    <3>4. cum' = cum + net /\ cumD' = cumD + net * w
      BY <2>1 DEF AddMonth, AddDiscounted
    <3>5. /\ payback' = IF payback = NoMonth /\ cum' >= 0 THEN m ELSE payback
          /\ paybackDisc' = IF paybackDisc = NoMonth /\ cumD' >= 0 THEN m ELSE paybackDisc
      BY <2>1 DEF AddMonth, First
    <3>6. ASSUME Coherent(p), payback = NoMonth PROVE cumD' <= cum' * w
      <4>1. cum <= 0 /\ cumD <= cum * w0
        BY <3>1, <3>6 DEF PaybackInv, Unpaid
      <4>2. cum * w0 <= cum * w
        BY <3>1, <3>3, <4>1, DebtShrinks
      <4>3. (cum + net) * w = cum * w + net * w
        BY <3>1, <3>2, <3>3
      <4>4. cum * w \in Int /\ cum * w0 \in Int /\ net * w \in Int
        BY <3>1, <3>2, <3>3
      <4> HIDE DEF w, w0, net
      <4> QED BY <3>1, <3>4, <4>1, <4>2, <4>3, <4>4
    <3>7. Unpaid'
      <4> SUFFICES ASSUME Coherent(p), payback' = NoMonth
                   PROVE  cum' < 0 /\ cumD' <= cum' * w
        BY <3>1 DEF Unpaid
      <4>1. payback = NoMonth /\ ~(cum' >= 0)
        BY <3>1, <3>5, NoMonthAssumption DEF Months
      <4>2. cum' \in Int
        BY <3>1, <3>2, <3>4
      <4> QED BY <3>6, <4>1, <4>2
    <3>8. PaybackOrdered'
      <4> SUFFICES ASSUME Coherent(p), paybackDisc' # NoMonth
                   PROVE  payback' # NoMonth /\ payback' <= paybackDisc'
        BY <3>1 DEF PaybackOrdered
      <4>1. CASE paybackDisc # NoMonth
        BY <3>5, <4>1 DEF PaybackInv, PaybackOrdered
      <4>2. CASE paybackDisc = NoMonth /\ payback # NoMonth
        <5>1. paybackDisc' = m /\ payback' = payback /\ payback <= t
          BY <3>5, <4>2 DEF PaybackInv
        <5>2. payback \in Int
          BY <4>2 DEF SimTypeOK, Months
        <5> QED BY <3>1, <4>2, <5>1, <5>2
      <4>3. CASE paybackDisc = NoMonth /\ payback = NoMonth
        <5>1. paybackDisc' = m /\ cumD' >= 0
          BY <3>5, <4>3
        <5>2. cum' \in Int /\ cumD' \in Int
          BY <3>1, <3>2, <3>3, <3>4
        <5>3. cumD' <= cum' * w
          BY <3>6, <4>3
        <5>4. cum' >= 0
          <6>1. SUFFICES ASSUME cum' < 0 PROVE FALSE
            BY <5>2
          <6>2. cum' * w < 0
            BY <3>3, <5>2, <6>1, DebtNegative
          <6>3. cum' * w \in Int
            BY <3>3, <5>2
          <6> HIDE DEF w
          <6> QED BY <5>1, <5>2, <5>3, <6>2, <6>3
        <5>5. payback' = m
          BY <3>5, <4>3, <5>4
        <5> QED BY <3>1, <5>1, <5>5, NoMonthAssumption DEF Months
      <4> QED BY <4>1, <4>2, <4>3
    <3>9. payback' # NoMonth => payback' <= t'
      <4>1. payback \in Months \cup {NoMonth}
        BY DEF SimTypeOK
      <4> QED BY <3>1, <3>5, <4>1 DEF PaybackInv, Months
    <3> QED BY <3>7, <3>8, <3>9 DEF PaybackInv
  <2>2. CASE EditInputs
    <3> SUFFICES ASSUME NEW q \in Projects, Start(q) PROVE PaybackInv'
      BY <2>2 DEF EditInputs
    <3>1. Coherent(q) => -Instalment(q, Capex(q), 0) <= 0
      BY StartInt
    <3> QED BY <3>1, StartInt DEF Start, PaybackInv, Unpaid, PaybackOrdered
  <2>3. CASE UNCHANGED simVars
    BY <2>3 DEF simVars, PaybackInv, Unpaid, PaybackOrdered
  <2> QED BY <2>1, <2>2, <2>3 DEF SimNext
<1> QED BY <1>1, <1>2, SimTypes, PTL DEF SimSpec

\* PaybackOrdered: the discounted payback of a project never precedes the
\* simple one, for every cash flow and every non-negative discount rate.
THEOREM PaybackOrder == SimSpec => []PaybackOrdered
<1>1. SimTypeOK /\ PaybackInv => PaybackOrdered
  BY DEF PaybackInv
<1> QED BY <1>1, PaybackInvariant, PTL

\* InsightsAgree: a positive net present value and "no payback" exclude each
\* other, and so do a first year in the red and a healthy margin.
THEOREM InsightAgreement == SimSpec => []InsightsAgree
<1>1. SimTypeOK /\ PaybackInv => InsightsAgree
  <2> SUFFICES ASSUME SimTypeOK, PaybackInv, t = p.horizon PROVE
        /\ Coherent(p) => ~("npv_pos" \in Insights(p) /\ "no_payback" \in Insights(p))
        /\ ~("neg_fcf_y1" \in Insights(p) /\ "good_margin" \in Insights(p))
    BY DEF InsightsAgree
  <2>1. /\ "npv_pos" \in Insights(p) => cumD > 0
        /\ "no_payback" \in Insights(p) => payback = NoMonth
        /\ "neg_fcf_y1" \in Insights(p) => y1Fcf < 0
        /\ "good_margin" \in Insights(p) => y1Rev > 0 /\ 100 * y1Fcf > 30 * y1Rev
    BY DEF Insights
  <2>2. ~(Coherent(p) /\ cumD > 0 /\ payback = NoMonth)
    <3> SUFFICES ASSUME Coherent(p), payback = NoMonth PROVE ~(cumD > 0)
      OBVIOUS
    <3>1. p \in Projects /\ t \in Nat /\ t > 0 /\ t \in 0..MaxMonths
      BY StartInt DEF SimTypeOK, Months
    <3>2. cum < 0 /\ cumD <= cum * Discount[p.rate][t]
      BY <3>1 DEF PaybackInv, Unpaid
    <3>3. Discount[p.rate][t] \in Int /\ Discount[p.rate][t] > 0 /\ cum \in Int /\ cumD \in Int
      BY <3>1, StartInt DEF SimTypeOK
    <3>4. cum * Discount[p.rate][t] < 0 /\ cum * Discount[p.rate][t] \in Int
      BY <3>2, <3>3, DebtNegative
    <3> QED BY <3>2, <3>3, <3>4
  <2>3. y1Fcf \in Int /\ y1Rev \in Int
    BY DEF SimTypeOK
  <2> QED BY <2>1, <2>2, <2>3
<1> QED BY <1>1, PaybackInvariant, PTL

-----------------------------------------------------------------------------
(* What the instalments and the depreciation come to *)

\* The first k of n equal parts of an amount.
Fallen(pv, n, k) == AtMost(n, k) * (pv \div n)

\* One more part falls due, until all have.
LEMMA FallenNext ==
  ASSUME NEW pv \in Int, NEW n \in Nat \ {0}, NEW k \in Nat
  PROVE  /\ Fallen(pv, n, 0) = 0
         /\ Fallen(pv, n, k + 1) = Fallen(pv, n, k) + (IF k < n THEN pv \div n ELSE 0)
<1> DEFINE x == pv \div n
<1>1. x \in Int
  BY Quotient
<1>2. \A i \in Nat : Fallen(pv, n, i) = (IF i > n THEN n ELSE i) * x
  BY DEF Fallen, AtMost
<1> HIDE DEF x
<1>3. CASE k < n
  <2>1. Fallen(pv, n, k + 1) = (k + 1) * x /\ Fallen(pv, n, k) = k * x
    BY <1>2, <1>3
  <2> QED BY <1>1, <1>2, <1>3, <2>1 DEF x
<1>4. CASE ~(k < n)
  <2>1. Fallen(pv, n, k + 1) = n * x /\ Fallen(pv, n, k) = n * x
    BY <1>2, <1>4
  <2> QED BY <1>1, <1>2, <1>4, <2>1 DEF x
<1> QED BY <1>3, <1>4

\* The parts never exceed the amount, and are all of it in the end.
LEMMA FallenBounds ==
  ASSUME NEW pv \in Nat, NEW n \in Nat \ {0}, NEW k \in Nat
  PROVE  /\ Fallen(pv, n, k) \in Int /\ Fallen(pv, n, k) <= pv
         /\ Exact(pv, n) /\ k >= n => Fallen(pv, n, k) = pv
<1> DEFINE x == pv \div n
           j == AtMost(n, k)
<1>1. x \in Int /\ n * x <= pv /\ pv < n * x + n /\ (Exact(pv, n) => n * x = pv)
  BY Quotient, ExactQuotient
<1>2. j \in Nat /\ j <= n /\ (k >= n => j = n) /\ Fallen(pv, n, k) = j * x
  BY DEF AtMost, Fallen
<1> HIDE DEF x, j
<1>3. x >= 0
  BY <1>1
<1>4. j * x <= n * x
  BY <1>1, <1>2, <1>3, ProductMonotone
<1> QED BY <1>1, <1>2, <1>4

\* The instalments that fell due in the months 0..k of a project without interest.
PaidBy(q, k) ==
  IF q.split = "all" THEN Fallen(Capex(q), AtLeast(1, q.inst), k + 1)
  ELSE Fallen(ChargerPart(q, Capex(q)), AtLeast(1, q.chargerInst), k + 1)
       + Fallen(Capex(q) - ChargerPart(q, Capex(q)), AtLeast(1, q.otherInst), k + 1)

\* Both sums follow the number of the month.
PaysInv ==
  /\ p.interest = 0 => paid = PaidBy(p, t)
  /\ provided = Fallen(Capex(p), p.life * 12, t)

\* Without interest a payment is the part of the month.
LEMMA DuePart ==
  ASSUME NEW pv \in Int, NEW n \in Nat \ {0}, NEW k \in Nat
  PROVE  /\ Fallen(pv, n, k) + Due(pv, 0, n, k) = Fallen(pv, n, k + 1)
         /\ Fallen(pv, n, k) \in Int
<1>1. Due(pv, 0, n, k) = IF k < n THEN pv \div n ELSE 0
  BY DEF Due, Pmt
<1>2. Fallen(pv, n, k) \in Int
  <2>1. pv \div n \in Int /\ AtMost(n, k) \in Int
    BY Quotient DEF AtMost
  <2> QED BY <2>1, ProductInt DEF Fallen
<1> QED BY <1>1, <1>2, FallenNext

\* The payments of a project add up to its parts.
LEMMA PaidByNext ==
  ASSUME NEW q \in Inputs, q.interest = 0, NEW k \in Nat
  PROVE  /\ Instalment(q, Capex(q), 0) = PaidBy(q, 0)
         /\ PaidBy(q, k) + Instalment(q, Capex(q), k + 1) = PaidBy(q, k + 1)
<1> DEFINE c == Capex(q)
           part == ChargerPart(q, c)
           nAll == AtLeast(1, q.inst)
           nCharger == AtLeast(1, q.chargerInst)
           nOther == AtLeast(1, q.otherInst)
<1>1. c \in Int /\ part \in Int /\ c - part \in Int
  BY PlanInt, ChargerPartIs
<1>2. nAll \in Nat \ {0} /\ nCharger \in Nat \ {0} /\ nOther \in Nat \ {0}
  BY PlanInt
<1>3. /\ \A i \in Nat : PaidBy(q, i) =
           IF q.split = "all" THEN Fallen(c, nAll, i + 1)
           ELSE Fallen(part, nCharger, i + 1) + Fallen(c - part, nOther, i + 1)
      /\ \A i \in Nat : Instalment(q, c, i) =
           IF q.split = "all" THEN Due(c, 0, nAll, i)
           ELSE Due(part, 0, nCharger, i) + Due(c - part, 0, nOther, i)
  BY DEF PaidBy, Instalment
<1> HIDE DEF c, part, nAll, nCharger, nOther
<1>4. ASSUME NEW pv \in Int, NEW n \in Nat \ {0}
      PROVE  /\ Due(pv, 0, n, 0) = Fallen(pv, n, 0 + 1) /\ Due(pv, 0, n, 0) \in Int
             /\ Fallen(pv, n, k + 1) + Due(pv, 0, n, k + 1) = Fallen(pv, n, (k + 1) + 1)
             /\ Fallen(pv, n, k + 1) \in Int /\ Due(pv, 0, n, k + 1) \in Int
  <2>1. Due(pv, 0, n, 0) \in Int /\ Due(pv, 0, n, k + 1) \in Int
    <3>1. 0 \in Nat /\ 0 \in Int /\ k + 1 \in Int /\ n \in Int
      OBVIOUS
    <3> QED BY <3>1, DueInt
  <2>2. Fallen(pv, n, 0) + Due(pv, 0, n, 0) = Fallen(pv, n, 0 + 1) /\ Fallen(pv, n, 0) = 0
    BY DuePart, FallenNext
  <2>3. /\ Fallen(pv, n, k + 1) + Due(pv, 0, n, k + 1) = Fallen(pv, n, (k + 1) + 1)
        /\ Fallen(pv, n, k + 1) \in Int
    <3>1. k + 1 \in Nat
      OBVIOUS
    <3> QED BY <3>1, DuePart
  <2> QED BY <2>1, <2>2, <2>3
<1>5. CASE q.split = "all"
  BY <1>1, <1>2, <1>3, <1>4, <1>5 DEF c
<1>6. CASE q.split # "all"
  <2>1. /\ Due(part, 0, nCharger, 0) = Fallen(part, nCharger, 0 + 1)
        /\ Fallen(part, nCharger, k + 1) + Due(part, 0, nCharger, k + 1)
             = Fallen(part, nCharger, (k + 1) + 1)
        /\ Fallen(part, nCharger, k + 1) \in Int /\ Due(part, 0, nCharger, k + 1) \in Int
    BY <1>1, <1>2, <1>4
  <2>2. /\ Due(c - part, 0, nOther, 0) = Fallen(c - part, nOther, 0 + 1)
        /\ Fallen(c - part, nOther, k + 1) + Due(c - part, 0, nOther, k + 1)
             = Fallen(c - part, nOther, (k + 1) + 1)
        /\ Fallen(c - part, nOther, k + 1) \in Int /\ Due(c - part, 0, nOther, k + 1) \in Int
    BY <1>1, <1>2, <1>4
  <2>3. 0 \in Nat /\ k + 1 \in Nat /\ k \in Nat
    OBVIOUS
  <2> QED BY <1>3, <1>6, <2>1, <2>2, <2>3 DEF c
<1> QED BY <1>5, <1>6

\* The depreciation of a month is the part of the month before it is over.
LEMMA ProvidedNext ==
  ASSUME NEW q \in Inputs, NEW k \in Nat
  PROVE  /\ Fallen(Capex(q), q.life * 12, 0) = 0
         /\ Fallen(Capex(q), q.life * 12, k) + Depreciation(q, k + 1)
              = Fallen(Capex(q), q.life * 12, k + 1)
<1>1. Capex(q) \in Int /\ q.life * 12 \in Nat \ {0}
  BY PlanInt, AmountsInt
<1> DEFINE n == q.life * 12
           c == Capex(q)
<1>2. Depreciation(q, k + 1) = IF k + 1 <= n THEN c \div n ELSE 0
  BY DEF Depreciation, MonthlyDepreciation
<1> HIDE DEF n, c
<1>3. Fallen(c, n, k) \in Int /\ c \div n \in Int
  BY <1>1, DuePart, Quotient DEF n, c
<1>4. Fallen(c, n, 0) = 0 /\ Fallen(c, n, k + 1) = Fallen(c, n, k) + (IF k < n THEN c \div n ELSE 0)
  BY <1>1, FallenNext DEF n, c
<1>5. k + 1 <= n <=> k < n
  BY <1>1 DEF n
<1> QED BY <1>2, <1>3, <1>4, <1>5 DEF n, c

\* The parts of a project never come to more than its CAPEX, and to all of it
\* once the last one fell due.
LEMMA PaidByBounds ==
  ASSUME NEW q \in Projects, NEW k \in Nat
  PROVE  /\ Coherent(q) => PaidBy(q, k) <= Capex(q)
         /\ k + 1 >= AtLeast(1, q.inst) /\ q.split = "all" => PaidBy(q, k) = Capex(q)
         /\ Fallen(Capex(q), q.life * 12, k) <= Capex(q)
<1>1. q \in Inputs /\ k + 1 \in Nat
  BY ProjectsAssumption
<1>2. /\ Capex(q) \in Nat /\ AtLeast(1, q.inst) \in Nat \ {0}
      /\ AtLeast(1, q.chargerInst) \in Nat \ {0} /\ AtLeast(1, q.otherInst) \in Nat \ {0}
      /\ Exact(Capex(q), AtLeast(1, q.inst)) /\ q.life * 12 \in Nat \ {0}
  BY <1>1, PlanInt, AmountsInt, ExactAssumption
<1>3. ASSUME q.split = "all"
      PROVE  PaidBy(q, k) <= Capex(q)
             /\ (k + 1 >= AtLeast(1, q.inst) => PaidBy(q, k) = Capex(q))
  <2>1. PaidBy(q, k) = Fallen(Capex(q), AtLeast(1, q.inst), k + 1)
    BY <1>3 DEF PaidBy
  <2> QED BY <1>1, <1>2, <2>1, FallenBounds
<1>4. ASSUME q.split # "all", Coherent(q) PROVE PaidBy(q, k) <= Capex(q)
  <2> DEFINE part == ChargerPart(q, Capex(q))
             other == Capex(q) - part
             A == Fallen(part, AtLeast(1, q.chargerInst), k + 1)
             B == Fallen(other, AtLeast(1, q.otherInst), k + 1)
  <2>1. part \in Nat /\ other \in Nat /\ part + other = Capex(q)
    BY <1>1, <1>4, PlanInt, ChargerPartIs DEF Coherent
  <2>2. PaidBy(q, k) = A + B
    BY <1>4 DEF PaidBy
  <2> HIDE DEF part, other
  <2>3. A \in Int /\ A <= part
    BY <1>1, <1>2, <2>1, FallenBounds
  <2>4. B \in Int /\ B <= other
    BY <1>1, <1>2, <2>1, FallenBounds
  <2> HIDE DEF A, B
  <2> QED BY <1>2, <2>1, <2>2, <2>3, <2>4
<1>5. Fallen(Capex(q), q.life * 12, k) <= Capex(q)
  BY <1>2, FallenBounds
<1> QED BY <1>3, <1>4, <1>5

\* PaysOnce: the instalments of computeProject without interest never come to
\* more than the CAPEX, come to all of it with the last one, and the
\* depreciation never exceeds it; for every project and every horizon.
THEOREM PaymentsPayOnce == SimSpec => []PaysOnce
<1>1. SimInit => PaysInv
  <2> SUFFICES ASSUME NEW q \in Projects, p = q, t = 0,
                      paid = Instalment(q, Capex(q), 0), provided = 0
               PROVE  PaysInv
    BY DEF SimInit
  <2>1. q \in Inputs /\ 0 \in Nat
    BY ProjectsAssumption
  <2> QED BY <2>1, PaidByNext, ProvidedNext DEF PaysInv
<1>2. SimTypeOK /\ PaysInv /\ [SimNext]_simVars => PaysInv'
  <2> SUFFICES ASSUME SimTypeOK, PaysInv, [SimNext]_simVars PROVE PaysInv'
    OBVIOUS
  <2>1. CASE AddMonth
    <3>1. /\ p' = p /\ t' = t + 1 /\ p \in Inputs /\ t \in Nat
          /\ paid' = paid + Instalment(p, Capex(p), t + 1)
          /\ provided' = provided + Depreciation(p, t + 1)
      BY <2>1, ProjectsAssumption, StartInt DEF AddMonth, SimTypeOK, Months
    <3>2. p.interest = 0 => paid' = PaidBy(p, t + 1)
      BY <3>1, PaidByNext DEF PaysInv
    <3>3. provided' = Fallen(Capex(p), p.life * 12, t + 1)
      BY <3>1, ProvidedNext DEF PaysInv
    <3> QED BY <3>1, <3>2, <3>3 DEF PaysInv
  <2>2. CASE EditInputs
    <3> SUFFICES ASSUME NEW q \in Projects, Start(q) PROVE PaysInv'
      BY <2>2 DEF EditInputs
    <3>1. /\ p' = q /\ t' = 0 /\ paid' = Instalment(q, Capex(q), 0) /\ provided' = 0
          /\ q \in Inputs /\ 0 \in Nat
      BY ProjectsAssumption DEF Start
    <3> QED BY <3>1, PaidByNext, ProvidedNext DEF PaysInv
  <2>3. CASE UNCHANGED simVars
    BY <2>3 DEF simVars, PaysInv
  <2> QED BY <2>1, <2>2, <2>3 DEF SimNext
<1>3. SimTypeOK /\ PaysInv => PaysOnce
  <2> SUFFICES ASSUME SimTypeOK, PaysInv PROVE PaysOnce
    OBVIOUS
  <2>1. p \in Projects /\ t \in Nat
    BY StartInt DEF SimTypeOK, Months
  <2> QED BY <2>1, PaidByBounds DEF PaysInv, PaysOnce
<1> QED BY <1>1, <1>2, <1>3, SimTypes, PTL DEF SimSpec

-----------------------------------------------------------------------------
(* A maturing project *)

\* What a month leaves, from its revenue R, the margin L before the share, and
\* the depreciation d.
ShareOf(q, R, L, d) ==
  Pct(IF q.sharedBase = "revenue" THEN R
      ELSE IF q.sharedBase = "ebitda" THEN AtLeast(0, L) ELSE AtLeast(0, L - d), q.shared)
FlowOf(q, R, L, d) ==
  LET E == L - ShareOf(q, R, L, d) IN
  (IF q.asCash THEN E - d ELSE E)
    - Pct(IF q.taxBase = "revenue" THEN R ELSE AtLeast(0, E - d), q.tax)

\* The figures of such a month divide.
ExactFlow(q, R, L, d) ==
  /\ Exact(R * q.shared, 100) /\ Exact(R * q.tax, 100)
  /\ Exact(L * q.shared, 100) /\ Exact((L - d) * q.shared, 100)

\* The two read a month alike.
LEMMA FlowIs ==
  ASSUME NEW q \in Inputs, NEW m \in Nat, NEW dep \in Int
  PROVE  Fcf(q, m, dep) = FlowOf(q, Revenue(q, m), Revenue(q, m) - OpexBase(q, m), dep)
<1> DEFINE R == Revenue(q, m)
           L == Revenue(q, m) - OpexBase(q, m)
<1>1. q.sharedBase \in {"revenue", "ebitda", "profit"}
  BY AmountsInt
<1>2. Shared(q, m, dep) = ShareOf(q, R, L, dep)
  <2>a. CASE q.sharedBase = "revenue" BY <2>a DEF Shared, ShareOf
  <2>b. CASE q.sharedBase = "ebitda" BY <2>b DEF Shared, ShareOf
  <2>c. CASE q.sharedBase = "profit" BY <2>c DEF Shared, ShareOf
  <2> QED BY <1>1, <2>a, <2>b, <2>c
<1>3. Ebitda(q, m, dep) = L - ShareOf(q, R, L, dep)
  BY <1>2 DEF Ebitda
<1>4. Fcf(q, m, dep) = FlowOf(q, R, L, dep)
  BY <1>3, Zenon DEF Fcf, Ebit, Tax, FlowOf
<1> QED BY <1>4

\* A percentage of what is gained is at most what is gained.
LEMMA PctSlope ==
  ASSUME NEW pc \in Nat, pc <= 100, NEW x \in Int, NEW y \in Int, x <= y
  PROVE  /\ Pct(AtLeast(0, x), pc) \in Int /\ Pct(AtLeast(0, y), pc) \in Int
         /\ Pct(AtLeast(0, x), pc) <= Pct(AtLeast(0, y), pc)
         /\ Pct(AtLeast(0, y), pc) - Pct(AtLeast(0, x), pc) <= y - x
<1> DEFINE a == AtLeast(0, x)
           b == AtLeast(0, y)
           u == (a * pc) \div 100
           v == (b * pc) \div 100
<1>1. a \in Nat /\ b \in Nat /\ a <= b /\ b - a <= y - x
  BY DEF AtLeast
<1>2. Pct(a, pc) = u /\ Pct(b, pc) = v
  BY DEF Pct
<1> HIDE DEF a, b
<1>3. a * pc \in Int /\ b * pc \in Int /\ a * pc <= b * pc /\ b * pc - a * pc <= 100 * (b - a)
  <2>1. (b - a) * pc >= 0 /\ (b - a) * (100 - pc) >= 0
    BY <1>1
  <2> QED BY <1>1, <2>1
<1>4. /\ u \in Int /\ v \in Int /\ 100 * u <= a * pc /\ a * pc < 100 * u + 100
      /\ 100 * v <= b * pc /\ b * pc < 100 * v + 100
  BY <1>3, Quotient
<1> HIDE DEF u, v
<1>5. 100 * v < 100 * u + 100 + 100 * (b - a) /\ 100 * u < 100 * v + 100
  <2> DEFINE x1 == a * pc
             x2 == b * pc
  <2> HIDE DEF x1, x2
  <2> QED BY <1>1, <1>3, <1>4 DEF x1, x2
<1> QED BY <1>1, <1>2, <1>4, <1>5 DEF a, b

\* An exact percentage is a hundredth of the product.
LEMMA ExactPct ==
  ASSUME NEW x \in Int, NEW pc \in Nat, Exact(x * pc, 100)
  PROVE  /\ Pct(x, pc) \in Int /\ 100 * Pct(x, pc) = x * pc
         /\ Pct(AtLeast(0, x), pc) \in Int
         /\ 100 * Pct(AtLeast(0, x), pc) = AtLeast(0, x) * pc
<1>1. Pct(x, pc) \in Int /\ 100 * Pct(x, pc) = x * pc
  <2>1. x * pc \in Int
    OBVIOUS
  <2> QED BY <2>1, ExactQuotient DEF Pct
<1>2. CASE x < 0
  BY <1>1, <1>2 DEF AtLeast, Pct
<1>3. CASE ~(x < 0)
  <2>1. AtLeast(0, x) = x
    BY <1>3 DEF AtLeast
  <2> QED BY <1>1, <2>1
<1> QED BY <1>1, <1>2, <1>3

\* What is left after a share of the gain still covers the tax on the revenue.
LEMMA LeftAfterShare ==
  ASSUME NEW s \in Nat, NEW pc \in Nat, s + pc <= 100,
         NEW dR \in Nat, NEW dL \in Int, 100 * dL >= (s + pc) * dR
  PROVE  dL >= 0 /\ (100 - s) * dL >= pc * dR /\ 100 * dL - s * dR >= pc * dR
         /\ pc * dR >= 0 /\ pc * dR \in Int /\ (100 - s) * dL \in Int
<1>1. (s + pc) * dR \in Nat /\ pc * dR \in Nat /\ s * dR \in Nat
  OBVIOUS
<1>2. dL >= 0
  BY <1>1
<1>3. (100 - s) * (100 * dL) >= (100 - s) * ((s + pc) * dR)
  <2>1. 100 * dL - (s + pc) * dR \in Nat /\ 100 - s \in Nat
    BY <1>1
  <2>2. (100 - s) * (100 * dL - (s + pc) * dR) >= 0
    BY <2>1
  <2> QED BY <2>1, <2>2, <1>1
<1>4. (100 - s) * ((s + pc) * dR) = 100 * (pc * dR) + (s * (100 - s - pc)) * dR
  OBVIOUS
<1>5. (s * (100 - s - pc)) * dR >= 0
  <2>1. 100 - s - pc \in Nat
    OBVIOUS
  <2>2. s * (100 - s - pc) \in Nat
    BY <2>1
  <2> QED BY <2>2
<1>6. 100 * ((100 - s) * dL) >= 100 * (pc * dR)
  BY <1>3, <1>4, <1>5
<1>7. (100 - s) * dL \in Int
  OBVIOUS
<1> QED BY <1>1, <1>2, <1>6, <1>7

\* A month that earns more, of which the margin keeps what the share and the
\* tax take of the revenue, leaves more; and so does one without depreciation,
\* unless the depreciation shielded something and was not cash.
LEMMA FlowGrows ==
  ASSUME NEW q \in Inputs, q.shared + q.tax <= 100,
         NEW R1 \in Int, NEW R2 \in Int, R1 <= R2,
         NEW L1 \in Int, NEW L2 \in Int, 100 * (L2 - L1) >= (q.shared + q.tax) * (R2 - R1),
         NEW d1 \in Int, NEW d2 \in Int, d2 <= d1,
         ExactFlow(q, R1, L1, d1), ExactFlow(q, R2, L2, d2),
         Shielded(q) => q.asCash \/ d1 = d2
  PROVE  FlowOf(q, R1, L1, d1) <= FlowOf(q, R2, L2, d2)
<1> DEFINE s == q.shared
           pc == q.tax
           S1 == ShareOf(q, R1, L1, d1)
           S2 == ShareOf(q, R2, L2, d2)
           x1 == L1 - S1 - d1
           x2 == L2 - S2 - d2
<1>1. s \in Nat /\ pc \in Nat /\ s + pc <= 100 /\ s <= 100 /\ pc <= 100
      /\ q.sharedBase \in {"revenue", "ebitda", "profit"}
  BY DEF Inputs
<1>2. R2 - R1 \in Nat /\ L2 - L1 \in Int
  OBVIOUS
<1>3. /\ L2 - L1 >= 0 /\ (100 - s) * (L2 - L1) >= pc * (R2 - R1)
      /\ 100 * (L2 - L1) - s * (R2 - R1) >= pc * (R2 - R1)
      /\ pc * (R2 - R1) >= 0 /\ pc * (R2 - R1) \in Int /\ (100 - s) * (L2 - L1) \in Int
  <2>1. 100 * (L2 - L1) >= (s + pc) * (R2 - R1)
    OBVIOUS
  <2> HIDE DEF s, pc
  <2> QED BY <1>1, <1>2, <2>1, LeftAfterShare
\* The share takes of the gain no more than its percentage.
<1>4. /\ S1 \in Int /\ S2 \in Int
      /\ 100 * (x2 - x1) >= pc * (R2 - R1)
      /\ s = 0 \/ q.sharedBase # "profit" \/ d1 = d2
           => 100 * ((L2 - S2) - (L1 - S1)) >= pc * (R2 - R1)
  <2>1. CASE q.sharedBase = "revenue"
    <3>1. S1 = Pct(R1, s) /\ S2 = Pct(R2, s)
      BY <2>1 DEF ShareOf
    <3>2. S1 \in Int /\ S2 \in Int /\ 100 * S1 = R1 * s /\ 100 * S2 = R2 * s
      BY <1>1, <3>1, ExactPct DEF ExactFlow
    <3> HIDE DEF S1, S2, s, pc
    <3>3. 100 * S2 - 100 * S1 = s * (R2 - R1)
      BY <1>1, <3>2
    <3>4. s * (R2 - R1) \in Int
      BY <1>1
    <3> QED BY <1>3, <3>2, <3>3, <3>4
  <2>2. CASE q.sharedBase = "ebitda"
    <3>1. S1 = Pct(AtLeast(0, L1), s) /\ S2 = Pct(AtLeast(0, L2), s)
      BY <2>2 DEF ShareOf
    <3>2. S1 \in Int /\ S2 \in Int /\ 100 * S1 = AtLeast(0, L1) * s
          /\ 100 * S2 = AtLeast(0, L2) * s
      BY <1>1, <3>1, ExactPct DEF ExactFlow
    <3> HIDE DEF S1, S2, s, pc
    <3> DEFINE g == AtLeast(0, L2) - AtLeast(0, L1)
    <3>3. g \in Int /\ AtLeast(0, L1) \in Int /\ AtLeast(0, L2) \in Int /\ g <= L2 - L1
      BY <1>3 DEF AtLeast
    <3>4. 100 * S2 - 100 * S1 = s * g
      BY <1>1, <3>2, <3>3
    <3> HIDE DEF g
    <3>5. s * g <= s * (L2 - L1) /\ s * g \in Int /\ s * (L2 - L1) \in Int
      BY <1>1, <1>2, <3>3, ProductMonotone
    <3>6. (100 - s) * (L2 - L1) = 100 * (L2 - L1) - s * (L2 - L1)
      BY <1>1
    <3> QED BY <1>3, <3>2, <3>4, <3>5, <3>6
  <2>3. CASE q.sharedBase = "profit"
    <3> DEFINE y1 == L1 - d1
               y2 == L2 - d2
               g == AtLeast(0, y2) - AtLeast(0, y1)
    <3>1. S1 = Pct(AtLeast(0, y1), s) /\ S2 = Pct(AtLeast(0, y2), s)
      BY <2>3 DEF ShareOf
    <3>2. y1 \in Int /\ y2 \in Int /\ y2 - y1 >= L2 - L1
      OBVIOUS
    <3>3. S1 \in Int /\ S2 \in Int /\ 100 * S1 = AtLeast(0, y1) * s
          /\ 100 * S2 = AtLeast(0, y2) * s
      BY <1>1, <3>1, <3>2, ExactPct DEF ExactFlow
    <3> HIDE DEF S1, S2, s, pc
    <3>4. g \in Int /\ AtLeast(0, y1) \in Int /\ AtLeast(0, y2) \in Int /\ g <= y2 - y1
      BY <1>3, <3>2 DEF AtLeast
    <3>5. 100 * S2 - 100 * S1 = s * g
      BY <1>1, <3>3, <3>4
    <3>6. x1 = y1 - S1 /\ x2 = y2 - S2
      BY <3>3
    <3> HIDE DEF g, y1, y2
    <3>7. s * g <= s * (y2 - y1) /\ s * g \in Int /\ s * (y2 - y1) \in Int
      BY <1>1, <3>2, <3>4, ProductMonotone
    <3>8. (100 - s) * (y2 - y1) >= (100 - s) * (L2 - L1) /\ (100 - s) * (y2 - y1) \in Int
      BY <1>1, <1>2, <3>2, ProductMonotone
    <3>9. (100 - s) * (y2 - y1) = 100 * (y2 - y1) - s * (y2 - y1)
      BY <1>1, <3>2
    <3>10. 100 * (x2 - x1) >= pc * (R2 - R1)
      BY <1>3, <3>2, <3>3, <3>5, <3>6, <3>7, <3>8, <3>9
    <3>11. ASSUME d1 = d2 PROVE (L2 - S2) - (L1 - S1) = x2 - x1
      BY <3>3, <3>11
    <3>12. ASSUME s = 0 PROVE 100 * ((L2 - S2) - (L1 - S1)) >= pc * (R2 - R1)
      BY <1>3, <3>3, <3>4, <3>5, <3>12
    <3> QED BY <2>3, <3>3, <3>10, <3>11, <3>12
  <2> QED BY <1>1, <2>1, <2>2, <2>3
<1>5. x1 \in Int /\ x2 \in Int /\ L1 - S1 \in Int /\ L2 - S2 \in Int /\ x1 <= x2
  BY <1>3, <1>4
<1> DEFINE T1 == Pct(IF q.taxBase = "revenue" THEN R1 ELSE AtLeast(0, x1), pc)
           T2 == Pct(IF q.taxBase = "revenue" THEN R2 ELSE AtLeast(0, x2), pc)
<1>6. /\ FlowOf(q, R1, L1, d1) = (IF q.asCash THEN x1 ELSE L1 - S1) - T1
      /\ FlowOf(q, R2, L2, d2) = (IF q.asCash THEN x2 ELSE L2 - S2) - T2
  BY DEF FlowOf
<1>7. /\ T1 \in Int /\ T2 \in Int
      /\ x1 - T1 <= x2 - T2
      /\ ~q.asCash => (L1 - S1) - T1 <= (L2 - S2) - T2
  <2>1. ~q.asCash => d1 = d2 \/ (pc = 0 /\ (s = 0 \/ q.sharedBase # "profit"))
    BY <1>1 DEF Shielded
  <2> HIDE DEF S1, S2, x1, x2
  <2>2. CASE q.taxBase = "revenue"
    <3>1. T1 = Pct(R1, pc) /\ T2 = Pct(R2, pc)
      BY <2>2
    <3>2. T1 \in Int /\ T2 \in Int /\ 100 * T1 = R1 * pc /\ 100 * T2 = R2 * pc
      BY <1>1, <3>1, ExactPct DEF ExactFlow
    <3> HIDE DEF T1, T2, s, pc
    <3>3. 100 * T2 - 100 * T1 = pc * (R2 - R1)
      BY <1>1, <3>2
    <3>4. x1 - T1 <= x2 - T2
      BY <1>3, <1>4, <1>5, <3>2, <3>3
    <3>5. ~q.asCash => 100 * ((L2 - S2) - (L1 - S1)) >= pc * (R2 - R1)
      BY <1>4, <2>1
    <3>6. ~q.asCash => (L1 - S1) - T1 <= (L2 - S2) - T2
      BY <1>3, <1>5, <3>2, <3>3, <3>5
    <3> QED BY <3>2, <3>4, <3>6
  <2>3. CASE q.taxBase # "revenue"
    <3>1. T1 = Pct(AtLeast(0, x1), pc) /\ T2 = Pct(AtLeast(0, x2), pc)
      BY <2>3
    <3>2. T1 \in Int /\ T2 \in Int /\ T1 <= T2 /\ T2 - T1 <= x2 - x1
      BY <1>1, <1>5, <3>1, PctSlope
    <3>3. ASSUME ~q.asCash PROVE (L1 - S1) - T1 <= (L2 - S2) - T2
      <4>1. CASE d1 = d2
        <5>1. (L2 - S2) - (L1 - S1) = x2 - x1
          BY <1>4, <4>1 DEF x1, x2
        <5> HIDE DEF T1, T2
        <5> QED BY <1>5, <3>2, <5>1
      <4>2. CASE pc = 0 /\ (s = 0 \/ q.sharedBase # "profit")
        <5>1. T1 = 0 /\ T2 = 0
          <6>1. AtLeast(0, x1) \in Int /\ AtLeast(0, x2) \in Int
            BY <1>5, ClampInt
          <6>2. \A z \in Int : Pct(z, 0) = 0
            BY DEF Pct
          <6> QED BY <3>1, <4>2, <6>1, <6>2
        <5>2. 100 * ((L2 - S2) - (L1 - S1)) >= pc * (R2 - R1)
          BY <1>4, <4>2
        <5> HIDE DEF T1, T2, pc
        <5> QED BY <1>3, <1>5, <5>1, <5>2
      <4> QED BY <2>1, <3>3, <4>1, <4>2
    <3> HIDE DEF T1, T2
    <3>4. x1 - T1 <= x2 - T2
      BY <1>5, <3>2
    <3> QED BY <3>2, <3>3, <3>4
  <2> QED BY <2>2, <2>3
<1> HIDE DEF T1, T2, x1, x2, S1, S2
<1>8. CASE q.asCash
  BY <1>6, <1>7, <1>8
<1>9. CASE ~q.asCash
  BY <1>6, <1>7, <1>9
<1> QED BY <1>8, <1>9

\* An occupancy stays between 0 and 100 %, and does not fall when its target
\* is not below its start.
LEMMA OccupancyIn ==
  ASSUME NEW q \in Inputs, NEW m \in Nat
  PROVE  /\ OccupancyAt(q, m) \in 0..100 /\ AtMost(100, OccupancyAt(q, m)) = OccupancyAt(q, m)
         /\ q.occ0 <= q.occ12 => OccupancyAt(q, m) <= OccupancyAt(q, m + 1)
<1> DEFINE a == q.occ0
           b == q.occ12
           g == q.growth
           Ramp(k) == ((b - a) * k) \div 12
           Rise(k) == (b * g * (k - 12)) \div 400
           At(k) == IF k <= 12 THEN a + Ramp(k) ELSE IF b + Rise(k) > 100 THEN 100 ELSE b + Rise(k)
<1>1. a \in 0..100 /\ b \in 0..100 /\ g \in Nat
  BY DEF Inputs
<1>2. \A k \in Nat : OccupancyAt(q, k) = At(k)
  BY DEF OccupancyAt, AtMost
<1> HIDE DEF a, b, g
<1>3. ASSUME NEW k \in Nat, k <= 12
      PROVE  /\ Ramp(k) \in Int /\ 0 <= a + Ramp(k) /\ a + Ramp(k) <= 100
             /\ k = 12 => Ramp(k) = b - a
             /\ a <= b => a + Ramp(k) <= b
             /\ a <= b /\ k < 12 => Ramp(k) <= Ramp(k + 1)
  <2> DEFINE z == (b - a) * k
             z1 == (b - a) * (k + 1)
  <2>1. z \in Int /\ z1 \in Int /\ z1 = z + (b - a)
    BY <1>1
  <2>2. (a <= b => 0 <= z /\ z <= 12 * (b - a)) /\ (b <= a => 12 * (b - a) <= z /\ z <= 0)
    <3>1. ASSUME a <= b PROVE 0 <= z /\ z <= 12 * (b - a)
      <4>1. (b - a) * (12 - k) >= 0 /\ (b - a) * k >= 0
        BY <1>1, <1>3, <3>1
      <4> QED BY <1>1, <4>1
    <3>2. ASSUME b <= a PROVE 12 * (b - a) <= z /\ z <= 0
      <4>1. (a - b) * (12 - k) >= 0 /\ (a - b) * k >= 0
        BY <1>1, <1>3, <3>2
      <4> QED BY <1>1, <4>1
    <3> QED BY <3>1, <3>2
  <2>3. k = 12 => z = 12 * (b - a)
    BY <1>1
  <2> HIDE DEF z, z1
  <2>4. /\ z \div 12 \in Int /\ 12 * (z \div 12) <= z /\ z < 12 * (z \div 12) + 12
        /\ z1 \div 12 \in Int /\ 12 * (z1 \div 12) <= z1 /\ z1 < 12 * (z1 \div 12) + 12
    BY <2>1, Quotient
  <2>5. Ramp(k) = z \div 12 /\ Ramp(k + 1) = z1 \div 12
    BY DEF z, z1
  <2> HIDE DEF Ramp
  <2> QED BY <1>1, <1>3, <2>1, <2>2, <2>3, <2>4, <2>5
<1>4. ASSUME NEW k \in Nat, k > 12
      PROVE  /\ Rise(k) \in Int /\ 0 <= Rise(k)
             /\ Rise(k) <= Rise(k + 1) /\ Rise(k + 1) \in Int
  <2> DEFINE z == b * g * (k - 12)
             z1 == b * g * (k + 1 - 12)
  <2>1. b * g \in Nat
    BY <1>1
  <2>2. z \in Nat /\ z1 \in Nat /\ z <= z1
    <3> DEFINE f == b * g
    <3> HIDE DEF f
    <3>1. z = f * (k - 12) /\ z1 = f * (k + 1 - 12) /\ f \in Nat
      BY <2>1 DEF f
    <3>2. k - 12 \in Nat /\ k + 1 - 12 \in Nat
      BY <1>4
    <3>3. z1 = z + f /\ z \in Nat
      BY <3>1, <3>2
    <3> QED BY <3>1, <3>3
  <2> HIDE DEF z, z1
  <2>3. /\ z \div 400 \in Int /\ z < 400 * (z \div 400) + 400
        /\ z1 \div 400 \in Int /\ z \div 400 <= z1 \div 400
    BY <2>2, Quotient, QuotientMonotone
  <2>4. Rise(k) = z \div 400 /\ Rise(k + 1) = z1 \div 400
    BY DEF z, z1
  <2> HIDE DEF Rise
  <2> QED BY <2>2, <2>3, <2>4
<1> HIDE DEF Ramp, Rise
<1>5. ASSUME NEW k \in Nat PROVE At(k) \in 0..100
  <2>1. CASE k <= 12
    <3>1. At(k) = a + Ramp(k) /\ Ramp(k) \in Int /\ 0 <= a + Ramp(k) /\ a + Ramp(k) <= 100
      BY <1>3, <2>1
    <3> HIDE DEF At
    <3> QED BY <1>1, <3>1
  <2>2. CASE k > 12
    <3>1. At(k) = (IF b + Rise(k) > 100 THEN 100 ELSE b + Rise(k))
      BY <2>2
    <3>2. Rise(k) \in Int /\ 0 <= Rise(k)
      BY <1>4, <2>2
    <3> HIDE DEF At
    <3> QED BY <1>1, <3>1, <3>2
  <2> QED BY <2>1, <2>2
<1>6. ASSUME a <= b PROVE At(m) <= At(m + 1)
  <2>1. CASE m < 12
    BY <1>1, <1>3, <1>6, <2>1
  <2>2. CASE m = 12
    <3>1. At(m) = b /\ At(m + 1) = (IF b + Rise(m + 1) > 100 THEN 100 ELSE b + Rise(m + 1))
      BY <1>1, <1>3, <2>2
    <3>2. Rise(m + 1) \in Int /\ 0 <= Rise(m + 1)
      BY <1>4, <2>2
    <3> QED BY <1>1, <3>1, <3>2
  <2>3. CASE m > 12
    <3>1. m + 1 > 12 /\ ~(m <= 12) /\ ~(m + 1 <= 12)
      BY <2>3
    <3> QED BY <1>1, <1>4, <2>3, <3>1
  <2> QED BY <2>1, <2>2, <2>3
<1>7. m + 1 \in Nat
  OBVIOUS
<1> HIDE DEF At
<1>8. OccupancyAt(q, m) \in 0..100 /\ (a <= b => OccupancyAt(q, m) <= OccupancyAt(q, m + 1))
  BY <1>2, <1>5, <1>6, <1>7
<1> QED BY <1>8 DEF AtMost, a, b

\* A larger share of an amount is not smaller.
LEMMA PctGrows ==
  ASSUME NEW x \in Nat, NEW a \in Int, NEW b \in Int, a <= b
  PROVE  Pct(x, a) <= Pct(x, b) /\ Pct(x, a) \in Int /\ Pct(x, b) \in Int
<1>1. x * a <= x * b /\ x * a \in Int /\ x * b \in Int
  BY ProductMonotone
<1> QED BY <1>1, QuotientMonotone, Quotient DEF Pct

\* What a month sells: the energy, and the sessions that pay a fee.
Sold(q, m) == Pct(q.sessions * 30, AtMost(100, OccupancyAt(q, m)))

\* More is sold at a higher occupancy.
LEMMA SalesGrow ==
  ASSUME NEW q \in Inputs, q.occ0 <= q.occ12, NEW m \in Nat
  PROVE  /\ Kwh(q, m) \in Int /\ Kwh(q, m + 1) \in Int /\ Kwh(q, m) <= Kwh(q, m + 1)
         /\ Sold(q, m) \in Int /\ Sold(q, m + 1) \in Int /\ Sold(q, m) <= Sold(q, m + 1)
<1>1. q.kwh \in Nat /\ q.sessions * 30 \in Nat /\ m + 1 \in Nat
  BY DEF Inputs
<1>2. /\ AtMost(100, OccupancyAt(q, m)) = OccupancyAt(q, m)
      /\ AtMost(100, OccupancyAt(q, m + 1)) = OccupancyAt(q, m + 1)
      /\ OccupancyAt(q, m) \in Int /\ OccupancyAt(q, m + 1) \in Int
      /\ OccupancyAt(q, m) <= OccupancyAt(q, m + 1)
  BY <1>1, OccupancyIn
<1> QED BY <1>1, <1>2, PctGrows, SMTT(30) DEF Kwh, Sold

\* The margin before the share keeps what the share and the tax may take of
\* the revenue, when the percentages leave of the tariff what the energy costs.
LEMMA MarginGrows ==
  ASSUME NEW tariff \in Nat, NEW fee \in Nat, NEW energy \in Nat,
         NEW cut \in Nat, NEW later \in Nat, cut + later <= 100,
         tariff * (100 - cut - later) >= 100 * energy,
         NEW k \in Nat, NEW s \in Nat
  PROVE  /\ tariff * k + fee * s >= 0
         /\ (100 - cut) * (tariff * k + fee * s) - 100 * (energy * k)
              >= later * (tariff * k + fee * s)
<1> DEFINE R == tariff * k + fee * s
           c == 100 - cut - later
<1>1. c \in Nat /\ tariff * k \in Nat /\ fee * s \in Nat /\ energy * k \in Nat
  OBVIOUS
<1>2. R \in Nat /\ R >= tariff * k
  BY <1>1
<1>3. tariff * c >= 100 * energy
  OBVIOUS
<1>4. (tariff * c) * k >= (100 * energy) * k
  <2>1. tariff * c - 100 * energy \in Nat
    BY <1>1, <1>3
  <2>2. (tariff * c - 100 * energy) * k >= 0
    BY <2>1
  <2> QED BY <1>1, <2>2
<1> HIDE DEF R
<1>5. c * R >= c * (tariff * k)
  BY <1>1, <1>2, ProductMonotone
<1>6. c * (tariff * k) = (tariff * c) * k /\ (100 * energy) * k = 100 * (energy * k)
  BY <1>1
<1>7. (100 - cut) * R = c * R + later * R /\ c * R \in Int /\ later * R \in Int
  BY <1>1, <1>2
<1>8. c * R >= 100 * (energy * k)
  BY <1>1, <1>4, <1>5, <1>6, <1>7
<1> QED BY <1>1, <1>2, <1>7, <1>8 DEF R

\* The figures of a month of a project divide.
LEMMA MonthExact ==
  ASSUME NEW q \in Inputs, ExactFigures(q), NEW m \in 1..q.horizon
  PROVE  /\ Exact(Revenue(q, m) * q.gateway, 100) /\ Exact(Revenue(q, m) * q.unpaid, 100)
         /\ ExactFlow(q, Revenue(q, m), Revenue(q, m) - OpexBase(q, m), Depreciation(q, m))
         /\ Exact(Ebit(q, m, Depreciation(q, m)) * q.tax, 100)
<1>1. ExactMonth(q, m)
  BY DEF ExactFigures
<1> DEFINE R == Revenue(q, m)
           L == Revenue(q, m) - OpexBase(q, m)
           d == Depreciation(q, m)
<1>2. /\ \A pc \in {q.gateway, q.unpaid, q.shared, q.tax} : Exact(R * pc, 100)
      /\ \A x \in {L, L - d} : Exact(x * q.shared, 100)
      /\ Exact(Ebit(q, m, d) * q.tax, 100)
  BY <1>1 DEF ExactMonth
<1> HIDE DEF R, L, d
<1>3. /\ Exact(R * q.gateway, 100) /\ Exact(R * q.unpaid, 100)
      /\ ExactFlow(q, R, L, d) /\ Exact(Ebit(q, m, d) * q.tax, 100)
  BY <1>2 DEF ExactFlow
<1> QED BY <1>3 DEF R, L, d

\* The margin of an exact month: what the percentages leave of the revenue,
\* less the energy and what does not depend on the month.
LEMMA MarginIs ==
  ASSUME NEW q \in Inputs, NEW m \in Nat,
         Exact(Revenue(q, m) * q.gateway, 100), Exact(Revenue(q, m) * q.unpaid, 100)
  PROVE  /\ Revenue(q, m) = q.tariff * Kwh(q, m) + q.fee * Sold(q, m)
         /\ Revenue(q, m) \in Int /\ OpexBase(q, m) \in Int
         /\ 100 * (Revenue(q, m) - OpexBase(q, m)) =
              (100 - q.gateway - q.unpaid) * Revenue(q, m) - 100 * (q.energy * Kwh(q, m))
              - 100 * (q.demand + FixedOpex(q))
<1> DEFINE R == Revenue(q, m)
           G == Pct(R, q.gateway)
           U == Pct(R, q.unpaid)
           E == q.energy * Kwh(q, m)
           F == FixedOpex(q)
<1>1. R \in Int
  <2>1. 0 \in Int
    OBVIOUS
  <2> QED BY <2>1, MonthInt
<1>2. q.gateway \in Nat /\ q.unpaid \in Nat /\ q.demand \in Nat
  BY DEF Inputs
<1>3. F \in Int
  BY AmountsInt DEF FixedOpex
<1>4. E \in Int
  <2>1. q.kwh \in Int /\ q.energy \in Int /\ AtMost(100, OccupancyAt(q, m)) \in Int
    BY AmountsInt, OccupancyIn
  <2>2. Kwh(q, m) \in Int
    BY <2>1, PctInt DEF Kwh
  <2> QED BY <2>1, <2>2, ProductInt
<1>5. /\ G \in Int /\ 100 * G = R * q.gateway
      /\ U \in Int /\ 100 * U = R * q.unpaid
  BY <1>1, <1>2, ExactPct
<1>6. OpexBase(q, m) = E + q.demand + G + U + F
  BY DEF OpexBase
<1>7. R = q.tariff * Kwh(q, m) + q.fee * Sold(q, m)
  BY DEF Revenue, Sold
<1> HIDE DEF R, G, U, E, F
<1>8. (100 - q.gateway - q.unpaid) * R = 100 * R - R * q.gateway - R * q.unpaid
  BY <1>1, <1>2
<1>9. /\ OpexBase(q, m) \in Int
      /\ 100 * (R - OpexBase(q, m)) =
           (100 - q.gateway - q.unpaid) * R - 100 * E - 100 * (q.demand + F)
  BY <1>1, <1>2, <1>3, <1>4, <1>5, <1>6, <1>8
<1> QED BY <1>1, <1>7, <1>9 DEF R, E, F

\* The net flow of a maturing project does not fall from a month to the next.
LEMMA MaturingFlow ==
  ASSUME NEW q \in Projects, Maturing(q), NEW m \in Nat, 1 <= m, m + 1 <= q.horizon
  PROVE  NetFlow(q, m) <= NetFlow(q, m + 1)
<1> DEFINE R1 == Revenue(q, m)
           R2 == Revenue(q, m + 1)
           L1 == R1 - OpexBase(q, m)
           L2 == R2 - OpexBase(q, m + 1)
           d1 == Depreciation(q, m)
           d2 == Depreciation(q, m + 1)
           K1 == Kwh(q, m)
           K2 == Kwh(q, m + 1)
           S1 == Sold(q, m)
           S2 == Sold(q, m + 1)
           F == q.demand + FixedOpex(q)
<1>1. /\ q \in Inputs /\ m + 1 \in Nat /\ q.horizon \in Nat
      /\ m \in 1..q.horizon /\ m + 1 \in 1..q.horizon
      /\ m \in Months /\ m + 1 \in Months
  BY ProjectsAssumption, StartInt DEF Months
<1>2. ExactFigures(q)
  BY ExactAssumption
<1>3. /\ q.tariff \in Nat /\ q.fee \in Nat /\ q.energy \in Nat
      /\ q.gateway + q.unpaid \in Nat /\ q.shared + q.tax \in Nat
      /\ q.gateway \in Nat /\ q.unpaid \in Nat /\ q.shared \in Nat /\ q.tax \in Nat
      /\ F \in Int
  BY <1>1, AmountsInt DEF Inputs, FixedOpex
<1>4. /\ K1 \in Int /\ K2 \in Int /\ K1 <= K2 /\ S1 \in Int /\ S2 \in Int /\ S1 <= S2
  BY <1>1, SalesGrow DEF Maturing
<1>5. /\ R1 = q.tariff * K1 + q.fee * S1 /\ R1 \in Int /\ L1 \in Int
      /\ 100 * L1 = (100 - q.gateway - q.unpaid) * R1 - 100 * (q.energy * K1) - 100 * F
      /\ ExactFlow(q, R1, L1, d1)
  BY <1>1, <1>2, MonthExact, MarginIs
<1>6. /\ R2 = q.tariff * K2 + q.fee * S2 /\ R2 \in Int /\ L2 \in Int
      /\ 100 * L2 = (100 - q.gateway - q.unpaid) * R2 - 100 * (q.energy * K2) - 100 * F
      /\ ExactFlow(q, R2, L2, d2)
  BY <1>1, <1>2, MonthExact, MarginIs
<1>7. /\ d1 \in Int /\ d2 \in Int /\ d2 <= d1
      /\ Shielded(q) => q.asCash \/ d1 = d2
  <2>1. Capex(q) \in Nat /\ q.life \in Nat /\ q.life * 12 \in Nat \ {0}
    BY <1>1, PlanInt, AmountsInt
  <2>2. MonthlyDepreciation(q, Capex(q)) \in Int /\ MonthlyDepreciation(q, Capex(q)) >= 0
    <3> DEFINE n == q.life * 12
    <3>1. n \in Nat \ {0} /\ MonthlyDepreciation(q, Capex(q)) = Capex(q) \div n
      BY <2>1 DEF MonthlyDepreciation
    <3> HIDE DEF n
    <3> QED BY <2>1, <3>1, Quotient, SMTT(30)
  <2>3. q.life * 12 >= q.horizon => d1 = d2
    BY <1>1, <2>1 DEF Depreciation
  <2> QED BY <2>1, <2>2, <2>3 DEF Depreciation, Maturing
<1>8. /\ Fcf(q, m, d1) = FlowOf(q, R1, L1, d1) /\ Fcf(q, m + 1, d2) = FlowOf(q, R2, L2, d2)
      /\ Fcf(q, m, d1) \in Int /\ Fcf(q, m + 1, d2) \in Int
  BY <1>1, <1>7, FlowIs, MonthInt
<1>9. /\ Instalment(q, Capex(q), m) \in Int /\ Instalment(q, Capex(q), m + 1) \in Int
      /\ Instalment(q, Capex(q), m + 1) <= Instalment(q, Capex(q), m)
  <2>1. m \in Int /\ m + 1 \in Int /\ Coherent(q)
    BY DEF Maturing
  <2> QED BY <1>1, <2>1, InstalmentInt
<1>10. /\ NetFlow(q, m) = Fcf(q, m, d1) - Instalment(q, Capex(q), m)
       /\ NetFlow(q, m + 1) = Fcf(q, m + 1, d2) - Instalment(q, Capex(q), m + 1)
  BY DEF NetFlow
<1> HIDE DEF R1, R2, L1, L2, d1, d2, K1, K2, S1, S2, F
<1>11. R1 <= R2 /\ 100 * (L2 - L1) >= (q.shared + q.tax) * (R2 - R1)
  <2> DEFINE cut == q.gateway + q.unpaid
             later == q.shared + q.tax
             k == K2 - K1
             s == S2 - S1
  <2>1. /\ cut \in Nat /\ later \in Nat /\ cut + later <= 100 /\ k \in Nat /\ s \in Nat
        /\ q.tariff * (100 - cut - later) >= 100 * q.energy
    <3>1. /\ q.gateway + q.unpaid + q.shared + q.tax <= 100
          /\ q.tariff * (100 - q.gateway - q.unpaid - q.shared - q.tax) >= 100 * q.energy
      BY DEF Maturing
    <3>2. 100 - cut - later = 100 - q.gateway - q.unpaid - q.shared - q.tax
      BY <1>3
    <3> QED BY <1>3, <1>4, <3>1, <3>2
  <2>2. /\ R2 - R1 = q.tariff * k + q.fee * s
        /\ q.energy * K2 - q.energy * K1 = q.energy * k
        /\ q.energy * K2 \in Int /\ q.energy * K1 \in Int
    BY <1>3, <1>4, <1>5, <1>6
  <2> HIDE DEF k, s, later
  <2>3. /\ R2 - R1 >= 0
        /\ (100 - cut) * (R2 - R1) - 100 * (q.energy * k) >= later * (R2 - R1)
    <3> HIDE DEF cut
    <3>1. /\ q.tariff * k + q.fee * s >= 0
          /\ (100 - cut) * (q.tariff * k + q.fee * s) - 100 * (q.energy * k)
               >= later * (q.tariff * k + q.fee * s)
      BY <1>3, <2>1, MarginGrows, ZenonT(30)
    <3> QED BY <2>2, <3>1
  <2>4. 100 * L2 - 100 * L1 = (100 - cut) * (R2 - R1) - 100 * (q.energy * k)
    <3> DEFINE c == 100 - q.gateway - q.unpaid
    <3>1. c = 100 - cut /\ c \in Int
      BY <1>3
    <3> HIDE DEF c, cut
    <3>2. c * R2 - c * R1 = (100 - cut) * (R2 - R1) /\ c * R2 \in Int /\ c * R1 \in Int
      BY <1>5, <1>6, <3>1
    <3>3. /\ 100 * L1 = c * R1 - 100 * (q.energy * K1) - 100 * F
          /\ 100 * L2 = c * R2 - 100 * (q.energy * K2) - 100 * F
      BY <1>5, <1>6 DEF c
    <3> QED BY <1>3, <2>2, <3>2, <3>3
  <2>5. 100 * (L2 - L1) = 100 * L2 - 100 * L1
    BY <1>5, <1>6
  <2> QED BY <1>5, <1>6, <2>3, <2>4, <2>5 DEF later
<1>12. FlowOf(q, R1, L1, d1) <= FlowOf(q, R2, L2, d2)
  <2>1. q.shared + q.tax <= 100
    BY <1>3 DEF Maturing
  <2> QED BY <1>1, <1>5, <1>6, <1>7, <1>11, <2>1, FlowGrows
<1> QED BY <1>8, <1>9, <1>10, <1>12

\* A maturing project that has paid back is in the black, and so is its last
\* month.
LastsInv ==
  Maturing(p) /\ payback # NoMonth => t >= 1 /\ cum >= 0 /\ NetFlow(p, t) >= 0

\* PaybackLasts: once computeProject has found the payback of a maturing
\* project the balance never turns negative again, for every such project.
THEOREM PaybackPersists == SimSpec => []PaybackLasts
<1>1. SimInit => LastsInv
  BY DEF SimInit, LastsInv
<1>2. SimTypeOK /\ PaybackInv /\ LastsInv /\ [SimNext]_simVars => LastsInv'
  <2> SUFFICES ASSUME SimTypeOK, PaybackInv, LastsInv, [SimNext]_simVars PROVE LastsInv'
    OBVIOUS
  <2>1. CASE AddMonth
    <3>1. /\ p' = p /\ t' = t + 1 /\ p \in Projects /\ t \in Nat /\ t + 1 <= p.horizon
          /\ cum \in Int /\ cum' = cum + NetFlow(p, t + 1)
          /\ payback' = IF payback = NoMonth /\ cum' >= 0 THEN t + 1 ELSE payback
          /\ t + 1 \in Months
      BY <2>1, StartInt DEF AddMonth, SimTypeOK, First, Months
    <3>2. NetFlow(p, t + 1) \in Int
      BY <3>1, FlowInt
    <3> SUFFICES ASSUME Maturing(p), payback' # NoMonth
                 PROVE  cum' >= 0 /\ NetFlow(p, t + 1) >= 0
      BY <3>1 DEF LastsInv
    <3>3. CASE payback = NoMonth
      <4>1. cum' >= 0
        BY <3>1, <3>3
      <4>2. cum <= 0
        BY <3>1, <3>3 DEF PaybackInv, Unpaid, Maturing
      <4> QED BY <3>1, <3>2, <4>1, <4>2
    <3>4. CASE payback # NoMonth
      <4>1. t >= 1 /\ cum >= 0 /\ NetFlow(p, t) >= 0
        BY <3>4 DEF LastsInv
      <4>2. NetFlow(p, t) <= NetFlow(p, t + 1)
        BY <3>1, <4>1, MaturingFlow
      <4>3. NetFlow(p, t) \in Int
        <5>1. t \in Months
          BY <3>1, <4>1, ProjectsAssumption DEF Months
        <5> QED BY <3>1, <5>1, FlowInt
      <4> QED BY <3>1, <3>2, <4>1, <4>2, <4>3
    <3> QED BY <3>3, <3>4
  <2>2. CASE EditInputs
    BY <2>2 DEF EditInputs, Start, LastsInv
  <2>3. CASE UNCHANGED simVars
    BY <2>3 DEF simVars, LastsInv
  <2> QED BY <2>1, <2>2, <2>3 DEF SimNext
<1>3. SimTypeOK /\ PaybackInv /\ LastsInv => PaybackLasts
  BY DEF LastsInv, PaybackLasts
<1> QED BY <1>1, <1>2, <1>3, PaybackInvariant, PTL DEF SimSpec

-----------------------------------------------------------------------------
(* Running totals and sums *)

\* A running total exists: each month adds its flow to the one before.
LEMMA RunningExists ==
  ASSUME NEW start \in Int, NEW flow, NEW n \in Nat
  PROVE  \E f : f = [m \in 0..n |-> IF m = 0 THEN start ELSE f[m - 1] + flow[m]]
<1> DEFINE S == {i \in Nat : \E f :
                   f = [m \in 0..i |-> IF m = 0 THEN start ELSE f[m - 1] + flow[m]]}
<1>1. 0 \in S
  <2> DEFINE f == [m \in 0..0 |-> start]
  <2>1. f = [m \in 0..0 |-> IF m = 0 THEN start ELSE f[m - 1] + flow[m]]
    OBVIOUS
  <2> QED BY <2>1
<1>2. ASSUME NEW i \in Nat, i \in S PROVE i + 1 \in S
  <2>1. PICK f : f = [m \in 0..i |-> IF m = 0 THEN start ELSE f[m - 1] + flow[m]]
    BY <1>2
  <2> DEFINE g == [m \in 0..(i + 1) |-> IF m = i + 1 THEN f[i] + flow[i + 1] ELSE f[m]]
  <2>2. \A m \in 0..(i + 1) : g[m] = IF m = 0 THEN start ELSE g[m - 1] + flow[m]
    BY <2>1
  <2>3. g = [m \in 0..(i + 1) |-> IF m = 0 THEN start ELSE g[m - 1] + flow[m]]
    BY <2>2
  <2> HIDE DEF g
  <2> QED BY <2>3
<1> HIDE DEF S
<1>3. Nat \subseteq S
  BY <1>1, <1>2, NatSets
<1> QED BY <1>3 DEF S

\* What a running total holds at the start and after each month.
LEMMA RunningIs ==
  ASSUME NEW start \in Int, NEW n \in Nat, NEW flow, \A m \in 1..n : flow[m] \in Int
  PROVE  /\ Running(start, flow, n)[0] = start
         /\ \A m \in 1..n : Running(start, flow, n)[m] = Running(start, flow, n)[m - 1] + flow[m]
         /\ \A m \in 0..n : Running(start, flow, n)[m] \in Int
<1> DEFINE IsRun(f) == f = [m \in 0..n |-> IF m = 0 THEN start ELSE f[m - 1] + flow[m]]
           B == CHOOSE f : IsRun(f)
<1>1. Running(start, flow, n) = B
  BY DEF Running
<1>2. B = [m \in 0..n |-> IF m = 0 THEN start ELSE B[m - 1] + flow[m]]
  <2>1. \E f : IsRun(f)
    BY RunningExists
  <2> HIDE DEF IsRun
  <2>2. IsRun(B)
    BY <2>1
  <2> QED BY <2>2 DEF IsRun
<1> HIDE DEF B
<1>3. B[0] = start /\ \A m \in 1..n : B[m] = B[m - 1] + flow[m]
  BY <1>2
<1> DEFINE S == {k \in Nat : k <= n => B[k] \in Int}
<1>4. 0 \in S
  BY <1>3
<1>5. ASSUME NEW k \in Nat, k \in S PROVE k + 1 \in S
  <2>1. SUFFICES ASSUME k + 1 <= n PROVE B[k + 1] \in Int
    OBVIOUS
  <2>2. B[k] \in Int /\ k + 1 \in 1..n /\ (k + 1) - 1 = k
    BY <1>5, <2>1
  <2> QED BY <1>3, <2>2
<1> HIDE DEF S
<1>6. Nat \subseteq S
  BY <1>4, <1>5, NatSets
<1> QED BY <1>1, <1>3, <1>6 DEF S

\* A start and flows that are not smaller give totals that are not smaller.
LEMMA RunningGrows ==
  ASSUME NEW a \in Int, NEW b \in Int, a <= b, NEW n \in Nat,
         NEW f, \A m \in 1..n : f[m] \in Int, NEW g, \A m \in 1..n : g[m] \in Int,
         \A m \in 1..n : f[m] <= g[m]
  PROVE  \A m \in 0..n : Running(a, f, n)[m] <= Running(b, g, n)[m]
<1> DEFINE A == Running(a, f, n)
           B == Running(b, g, n)
<1>1. A[0] = a /\ (\A m \in 1..n : A[m] = A[m - 1] + f[m]) /\ \A m \in 0..n : A[m] \in Int
  BY RunningIs
<1>2. B[0] = b /\ (\A m \in 1..n : B[m] = B[m - 1] + g[m]) /\ \A m \in 0..n : B[m] \in Int
  BY RunningIs
<1> HIDE DEF A, B
<1> DEFINE S == {k \in Nat : k <= n => A[k] <= B[k]}
<1>3. 0 \in S
  BY <1>1, <1>2
<1>4. ASSUME NEW k \in Nat, k \in S PROVE k + 1 \in S
  <2>1. SUFFICES ASSUME k + 1 <= n PROVE A[k + 1] <= B[k + 1]
    OBVIOUS
  <2>2. A[k] <= B[k] /\ A[k] \in Int /\ B[k] \in Int /\ f[k + 1] <= g[k + 1]
        /\ f[k + 1] \in Int /\ g[k + 1] \in Int
    BY <1>1, <1>2, <1>4, <2>1
  <2>3. A[k + 1] = A[k] + f[k + 1] /\ B[k + 1] = B[k] + g[k + 1]
    <3>1. k + 1 \in 1..n /\ (k + 1) - 1 = k
      BY <2>1
    <3> QED BY <1>1, <1>2, <3>1
  <2> QED BY <2>2, <2>3
<1> HIDE DEF S
<1>5. Nat \subseteq S
  BY <1>3, <1>4, NatSets
<1> QED BY <1>5 DEF S, A, B

\* A sum of integers is an integer.
LEMMA SumInt ==
  ASSUME NEW S, NEW n \in Nat, NEW f, \A m \in 1..n : f[m] \in Int
  PROVE  SumOver(S, f, n) \in Int
<1> DEFINE f0 == [m \in 1..n |-> IF m \in S THEN f[m] ELSE 0]
<1>1. \A m \in 1..n : f0[m] \in Int
  OBVIOUS
<1>2. SumOver(S, f, n) = Running(0, f0, n)[n]
  BY DEF SumOver
<1> HIDE DEF f0
<1> QED BY <1>1, <1>2, RunningIs

\* Figures in proportion in each month of a sum have sums in proportion.
LEMMA SumScales ==
  ASSUME NEW S, NEW n \in Nat, NEW c \in Int, NEW d \in Int,
         NEW f, \A m \in 1..n : f[m] \in Int, NEW g, \A m \in 1..n : g[m] \in Int,
         \A m \in 1..n : m \in S => c * f[m] = d * g[m]
  PROVE  c * SumOver(S, f, n) = d * SumOver(S, g, n)
<1> DEFINE f0 == [m \in 1..n |-> IF m \in S THEN f[m] ELSE 0]
           g0 == [m \in 1..n |-> IF m \in S THEN g[m] ELSE 0]
           A == Running(0, f0, n)
           B == Running(0, g0, n)
<1>1. /\ \A m \in 1..n : f0[m] \in Int /\ g0[m] \in Int
      /\ \A m \in 1..n : c * f0[m] = d * g0[m]
  <2>1. c * 0 = d * 0
    OBVIOUS
  <2> QED BY <2>1
<1>2. SumOver(S, f, n) = A[n] /\ SumOver(S, g, n) = B[n]
  BY DEF SumOver
<1> HIDE DEF f0, g0
<1>3. A[0] = 0 /\ (\A m \in 1..n : A[m] = A[m - 1] + f0[m]) /\ \A m \in 0..n : A[m] \in Int
  BY <1>1, RunningIs
<1>4. B[0] = 0 /\ (\A m \in 1..n : B[m] = B[m - 1] + g0[m]) /\ \A m \in 0..n : B[m] \in Int
  BY <1>1, RunningIs
<1> HIDE DEF A, B
<1> DEFINE T == {k \in Nat : k <= n => c * A[k] = d * B[k]}
<1>5. 0 \in T
  BY <1>3, <1>4
<1>6. ASSUME NEW k \in Nat, k \in T PROVE k + 1 \in T
  <2>1. SUFFICES ASSUME k + 1 <= n PROVE c * A[k + 1] = d * B[k + 1]
    OBVIOUS
  <2>2. c * A[k] = d * B[k] /\ A[k] \in Int /\ B[k] \in Int /\ c * f0[k + 1] = d * g0[k + 1]
        /\ f0[k + 1] \in Int /\ g0[k + 1] \in Int
    BY <1>1, <1>3, <1>4, <1>6, <2>1
  <2>3. A[k + 1] = A[k] + f0[k + 1] /\ B[k + 1] = B[k] + g0[k + 1]
    <3>1. k + 1 \in 1..n /\ (k + 1) - 1 = k
      BY <2>1
    <3> QED BY <1>3, <1>4, <3>1
  <2>4. c * (A[k] + f0[k + 1]) = c * A[k] + c * f0[k + 1]
        /\ d * (B[k] + g0[k + 1]) = d * B[k] + d * g0[k + 1]
    BY <2>2
  <2> QED BY <2>2, <2>3, <2>4
<1> HIDE DEF T
<1>7. Nat \subseteq T
  BY <1>5, <1>6, NatSets
<1> QED BY <1>2, <1>7 DEF T

\* The sum of figures that are not negative is not negative.
LEMMA SumNonNegative ==
  ASSUME NEW S, NEW n \in Nat, NEW f, \A m \in 1..n : f[m] \in Int,
         \A m \in 1..n : m \in S => f[m] >= 0
  PROVE  SumOver(S, f, n) >= 0
<1> DEFINE f0 == [m \in 1..n |-> IF m \in S THEN f[m] ELSE 0]
           z == [m \in 1..n |-> 0]
<1>1. \A m \in 1..n : f0[m] \in Int /\ z[m] \in Int /\ z[m] <= f0[m] /\ z[m] = 0
  OBVIOUS
<1>2. SumOver(S, f, n) = Running(0, f0, n)[n]
  BY DEF SumOver
<1> HIDE DEF f0, z
<1>3. \A m \in 0..n : Running(0, z, n)[m] <= Running(0, f0, n)[m]
  BY <1>1, RunningGrows
<1> DEFINE Z == Running(0, z, n)
<1>4. Z[0] = 0 /\ \A m \in 1..n : Z[m] = Z[m - 1] + z[m]
  BY <1>1, RunningIs
<1> HIDE DEF Z
<1> DEFINE T == {k \in Nat : k <= n => Z[k] = 0}
<1>5. 0 \in T
  BY <1>4
<1>6. ASSUME NEW k \in Nat, k \in T PROVE k + 1 \in T
  <2>1. SUFFICES ASSUME k + 1 <= n PROVE Z[k + 1] = 0
    OBVIOUS
  <2>2. k + 1 \in 1..n /\ (k + 1) - 1 = k /\ Z[k] = 0
    BY <1>6, <2>1
  <2> QED BY <1>1, <1>4, <2>2
<1> HIDE DEF T
<1>7. Nat \subseteq T
  BY <1>5, <1>6, NatSets
<1>8. Z[n] = 0
  BY <1>7 DEF T
<1> QED BY <1>2, <1>3, <1>8 DEF Z

\* A figure that is less by the same amount in each month of a stretch is less
\* by the amount times the length of the stretch.
LEMMA SumShifts ==
  ASSUME NEW n \in Nat, NEW lo \in Nat, NEW hi \in Nat, 1 <= lo, lo <= hi, hi <= n,
         NEW f, \A m \in 1..n : f[m] \in Int, NEW g, \A m \in 1..n : g[m] \in Int,
         NEW e \in Int, \A m \in lo..hi : g[m] = f[m] - e
  PROVE  SumOver(lo..hi, g, n) = SumOver(lo..hi, f, n) - e * (hi + 1 - lo)
<1> DEFINE S == lo..hi
           a == lo - 1
           b == hi
<1>0. /\ a \in Nat /\ b \in Nat /\ a <= b /\ b <= n /\ hi + 1 - lo = b - a
      /\ \A m \in 1..n : m \in S <=> m > a /\ m <= b
      /\ \A m \in 1..n : m \in S => g[m] = f[m] - e
  OBVIOUS
<1> HIDE DEF S, a, b
<1> DEFINE f0 == [m \in 1..n |-> IF m \in S THEN f[m] ELSE 0]
           g0 == [m \in 1..n |-> IF m \in S THEN g[m] ELSE 0]
           A == Running(0, f0, n)
           B == Running(0, g0, n)
           Count(k) == IF k <= a THEN 0 ELSE IF k <= b THEN k - a ELSE b - a
<1>1. \A m \in 1..n : /\ f0[m] \in Int /\ g0[m] \in Int
                      /\ g0[m] = f0[m] - (IF m > a /\ m <= b THEN e ELSE 0)
  BY <1>0
<1>2. SumOver(S, f, n) = A[n] /\ SumOver(S, g, n) = B[n]
  BY DEF SumOver
<1> HIDE DEF f0, g0
<1>3. A[0] = 0 /\ (\A m \in 1..n : A[m] = A[m - 1] + f0[m]) /\ \A m \in 0..n : A[m] \in Int
  BY <1>1, RunningIs
<1>4. B[0] = 0 /\ (\A m \in 1..n : B[m] = B[m - 1] + g0[m]) /\ \A m \in 0..n : B[m] \in Int
  BY <1>1, RunningIs
<1> HIDE DEF A, B
<1> DEFINE T == {k \in Nat : k <= n => B[k] = A[k] - e * Count(k)}
<1>5. 0 \in T
  BY <1>0, <1>3, <1>4
<1>6. ASSUME NEW k \in Nat, k \in T PROVE k + 1 \in T
  <2>1. SUFFICES ASSUME k + 1 <= n PROVE B[k + 1] = A[k + 1] - e * Count(k + 1)
    OBVIOUS
  <2>2. k + 1 \in 1..n /\ k \in 0..n /\ (k + 1) - 1 = k
    BY <2>1
  <2>3. /\ A[k + 1] = A[k] + f0[k + 1] /\ B[k + 1] = B[k] + g0[k + 1]
        /\ A[k] \in Int /\ B[k] \in Int /\ f0[k + 1] \in Int /\ g0[k + 1] \in Int
        /\ g0[k + 1] = f0[k + 1] - (IF k + 1 > a /\ k + 1 <= b THEN e ELSE 0)
        /\ B[k] = A[k] - e * Count(k)
    BY <1>1, <1>3, <1>4, <1>6, <2>1, <2>2
  <2>4. e * Count(k + 1) = e * Count(k) + (IF k + 1 > a /\ k + 1 <= b THEN e ELSE 0)
    <3>1. CASE k + 1 <= a
      BY <1>0, <3>1
    <3>2. CASE k + 1 > a /\ k + 1 <= b
      <4>1. Count(k + 1) = Count(k) + 1 /\ Count(k) \in Int
        BY <1>0, <3>2
      <4> HIDE DEF Count
      <4> QED BY <3>2, <4>1
    <3>3. CASE k + 1 > b
      <4>1. Count(k + 1) = Count(k) /\ Count(k) \in Int
        BY <1>0, <3>3
      <4> HIDE DEF Count
      <4>2. ~(k + 1 > a /\ k + 1 <= b) /\ e * Count(k) \in Int
        BY <1>0, <3>3, <4>1
      <4> QED BY <4>1, <4>2
    <3> QED BY <1>0, <3>1, <3>2, <3>3
  <2>5. Count(k) \in Int /\ e * Count(k) \in Int
    BY <1>0
  <2> HIDE DEF Count
  <2> QED BY <2>3, <2>4, <2>5
<1> HIDE DEF T
<1>7. Nat \subseteq T
  BY <1>5, <1>6, NatSets
<1>8. B[n] = A[n] - e * Count(n) /\ Count(n) = b - a
  BY <1>0, <1>7 DEF T
<1> QED BY <1>0, <1>2, <1>8 DEF S

-----------------------------------------------------------------------------
(* The yearly statement *)

\* A year of the statement is the twelve months that end with it.
LEMMA YearMonths ==
  ASSUME NEW q \in Inputs, NEW y \in DreYears(q)
  PROVE  /\ y \in Nat \ {0} /\ y * 12 <= q.horizon /\ q.horizon \in Nat
         /\ DreMonths(q, y) = ((y - 1) * 12 + 1)..(y * 12)
         /\ Cardinality(DreMonths(q, y)) = 12
<1>1. q.horizon \in Nat
  BY ProjectsAssumption, AmountsInt DEF Months
<1>2. y \in Nat \ {0} /\ y <= q.horizon \div 12
  <2>1. q.horizon \div 12 \in Int
    BY <1>1
  <2> QED BY <2>1 DEF DreYears, AtMost
<1>3. y * 12 <= q.horizon
  BY <1>1, <1>2
<1>4. DreMonths(q, y) = ((y - 1) * 12 + 1)..(y * 12)
  BY <1>1, <1>2, <1>3 DEF DreMonths
<1>5. Cardinality(DreMonths(q, y)) = 12
  <2>1. (y - 1) * 12 + 1 \in Int /\ y * 12 \in Int
        /\ ~((y - 1) * 12 + 1 > y * 12) /\ y * 12 - ((y - 1) * 12 + 1) + 1 = 12
    BY <1>2
  <2> DEFINE lo == (y - 1) * 12 + 1
             hi == y * 12
  <2> HIDE DEF lo, hi
  <2>2. Cardinality(lo..hi) = IF lo > hi THEN 0 ELSE hi - lo + 1
    <3>1. lo \in Int /\ hi \in Int
      BY <2>1 DEF lo, hi
    <3> QED BY <3>1, FS_Interval
  <2> QED BY <1>4, <2>1, <2>2 DEF lo, hi
<1> QED BY <1>1, <1>2, <1>3, <1>4, <1>5

\* The depreciation of a month is a whole amount.
LEMMA DepreciationInt ==
  ASSUME NEW q \in Inputs
  PROVE  /\ MonthlyDepreciation(q, Capex(q)) \in Nat
         /\ \A m \in Nat : Depreciation(q, m) \in Nat
<1>1. Capex(q) \in Nat /\ q.life * 12 \in Nat \ {0}
  BY PlanInt, AmountsInt
<1>2. MonthlyDepreciation(q, Capex(q)) \in Nat
  <2> DEFINE n == q.life * 12
  <2>1. n \in Nat \ {0} /\ MonthlyDepreciation(q, Capex(q)) = Capex(q) \div n
    BY <1>1 DEF MonthlyDepreciation
  <2> HIDE DEF n
  <2> QED BY <1>1, <2>1, Quotient
<1> QED BY <1>2 DEF Depreciation

\* DREReconciles of one project and one of its years.
LEMMA YearReconciles ==
  ASSUME NEW q \in Inputs, ExactFigures(q), NEW y \in DreYears(q), y <= q.life
  PROVE  LET row == DreRow(q, y)
             months == DreMonths(q, y)
             ebit == [m \in 1..q.horizon |-> Ebit(q, m, Depreciation(q, m))]
             tax  == [m \in 1..q.horizon |-> Tax(q, m, Depreciation(q, m))] IN
         /\ Cardinality(months) = 12
         /\ row.ebit = SumOver(months, ebit, q.horizon)
         /\ q.taxBase = "revenue" \/ (\A m \in months : ebit[m] >= 0) =>
              row.imposto = SumOver(months, tax, q.horizon)
<1> DEFINE months == DreMonths(q, y)
           n == q.horizon
           d == MonthlyDepreciation(q, Capex(q))
           ebitda == [m \in 1..n |-> Ebitda(q, m, Depreciation(q, m))]
           rev == [m \in 1..n |-> Revenue(q, m)]
           ebit == [m \in 1..n |-> Ebit(q, m, Depreciation(q, m))]
           tax == [m \in 1..n |-> Tax(q, m, Depreciation(q, m))]
           sumEbitda == SumOver(months, ebitda, n)
           sumRev == SumOver(months, rev, n)
           sumEbit == SumOver(months, ebit, n)
           sumTax == SumOver(months, tax, n)
<1>1. /\ y \in Nat \ {0} /\ y * 12 <= n /\ n \in Nat
      /\ months = ((y - 1) * 12 + 1)..(y * 12) /\ Cardinality(months) = 12
  BY YearMonths
<1>2. \A m \in 1..n : m \in months <=> m > (y - 1) * 12 /\ m <= y * 12
  BY <1>1
<1>3. d \in Int /\ \A m \in 1..n : m \in months => Depreciation(q, m) = d
  <2>1. \A m \in 1..n : m \in months => m <= q.life * 12
    BY <1>1, <1>2, AmountsInt
  <2> QED BY <2>1, DepreciationInt DEF Depreciation
<1>4. \A m \in 1..n : /\ ebitda[m] \in Int /\ ebit[m] \in Int /\ tax[m] \in Int /\ rev[m] \in Int
                      /\ m \in months => ebit[m] = ebitda[m] - d
  <2> SUFFICES ASSUME NEW m \in 1..n
               PROVE  /\ ebitda[m] \in Int /\ ebit[m] \in Int /\ tax[m] \in Int /\ rev[m] \in Int
                      /\ m \in months => ebit[m] = ebitda[m] - d
    OBVIOUS
  <2>1. m \in Nat /\ Depreciation(q, m) \in Int
    BY <1>1, DepreciationInt
  <2>2. ebit[m] = ebitda[m] - Depreciation(q, m)
    BY DEF Ebit
  <2>3. Revenue(q, m) \in Int
    BY <2>1, MonthInt
  <2>4. /\ Ebitda(q, m, Depreciation(q, m)) \in Int /\ Ebit(q, m, Depreciation(q, m)) \in Int
        /\ Tax(q, m, Depreciation(q, m)) \in Int
    BY <2>1, MonthInt
  <2> QED BY <1>3, <2>2, <2>3, <2>4
<1>5. /\ DreRow(q, y).ebit = sumEbitda - d * Cardinality(months)
      /\ DreRow(q, y).imposto =
           Pct(IF q.taxBase = "revenue" THEN sumRev
               ELSE AtLeast(0, sumEbitda - d * Cardinality(months)), q.tax)
  BY DEF DreRow
<1> HIDE DEF n, ebitda, rev, ebit, tax, months, sumEbitda, sumRev, sumEbit, sumTax, d
<1>6. /\ sumEbitda \in Int /\ sumRev \in Int /\ sumEbit \in Int /\ sumTax \in Int
  BY <1>1, <1>4, SumInt DEF sumEbitda, sumRev, sumEbit, sumTax
<1>7. sumEbit = sumEbitda - d * 12
  <2> DEFINE lo == (y - 1) * 12 + 1
             hi == y * 12
  <2>1. /\ lo \in Nat /\ hi \in Nat /\ 1 <= lo /\ lo <= hi /\ hi <= n /\ hi + 1 - lo = 12
        /\ months = lo..hi
    BY <1>1
  <2> HIDE DEF lo, hi
  <2>2. n \in Nat /\ d \in Int /\ (\A m \in 1..n : ebit[m] \in Int)
        /\ (\A m \in 1..n : ebitda[m] \in Int) /\ \A m \in lo..hi : ebit[m] = ebitda[m] - d
    BY <1>1, <1>3, <1>4, <2>1
  <2>3. SumOver(lo..hi, ebit, n) = SumOver(lo..hi, ebitda, n) - d * (hi + 1 - lo)
    BY <2>1, <2>2, SumShifts
  <2> QED BY <2>1, <2>3 DEF sumEbit, sumEbitda
<1>8. DreRow(q, y).ebit = sumEbit
  BY <1>1, <1>5, <1>7
<1>9. ASSUME q.taxBase = "revenue" \/ (\A m \in months : ebit[m] >= 0)
      PROVE  DreRow(q, y).imposto = sumTax
  <2>1. q.tax \in Nat /\ q.taxBase \in {"revenue", "profit"}
    BY DEF Inputs
  <2>2. ASSUME NEW x \in Int, 100 * sumTax = q.tax * x PROVE Pct(x, q.tax) = sumTax
    <3>1. x * q.tax = 100 * sumTax
      BY <2>1, <2>2
    <3> QED BY <1>6, <3>1, QuotientExact DEF Pct
  <2>3. CASE q.taxBase = "revenue"
    <3>1. \A m \in 1..n : m \in months => 100 * tax[m] = q.tax * rev[m]
      <4> SUFFICES ASSUME NEW m \in 1..n PROVE 100 * tax[m] = q.tax * rev[m]
        OBVIOUS
      <4>1. tax[m] = Pct(rev[m], q.tax)
        BY <2>3 DEF Tax, tax, rev
      <4>2. Exact(rev[m] * q.tax, 100)
        BY MonthExact DEF ExactFlow, rev, n
      <4>3. rev[m] \in Int
        BY <1>4
      <4>4. 100 * Pct(rev[m], q.tax) = rev[m] * q.tax
        BY <2>1, <4>2, <4>3, ExactPct
      <4> QED BY <2>1, <4>1, <4>3, <4>4
    <3>2. 100 * sumTax = q.tax * sumRev
      <4> DEFINE c == 100
                 pc == q.tax
      <4>1. c \in Int /\ pc \in Int /\ \A m \in 1..n : m \in months => c * tax[m] = pc * rev[m]
        BY <2>1, <3>1
      <4> HIDE DEF c, pc
      <4>2. c * sumTax = pc * sumRev
        BY <1>1, <1>4, <4>1, SumScales, SMTT(30) DEF sumTax, sumRev
      <4> QED BY <4>2 DEF c, pc
    <3> QED BY <1>5, <1>6, <2>2, <2>3, <3>2
  <2>4. CASE q.taxBase # "revenue"
    <3>1. \A m \in 1..n : m \in months => 100 * tax[m] = q.tax * ebit[m]
      <4> SUFFICES ASSUME NEW m \in 1..n, m \in months PROVE 100 * tax[m] = q.tax * ebit[m]
        OBVIOUS
      <4>1. tax[m] = Pct(AtLeast(0, ebit[m]), q.tax)
        BY <2>4 DEF Tax, tax, ebit
      <4>2. Exact(ebit[m] * q.tax, 100)
        BY MonthExact DEF ebit, n
      <4>3. ebit[m] \in Int /\ ebit[m] >= 0
        BY <1>4, <1>9, <2>4
      <4>4. AtLeast(0, ebit[m]) = ebit[m]
        BY <4>3 DEF AtLeast
      <4>5. 100 * Pct(ebit[m], q.tax) = ebit[m] * q.tax
        BY <2>1, <4>2, <4>3, ExactPct
      <4> QED BY <2>1, <4>1, <4>3, <4>4, <4>5
    <3>2. 100 * sumTax = q.tax * sumEbit
      <4> DEFINE c == 100
                 pc == q.tax
      <4>1. c \in Int /\ pc \in Int /\ \A m \in 1..n : m \in months => c * tax[m] = pc * ebit[m]
        BY <2>1, <3>1
      <4> HIDE DEF c, pc
      <4>2. c * sumTax = pc * sumEbit
        BY <1>1, <1>4, <4>1, SumScales, SMTT(30) DEF sumTax, sumEbit
      <4> QED BY <4>2 DEF c, pc
    <3>3. sumEbit >= 0
      BY <1>1, <1>4, <1>9, <2>4, SumNonNegative DEF sumEbit
    <3>4. AtLeast(0, sumEbit) = sumEbit
      BY <1>6, <3>3 DEF AtLeast
    <3> QED BY <1>5, <1>6, <1>8, <2>2, <2>4, <3>2, <3>4
  <2> QED BY <2>3, <2>4
<1> QED BY <1>1, <1>8, <1>9 DEF n, months, ebit, tax, sumEbit, sumTax

\* DREReconciles: within the life of the equipment the yearly statement
\* (DRESection) is the sum of the months of computeProject, for every project.
THEOREM StatementReconciles == SimSpec => []DREReconciles
<1>1. SimTypeOK => DREReconciles
  <2> SUFFICES ASSUME SimTypeOK, NEW y \in DreYears(p), y <= p.life
               PROVE  LET row == DreRow(p, y)
                          months == DreMonths(p, y)
                          ebit == [m \in 1..p.horizon |-> Ebit(p, m, Depreciation(p, m))]
                          tax  == [m \in 1..p.horizon |-> Tax(p, m, Depreciation(p, m))] IN
                      /\ Cardinality(months) = 12
                      /\ row.ebit = SumOver(months, ebit, p.horizon)
                      /\ p.taxBase = "revenue" \/ (\A m \in months : ebit[m] >= 0) =>
                           row.imposto = SumOver(months, tax, p.horizon)
    BY DEF DREReconciles
  <2>1. p \in Inputs /\ ExactFigures(p)
    BY ProjectsAssumption, ExactAssumption DEF SimTypeOK
  <2> QED BY <2>1, YearReconciles
<1> QED BY <1>1, SimTypes, PTL

-----------------------------------------------------------------------------
(* The financing *)

\* A payment is due at the signing, and after a month of a plan of several.
LEMMA FirstDues ==
  ASSUME NEW pv, NEW interest, NEW n \in Nat \ {0}
  PROVE  /\ Due(pv, interest, n, 0) = Pmt(pv, interest, n)
         /\ n > 1 => Due(pv, interest, n, 1) = Pmt(pv, interest, n)
  BY DEF Due

\* The instalments offered for the two parts of a coherent project are those
\* of its plan.
LEMMA OfferedParts ==
  ASSUME NEW q \in Inputs, q.split = "separate", q.charger <= Capex(q)
  PROVE  OfferedInstalments(q).charger + OfferedInstalments(q).other = Instalment(q, Capex(q), 0)
<1> DEFINE c == Capex(q)
           n1 == AtLeast(1, q.chargerInst)
           n2 == AtLeast(1, q.otherInst)
           part == ChargerPart(q, c)
<1>1. c \in Nat /\ n1 \in Nat \ {0} /\ n2 \in Nat \ {0} /\ q.charger \in Nat
  BY PlanInt
<1>2. part = q.charger
  BY <1>1, ChargerPartIs
<1>3. AtLeast(0, c - q.charger) = c - q.charger
  BY <1>1 DEF AtLeast
<1>4. Instalment(q, c, 0) = Due(part, q.interest, n1, 0) + Due(c - part, q.interest, n2, 0)
  BY DEF Instalment
<1>5. /\ OfferedInstalments(q).charger = Pmt(q.charger, q.interest, n1)
      /\ OfferedInstalments(q).other = Pmt(AtLeast(0, c - q.charger), q.interest, n2)
  BY DEF OfferedInstalments
<1> HIDE DEF c, n1, n2, part
<1>6. /\ Due(part, q.interest, n1, 0) = Pmt(part, q.interest, n1)
      /\ Due(c - part, q.interest, n2, 0) = Pmt(c - part, q.interest, n2)
  BY <1>1, FirstDues
<1>7. Instalment(q, c, 0) = OfferedInstalments(q).charger + OfferedInstalments(q).other
  BY <1>2, <1>3, <1>4, <1>5, <1>6
<1> QED BY <1>7 DEF c

\* A project that costs something and is paid in several instalments has one
\* to pay after a month.
LEMMA PaidLater ==
  ASSUME NEW q \in Projects, Len(Printed(q).financing) = 1, Capex(q) > 0
  PROVE  Instalment(q, Capex(q), 1) > 0
<1> DEFINE c == Capex(q)
           n == AtLeast(1, q.inst)
<1>1. q \in Inputs /\ q.inst \in Nat /\ Exact(c, n)
  BY ProjectsAssumption, ExactAssumption DEF Inputs
<1>2. c \in Nat \ {0} /\ n \in Nat \ {0} /\ q.interest \in Nat
  BY <1>1, PlanInt
<1>3. q.split = "all" /\ q.inst > 1
  <2>1. Printed(q).financing = IF q.split = "all" /\ q.inst > 1 THEN <<q.inst>>
                               ELSE IF q.split = "separate" THEN <<q.chargerInst, q.otherInst>>
                               ELSE <<>>
    BY DEF Printed
  <2>2. Len(<<q.chargerInst, q.otherInst>>) = 2 /\ Len(<<>>) = 0
    OBVIOUS
  <2> QED BY <2>1, <2>2
<1>4. n > 1
  BY <1>1, <1>3 DEF AtLeast
<1>5. Instalment(q, c, 1) = Due(c, q.interest, n, 1)
  BY <1>3 DEF Instalment
<1> HIDE DEF c, n
<1>6. c >= n
  <2> DEFINE k == c \div n
  <2>1. k \in Int /\ n * k = c
    BY <1>1, <1>2, ExactQuotient
  <2> HIDE DEF k
  <2>2. k >= 1
    BY <1>2, <2>1
  <2>3. n * (k - 1) >= 0
    BY <1>2, <2>1, <2>2
  <2> QED BY <1>2, <2>1, <2>3
<1>7. Due(c, q.interest, n, 1) = Pmt(c, q.interest, n)
  BY <1>2, <1>4, FirstDues
<1>8. Pmt(c, q.interest, n) > 0
  <2>1. c \in Int /\ n \in Int /\ c > 0 /\ n > 0 /\ (q.interest = 0 => c >= n)
    BY <1>2, <1>6
  <2> QED BY <1>2, <2>1, PmtInt
<1> QED BY <1>5, <1>7, <1>8 DEF c

\* OfferIsCharged: the instalments shown beside the selects of the page are
\* those capexInstallmentAt charges, and a print that names instalments means
\* a payment after the signing, for every project.
THEOREM OffersAreCharged == SimSpec => []OfferIsCharged
<1>1. SimTypeOK => OfferIsCharged
  BY ProjectsAssumption, OfferedParts, PaidLater DEF SimTypeOK, OfferIsCharged
<1> QED BY <1>1, SimTypes, PTL

-----------------------------------------------------------------------------
(* Two projects that differ in what they sell or in what it costs *)

\* The plan, the depreciation, the share and the tax are the same.
SamePlan(q, r) ==
  /\ r.capexMode = q.capexMode /\ r.override = q.override /\ r.charger = q.charger
  /\ r.rest = q.rest /\ r.horizon = q.horizon /\ r.life = q.life /\ r.asCash = q.asCash
  /\ r.split = q.split /\ r.inst = q.inst /\ r.chargerInst = q.chargerInst
  /\ r.otherInst = q.otherInst /\ r.interest = q.interest
  /\ r.opexMode = q.opexMode /\ r.opexOverride = q.opexOverride /\ r.items = q.items
  /\ r.shared = q.shared /\ r.sharedBase = q.sharedBase
  /\ r.tax = q.tax /\ r.taxBase = q.taxBase

\* What such projects have in common.
LEMMA SamePlanIs ==
  ASSUME NEW q, NEW r, SamePlan(q, r)
  PROVE  /\ Capex(r) = Capex(q) /\ FixedOpex(r) = FixedOpex(q)
         /\ \A c, m : Instalment(r, c, m) = Instalment(q, c, m)
         /\ \A m : Depreciation(r, m) = Depreciation(q, m)
         /\ \A R, L, d : FlowOf(r, R, L, d) = FlowOf(q, R, L, d)
         /\ \A R, L, d : ExactFlow(r, R, L, d) <=> ExactFlow(q, R, L, d)
<1>1. Capex(r) = Capex(q) /\ FixedOpex(r) = FixedOpex(q)
  BY DEF SamePlan, Capex, FixedOpex
<1>2. \A c : ChargerPart(r, c) = ChargerPart(q, c)
  BY <1>1 DEF SamePlan, ChargerPart
<1>3. \A c, m : Instalment(r, c, m) = Instalment(q, c, m)
  BY <1>2, Zenon DEF SamePlan, Instalment
<1>4. \A m : Depreciation(r, m) = Depreciation(q, m)
  BY <1>1 DEF SamePlan, Depreciation, MonthlyDepreciation
<1>5. \A R, L, d : ShareOf(r, R, L, d) = ShareOf(q, R, L, d)
  BY DEF SamePlan, ShareOf
<1>6. \A R, L, d : FlowOf(r, R, L, d) = FlowOf(q, R, L, d)
  BY <1>5, ZenonT(30) DEF SamePlan, FlowOf
<1>7. \A R, L, d : ExactFlow(r, R, L, d) <=> ExactFlow(q, R, L, d)
  BY DEF SamePlan, ExactFlow
<1> QED BY <1>1, <1>3, <1>4, <1>6, <1>7

\* The loop of the tornado over a project r, for the plan of q: the balance of
\* q itself when r is q.
NetOf(q, r) == [m \in 1..q.horizon |-> Fcf(r, m, Depreciation(q, m)) - Instalment(q, Capex(q), m)]
BalanceOf(q, r) == Running(-Instalment(q, Capex(q), 0), NetOf(q, r), q.horizon)
PaybackOf(q, r) == Earliest({m \in 1..q.horizon : BalanceOf(q, r)[m] >= 0}, q)

\* It is the loop of the page.
LEMMA BalanceIs ==
  ASSUME NEW q, NEW r, SamePlan(q, r)
  PROVE  Balance(r, Capex(q), MonthlyDepreciation(q, Capex(q))) = BalanceOf(q, r)
<1> DEFINE c == Capex(q)
           d == MonthlyDepreciation(q, c)
           flow == [m \in 1..r.horizon |->
                      Fcf(r, m, IF m <= r.life * 12 THEN d ELSE 0) - Instalment(r, c, m)]
<1>1. Balance(r, c, d) = Running(-Instalment(r, c, 0), flow, r.horizon)
  BY DEF Balance
<1>2. Instalment(r, c, 0) = Instalment(q, c, 0) /\ r.horizon = q.horizon
  BY SamePlanIs DEF SamePlan
<1>3. flow = NetOf(q, r)
  <2>1. r.life = q.life /\ \A m : Instalment(r, c, m) = Instalment(q, c, m)
    BY SamePlanIs DEF SamePlan
  <2> QED BY <1>2, <2>1, Zenon DEF NetOf, Depreciation
<1> HIDE DEF flow
<1> QED BY <1>1, <1>2, <1>3 DEF BalanceOf

\* The flows of such a loop are whole.
LEMMA NetOfInt ==
  ASSUME NEW q \in Inputs, NEW r \in Inputs
  PROVE  /\ q.horizon \in Nat /\ -Instalment(q, Capex(q), 0) \in Int
         /\ \A m \in 1..q.horizon : NetOf(q, r)[m] \in Int
<1>1. q.horizon \in Nat
  BY ProjectsAssumption, AmountsInt DEF Months
<1>2. \A m \in Nat : Instalment(q, Capex(q), m) \in Int
  <2>1. \A m \in Nat : m \in Int
    OBVIOUS
  <2> QED BY <2>1, InstalmentInt
<1>3. \A m \in Nat : Fcf(r, m, Depreciation(q, m)) \in Int
  <2> TAKE m \in Nat
  <2>1. Depreciation(q, m) \in Int
    BY DepreciationInt
  <2> QED BY <2>1, MonthInt
<1> QED BY <1>1, <1>2, <1>3 DEF NetOf

\* A set of months that is not empty has an earliest.
LEMMA EarliestIs ==
  ASSUME NEW n \in Nat, NEW S \in SUBSET (1..n), S # {}
  PROVE  Min(S) \in S /\ \A m \in S : Min(S) <= m
<1>1. \E x \in S : \A m \in S : x <= m
  <2>1. PICK x \in S : \A y \in S : ~(<<y, x>> \in OpToRel(<, Nat))
    <3>1. IsWellFoundedOn(OpToRel(<, Nat), Nat)
      BY NatLessThanWellFounded
    <3>2. S \subseteq Nat
      OBVIOUS
    <3> QED BY <3>1, <3>2, WFMin
  <2>2. ASSUME NEW y \in S PROVE x <= y
    <3>1. x \in Nat /\ y \in Nat
      OBVIOUS
    <3>2. y < x => <<y, x>> \in OpToRel(<, Nat)
      BY <3>1 DEF OpToRel
    <3>3. ~(y < x)
      BY <2>1, <3>2
    <3> QED BY <3>1, <3>3
  <2> QED BY <2>2
<1> QED BY <1>1 DEF Min

\* Fewer months in the black do not begin earlier.
LEMMA EarliestLater ==
  ASSUME NEW q, NEW n \in Nat, q.horizon = n,
         NEW T \in SUBSET (1..n), NEW S \in SUBSET T
  PROVE  /\ Earliest(S, q) \in Int /\ Earliest(T, q) \in Int
         /\ Earliest(T, q) <= Earliest(S, q)
<1>1. S \in SUBSET (1..n)
  OBVIOUS
<1>2. \A U \in SUBSET (1..n) :
        /\ U = {} => Earliest(U, q) = n + 1
        /\ U # {} => Earliest(U, q) \in U /\ \A m \in U : Earliest(U, q) <= m
  BY EarliestIs DEF Earliest
<1> DEFINE a == Earliest(S, q)
           b == Earliest(T, q)
<1>3. /\ S = {} => a = n + 1
      /\ S # {} => a \in S
      /\ T = {} => b = n + 1
      /\ T # {} => b \in T /\ \A m \in T : b <= m
  BY <1>1, <1>2
<1> HIDE DEF a, b
<1>4. a \in Int /\ b \in Int /\ b <= a
  <2>1. CASE S # {}
    <3>1. a \in T /\ b \in T /\ b <= a
      BY <1>3, <2>1
    <3>2. a \in 1..n /\ b \in 1..n
      BY <3>1
    <3> QED BY <3>1, <3>2
  <2>2. CASE S = {}
    <3>1. a = n + 1 /\ (b = n + 1 \/ b \in 1..n)
      BY <1>3, <2>2
    <3> QED BY <3>1
  <2> QED BY <2>1, <2>2
<1> QED BY <1>4 DEF a, b

\* A project that leaves more in each month pays back no later.
LEMMA PaybackFollows ==
  ASSUME NEW q \in Inputs, NEW r1 \in Inputs, NEW r2 \in Inputs,
         \A m \in 1..q.horizon : Fcf(r1, m, Depreciation(q, m)) <= Fcf(r2, m, Depreciation(q, m))
  PROVE  /\ PaybackOf(q, r1) \in Int /\ PaybackOf(q, r2) \in Int
         /\ PaybackOf(q, r2) <= PaybackOf(q, r1)
<1> DEFINE n == q.horizon
           c == -Instalment(q, Capex(q), 0)
           f == NetOf(q, r1)
           g == NetOf(q, r2)
           A == BalanceOf(q, r1)
           B == BalanceOf(q, r2)
           S == {m \in 1..n : A[m] >= 0}
           T == {m \in 1..n : B[m] >= 0}
<1>1. /\ n \in Nat /\ c \in Int
      /\ \A m \in 1..n : f[m] \in Int /\ g[m] \in Int
  BY NetOfInt
<1>2. \A m \in 1..n : f[m] <= g[m]
  <2> TAKE m \in 1..n
  <2> DEFINE x == Fcf(r1, m, Depreciation(q, m))
             y == Fcf(r2, m, Depreciation(q, m))
             z == Instalment(q, Capex(q), m)
  <2>1. m \in Nat /\ m \in Int /\ Depreciation(q, m) \in Int
    BY <1>1, DepreciationInt
  <2>2. x \in Int /\ y \in Int
    BY <2>1, MonthInt
  <2>3. z \in Int
    BY <2>1, InstalmentInt
  <2>4. x <= y /\ f[m] = x - z /\ g[m] = y - z
    BY DEF NetOf
  <2> HIDE DEF x, y, z, f, g, n
  <2> QED BY <2>2, <2>3, <2>4
<1>3. A = Running(c, f, n) /\ B = Running(c, g, n)
  BY DEF BalanceOf
<1> HIDE DEF n, c, f, g, A, B
<1>4. \A m \in 0..n : A[m] <= B[m]
  <2>1. c <= c
    BY <1>1
  <2> QED BY <1>1, <1>2, <1>3, <2>1, RunningGrows
<1>5. \A m \in 0..n : A[m] \in Int /\ B[m] \in Int
  BY <1>1, <1>3, RunningIs
<1>6. S \subseteq T /\ T \subseteq 1..n
  BY <1>4, <1>5
<1>7. PaybackOf(q, r1) = Earliest(S, q) /\ PaybackOf(q, r2) = Earliest(T, q)
  BY DEF PaybackOf, n, A, B
<1> HIDE DEF S, T
<1> QED BY <1>1, <1>6, <1>7, EarliestLater DEF n

-----------------------------------------------------------------------------
(* The main loop is the loop of the tornado *)

\* Month by month, the balance of a project adds its net flow.
LEMMA OwnBalance ==
  ASSUME NEW q \in Inputs
  PROVE  /\ q.horizon \in Nat /\ BalanceOf(q, q)[0] = -Instalment(q, Capex(q), 0)
         /\ \A m \in 1..q.horizon : /\ BalanceOf(q, q)[m] = BalanceOf(q, q)[m - 1] + NetFlow(q, m)
                                    /\ NetFlow(q, m) \in Int
         /\ \A m \in 0..q.horizon : BalanceOf(q, q)[m] \in Int
<1> DEFINE c == -Instalment(q, Capex(q), 0)
           f == NetOf(q, q)
           n == q.horizon
           B == BalanceOf(q, q)
<1>1. n \in Nat /\ c \in Int /\ \A m \in 1..n : f[m] \in Int
  BY NetOfInt
<1>2. B = Running(c, f, n)
  BY DEF BalanceOf
<1>3. \A m \in 1..n : f[m] = NetFlow(q, m)
  BY DEF NetOf, NetFlow
<1> HIDE DEF c, f, n, B
<1>4. /\ B[0] = c /\ (\A m \in 1..n : B[m] = B[m - 1] + f[m])
      /\ \A m \in 0..n : B[m] \in Int
  BY <1>1, <1>2, RunningIs
<1> QED BY <1>1, <1>3, <1>4 DEF B, c, n

\* The first year, and what it earns in each month.
FirstYear(q) == {m \in 1..q.horizon : m <= 12}
YearFlow(q) == [m \in 1..q.horizon |-> IF m \in FirstYear(q) THEN Revenue(q, m) ELSE 0]
YearRevenue(q) == Running(0, YearFlow(q), q.horizon)

\* The revenue of the first year, month by month.
LEMMA YearRevenueIs ==
  ASSUME NEW q \in Inputs
  PROVE  /\ YearRevenue(q)[0] = 0
         /\ \A m \in 1..q.horizon :
              YearRevenue(q)[m] = YearRevenue(q)[m - 1] + (IF m <= 12 THEN Revenue(q, m) ELSE 0)
         /\ \A m \in 0..q.horizon : YearRevenue(q)[m] \in Int
<1> DEFINE f == YearFlow(q)
           n == q.horizon
           B == YearRevenue(q)
           z == 0
<1>1. n \in Nat /\ z \in Int
  BY NetOfInt
<1>2. \A m \in 1..n : f[m] = (IF m <= 12 THEN Revenue(q, m) ELSE 0) /\ f[m] \in Int
  <2> TAKE m \in 1..n
  <2>1. Revenue(q, m) \in Int
    <3>1. m \in Nat /\ 0 \in Int
      BY <1>1
    <3> QED BY <3>1, MonthInt
  <2> QED BY <2>1 DEF YearFlow, FirstYear
<1>3. B = Running(z, f, n)
  BY DEF YearRevenue
<1> HIDE DEF f, n, B, z
<1>4. /\ B[0] = z /\ (\A m \in 1..n : B[m] = B[m - 1] + f[m])
      /\ \A m \in 0..n : B[m] \in Int
  BY <1>1, <1>2, <1>3, RunningIs
<1> QED BY <1>2, <1>4 DEF B, n, z

\* What the loop holds after t months: the balance of the tornado's loop, its
\* first month in the black so far, and the first year of both.
LoopInv ==
  /\ cum = BalanceOf(p, p)[t]
  /\ \A m \in 1..t : BalanceOf(p, p)[m] >= 0 => payback # NoMonth /\ payback <= m
  /\ payback # NoMonth => payback \in 1..t /\ BalanceOf(p, p)[payback] >= 0
  /\ y1Fcf = BalanceOf(p, p)[AtMost(12, t)] - BalanceOf(p, p)[0]
  /\ y1Rev = YearRevenue(p)[t]

\* The loop starts in it.
LEMMA LoopStarts ==
  ASSUME NEW q \in Inputs
  PROVE  /\ -Instalment(q, Capex(q), 0) = BalanceOf(q, q)[0]
         /\ BalanceOf(q, q)[AtMost(12, 0)] - BalanceOf(q, q)[0] = 0
         /\ YearRevenue(q)[0] = 0
<1> DEFINE B == BalanceOf(q, q)
<1>1. /\ q.horizon \in Nat /\ B[0] = -Instalment(q, Capex(q), 0)
      /\ \A m \in 0..q.horizon : B[m] \in Int
  BY OwnBalance
<1>2. AtMost(12, 0) = 0
  BY DEF AtMost
<1> HIDE DEF B
<1>3. B[0] - B[0] = 0
  <2>1. B[0] \in Int
    BY <1>1
  <2> QED BY <2>1
<1> QED BY <1>1, <1>2, <1>3, YearRevenueIs DEF B

\* And stays in it.
LEMMA LoopInvariant == SimSpec => [](SimTypeOK /\ LoopInv)
<1>1. SimTypeOK /\ SimInit => LoopInv
  <2> SUFFICES ASSUME SimTypeOK, SimInit PROVE LoopInv
    OBVIOUS
  <2>1. /\ p \in Inputs /\ t = 0 /\ cum = -Instalment(p, Capex(p), 0) /\ payback = NoMonth
        /\ y1Rev = 0 /\ y1Fcf = 0
    BY ProjectsAssumption DEF SimInit, SimTypeOK
  <2>2. 1..0 = {}
    OBVIOUS
  <2> QED BY <2>1, <2>2, LoopStarts DEF LoopInv
<1>2. SimTypeOK /\ SimTypeOK' /\ LoopInv /\ [SimNext]_simVars => LoopInv'
  <2> SUFFICES ASSUME SimTypeOK, SimTypeOK', LoopInv, [SimNext]_simVars PROVE LoopInv'
    OBVIOUS
  <2>1. CASE AddMonth
    <3> DEFINE B == BalanceOf(p, p)
               Y == YearRevenue(p)
               n == p.horizon
               f == NetFlow(p, t + 1)
    <3>1. /\ p' = p /\ t' = t + 1 /\ t < n /\ cum' = cum + f
          /\ payback' = (IF payback = NoMonth /\ cum' >= 0 THEN t + 1 ELSE payback)
          /\ y1Rev' = (IF t + 1 <= 12 THEN y1Rev + Revenue(p, t + 1) ELSE y1Rev)
          /\ y1Fcf' = (IF t + 1 <= 12 THEN y1Fcf + f ELSE y1Fcf)
      BY <2>1, Zenon DEF AddMonth, First
    <3>2. /\ p \in Inputs /\ t \in 0..n
      BY ProjectsAssumption DEF SimTypeOK
    <3>3. /\ n \in Nat /\ t \in Nat /\ t + 1 \in 1..n /\ (t + 1) - 1 = t
      BY <3>1, <3>2, OwnBalance
    <3>4. /\ B[t + 1] = B[t] + f /\ f \in Int
          /\ \A m \in 0..n : B[m] \in Int
      BY <3>2, <3>3, OwnBalance
    <3>5. /\ Y[t + 1] = Y[t] + (IF t + 1 <= 12 THEN Revenue(p, t + 1) ELSE 0)
          /\ \A m \in 0..n : Y[m] \in Int
      BY <3>2, <3>3, YearRevenueIs
    <3>6. Revenue(p, t + 1) \in Int
      <4>1. t + 1 \in Nat /\ 0 \in Int
        BY <3>3
      <4> QED BY <3>2, <4>1, MonthInt
    <3>7. /\ cum = B[t] /\ y1Rev = Y[t] /\ y1Fcf = B[AtMost(12, t)] - B[0]
          /\ \A m \in 1..t : B[m] >= 0 => payback # NoMonth /\ payback <= m
          /\ payback # NoMonth => payback \in 1..t /\ B[payback] >= 0
      BY DEF LoopInv
    <3> HIDE DEF B, Y, n, f
    <3>8. cum' = B[t + 1]
      BY <3>1, <3>4, <3>7
    <3>9. y1Rev' = Y[t + 1]
      BY <3>1, <3>3, <3>5, <3>6, <3>7
    <3>10. y1Fcf' = B[AtMost(12, t + 1)] - B[0]
      <4>1. B[0] \in Int /\ B[t] \in Int
        BY <3>3, <3>4
      <4>2. CASE t + 1 <= 12
        <5>1. AtMost(12, t) = t /\ AtMost(12, t + 1) = t + 1
          BY <3>3, <4>2 DEF AtMost
        <5> QED BY <3>1, <3>4, <3>7, <4>1, <4>2, <5>1
      <4>3. CASE ~(t + 1 <= 12)
        <5>1. AtMost(12, t) = 12 /\ AtMost(12, t + 1) = 12
          BY <3>3, <4>3 DEF AtMost
        <5> QED BY <3>1, <3>7, <4>3, <5>1
      <4> QED BY <4>2, <4>3
    <3>11. /\ \A m \in 1..(t + 1) : B[m] >= 0 => payback' # NoMonth /\ payback' <= m
           /\ payback' # NoMonth => payback' \in 1..(t + 1) /\ B[payback'] >= 0
      <4>1. \A m \in 1..(t + 1) : m = t + 1 \/ m \in 1..t
        BY <3>3
      <4>2. t + 1 # NoMonth
        BY <3>3, NoMonthAssumption
      <4>3. CASE payback = NoMonth /\ cum' >= 0
        <5>1. payback' = t + 1 /\ B[t + 1] >= 0 /\ \A m \in 1..t : ~(B[m] >= 0)
          BY <3>1, <3>7, <3>8, <4>3
        <5>2. t + 1 \in 1..(t + 1) /\ t + 1 <= t + 1
          BY <3>3
        <5> QED BY <4>1, <4>2, <5>1, <5>2
      <4>4. CASE payback = NoMonth /\ ~(cum' >= 0)
        BY <3>1, <3>3, <3>7, <3>8, <4>1, <4>4
      <4>5. CASE payback # NoMonth
        <5>1. payback' = payback /\ payback \in 1..t /\ B[payback] >= 0
          BY <3>1, <3>7, <4>5
        <5> QED BY <3>3, <3>7, <4>1, <4>5, <5>1
      <4> QED BY <4>3, <4>4, <4>5
    <3> QED BY <3>1, <3>8, <3>9, <3>10, <3>11 DEF LoopInv, B, Y
  <2>2. CASE EditInputs
    <3>1. /\ p' \in Inputs /\ t' = 0 /\ cum' = -Instalment(p', Capex(p'), 0) /\ payback' = NoMonth
          /\ y1Rev' = 0 /\ y1Fcf' = 0
      BY <2>2, ProjectsAssumption DEF EditInputs, Start
    <3>2. 1..0 = {}
      OBVIOUS
    <3> QED BY <3>1, <3>2, LoopStarts DEF LoopInv
  <2>3. CASE UNCHANGED simVars
    BY <2>3 DEF simVars, LoopInv
  <2> QED BY <2>1, <2>2, <2>3 DEF SimNext
<1> QED BY <1>1, <1>2, SimTypes, PTL DEF SimSpec

\* So the payback of the main loop is that of the tornado's loop.
LEMMA BasePaybackIs ==
  ASSUME SimTypeOK, LoopInv, t = p.horizon
  PROVE  BasePayback = PaybackOf(p, p)
<1> DEFINE n == p.horizon
           B == BalanceOf(p, p)
           S == {m \in 1..n : B[m] >= 0}
<1>1. n \in Nat /\ t = n
  BY ProjectsAssumption, OwnBalance DEF SimTypeOK
<1>2. /\ \A m \in 1..n : B[m] >= 0 => payback # NoMonth /\ payback <= m
      /\ payback # NoMonth => payback \in 1..n /\ B[payback] >= 0
  BY <1>1 DEF LoopInv
<1>3. PaybackOf(p, p) = IF S = {} THEN n + 1 ELSE Min(S)
  BY DEF PaybackOf, Earliest
<1>4. BasePayback = IF payback = NoMonth THEN n + 1 ELSE payback
  BY DEF BasePayback
<1> HIDE DEF n, B
<1>5. CASE payback = NoMonth
  <2>1. S = {}
    BY <1>2, <1>5
  <2> QED BY <1>3, <1>4, <1>5, <2>1
<1>6. CASE payback # NoMonth
  <2>1. payback \in S /\ S \in SUBSET (1..n) /\ \A m \in S : payback <= m
    BY <1>2, <1>6
  <2> HIDE DEF S
  <2>2. Min(S) \in S /\ \A m \in S : Min(S) <= m
    BY <1>1, <2>1, EarliestIs
  <2>3. Min(S) = payback
    <3>1. Min(S) \in 1..n /\ payback \in 1..n
      BY <2>1, <2>2
    <3>2. Min(S) <= payback /\ payback <= Min(S)
      BY <2>1, <2>2
    <3> QED BY <1>1, <3>1, <3>2
  <2> QED BY <1>3, <1>4, <1>6, <2>1, <2>3
<1> QED BY <1>5, <1>6

-----------------------------------------------------------------------------
(* A dearer input *)

\* The same energy and the same sessions are sold.
SameVolume(q, r) ==
  /\ r.n = q.n /\ r.kwh = q.kwh /\ r.sessions = q.sessions
  /\ r.occ0 = q.occ0 /\ r.occ12 = q.occ12 /\ r.growth = q.growth
  /\ r.fee = q.fee /\ r.unpaid = q.unpaid

\* r costs more than q, and sells the same at the same prices.
CostsMore(q, r) ==
  /\ SamePlan(q, r) /\ SameVolume(q, r) /\ r.tariff = q.tariff
  /\ q.energy <= r.energy /\ q.demand <= r.demand /\ q.gateway <= r.gateway

\* r has the dearer tariff, and costs the same.
ChargesMore(q, r) ==
  /\ SamePlan(q, r) /\ SameVolume(q, r) /\ q.tariff <= r.tariff
  /\ r.energy = q.energy /\ r.demand = q.demand /\ r.gateway = q.gateway

\* What is sold depends on the volume alone.
LEMMA VolumeIs ==
  ASSUME NEW q \in Inputs, NEW r \in Inputs, SameVolume(q, r), NEW m \in Nat
  PROVE  /\ Kwh(r, m) = Kwh(q, m) /\ Sold(r, m) = Sold(q, m)
         /\ Kwh(q, m) \in Nat /\ Sold(q, m) \in Nat
<1>1. OccupancyAt(r, m) = OccupancyAt(q, m)
  BY DEF SameVolume, OccupancyAt
<1>2. Kwh(r, m) = Kwh(q, m) /\ Sold(r, m) = Sold(q, m)
  BY <1>1 DEF SameVolume, Kwh, Sold
<1> DEFINE o == AtMost(100, OccupancyAt(q, m))
           k == q.kwh
           s == q.sessions * 30
<1>3. o \in Nat /\ k \in Nat /\ s \in Nat
  <2>1. AtMost(100, OccupancyAt(q, m)) = OccupancyAt(q, m) /\ OccupancyAt(q, m) \in 0..100
    BY OccupancyIn
  <2>2. q.kwh \in Nat /\ q.sessions * 30 \in Nat
    BY DEF Inputs
  <2> QED BY <2>1, <2>2
<1>4. Kwh(q, m) = Pct(k, o) /\ Sold(q, m) = Pct(s, o)
  BY DEF Kwh, Sold
<1> HIDE DEF o, k, s
<1>5. ASSUME NEW x \in Nat PROVE Pct(x, o) \in Nat
  <2>1. x * o \in Nat
    BY <1>3
  <2> QED BY <2>1 DEF Pct
<1> QED BY <1>2, <1>3, <1>4, <1>5

\* A margin that is lower by a cost leaves less, whatever is shared of it.
LEMMA FlowFollows ==
  ASSUME NEW q \in Inputs, q.shared <= 100, q.tax <= 100, NEW R \in Int, NEW d \in Int,
         NEW L1 \in Int, NEW L2 \in Int, L1 <= L2
  PROVE  FlowOf(q, R, L1, d) <= FlowOf(q, R, L2, d)
<1> DEFINE s == q.shared
           pc == q.tax
           S1 == ShareOf(q, R, L1, d)
           S2 == ShareOf(q, R, L2, d)
<1>1. s \in Nat /\ pc \in Nat /\ s <= 100 /\ pc <= 100
      /\ q.sharedBase \in {"revenue", "ebitda", "profit"}
  BY DEF Inputs
<1>2. S1 \in Int /\ S2 \in Int /\ S2 - S1 <= L2 - L1
  <2>1. CASE q.sharedBase = "revenue"
    <3>1. S1 = Pct(R, s) /\ S2 = Pct(R, s)
      BY <2>1 DEF ShareOf
    <3>2. Pct(R, s) \in Int
      <4>1. s \in Int
        BY <1>1
      <4> HIDE DEF s
      <4> QED BY <4>1, PctInt
    <3> HIDE DEF S1, S2
    <3> QED BY <3>1, <3>2
  <2>2. CASE q.sharedBase = "ebitda"
    <3>1. S1 = Pct(AtLeast(0, L1), s) /\ S2 = Pct(AtLeast(0, L2), s)
      BY <2>2 DEF ShareOf
    <3> HIDE DEF S1, S2, s
    <3> QED BY <1>1, <3>1, PctSlope
  <2>3. CASE q.sharedBase = "profit"
    <3> DEFINE y1 == L1 - d
               y2 == L2 - d
    <3>1. S1 = Pct(AtLeast(0, y1), s) /\ S2 = Pct(AtLeast(0, y2), s)
      BY <2>3 DEF ShareOf
    <3>2. y1 \in Int /\ y2 \in Int /\ y1 <= y2 /\ y2 - y1 = L2 - L1
      OBVIOUS
    <3> HIDE DEF S1, S2, s, y1, y2
    <3>3. S1 \in Int /\ S2 \in Int /\ S2 - S1 <= y2 - y1
      BY <1>1, <3>1, <3>2, PctSlope
    <3> QED BY <3>2, <3>3
  <2> QED BY <1>1, <2>1, <2>2, <2>3
<1> DEFINE x1 == L1 - S1 - d
           x2 == L2 - S2 - d
           T1 == Pct(IF q.taxBase = "revenue" THEN R ELSE AtLeast(0, x1), pc)
           T2 == Pct(IF q.taxBase = "revenue" THEN R ELSE AtLeast(0, x2), pc)
<1>3. /\ FlowOf(q, R, L1, d) = (IF q.asCash THEN x1 ELSE L1 - S1) - T1
      /\ FlowOf(q, R, L2, d) = (IF q.asCash THEN x2 ELSE L2 - S2) - T2
  BY DEF FlowOf
<1> HIDE DEF S1, S2
<1>4. x1 \in Int /\ x2 \in Int /\ x1 <= x2 /\ (L2 - S2) - (L1 - S1) = x2 - x1
  BY <1>2
<1>5. T1 \in Int /\ T2 \in Int /\ T2 - T1 <= x2 - x1
  <2> HIDE DEF x1, x2
  <2>1. CASE q.taxBase = "revenue"
    <3>1. T1 = Pct(R, pc) /\ T2 = Pct(R, pc)
      BY <2>1
    <3>2. Pct(R, pc) \in Int
      <4>1. pc \in Int
        BY <1>1
      <4> HIDE DEF pc
      <4> QED BY <4>1, PctInt
    <3> HIDE DEF T1, T2
    <3> QED BY <1>4, <3>1, <3>2
  <2>2. CASE q.taxBase # "revenue"
    <3>1. T1 = Pct(AtLeast(0, x1), pc) /\ T2 = Pct(AtLeast(0, x2), pc)
      BY <2>2
    <3> HIDE DEF T1, T2, pc
    <3> QED BY <1>1, <1>4, <3>1, PctSlope
  <2> QED BY <2>1, <2>2
<1> HIDE DEF T1, T2, x1, x2
<1> QED BY <1>2, <1>3, <1>4, <1>5

\* Dearer costs leave less of each month.
LEMMA CostsFlow ==
  ASSUME NEW q \in Inputs, NEW r \in Inputs, CostsMore(q, r), q.shared <= 100, q.tax <= 100,
         NEW m \in Nat, NEW dep \in Int
  PROVE  Fcf(r, m, dep) <= Fcf(q, m, dep)
<1> DEFINE R == Revenue(q, m)
           K == Kwh(q, m)
           U == Pct(R, q.unpaid)
           G1 == Pct(R, q.gateway)
           G2 == Pct(R, r.gateway)
           F == FixedOpex(q)
           E1 == q.energy * K
           E2 == r.energy * K
<1>1. /\ SamePlan(q, r) /\ SameVolume(q, r) /\ r.tariff = q.tariff
      /\ q.energy <= r.energy /\ q.demand <= r.demand /\ q.gateway <= r.gateway
  BY DEF CostsMore
<1>2. Kwh(r, m) = K /\ Sold(r, m) = Sold(q, m) /\ K \in Nat /\ Sold(q, m) \in Nat
  BY <1>1, VolumeIs
<1>3. /\ q.energy \in Nat /\ r.energy \in Nat /\ q.demand \in Nat /\ r.demand \in Nat
      /\ q.gateway \in Nat /\ r.gateway \in Nat /\ q.unpaid \in Nat /\ r.unpaid = q.unpaid
      /\ q.tariff \in Nat /\ q.fee \in Nat /\ r.fee = q.fee
  BY <1>1 DEF Inputs, SameVolume
<1>4. R = q.tariff * K + q.fee * Sold(q, m) /\ Revenue(r, m) = R
  BY <1>1, <1>2, <1>3 DEF Revenue, Sold
<1>5. R \in Nat
  <2>1. q.tariff * K \in Nat /\ q.fee * Sold(q, m) \in Nat
    BY <1>2, <1>3
  <2> QED BY <1>4, <2>1
<1>6. F \in Int /\ FixedOpex(r) = F
  BY <1>1, AmountsInt, SamePlanIs DEF FixedOpex
<1>7. OpexBase(q, m) = E1 + q.demand + G1 + U + F /\ OpexBase(r, m) = E2 + r.demand + G2 + U + F
  BY <1>2, <1>3, <1>4, <1>6 DEF OpexBase
<1>8. Fcf(r, m, dep) = FlowOf(q, R, R - OpexBase(r, m), dep)
  BY <1>1, <1>4, FlowIs, SamePlanIs
<1>9. Fcf(q, m, dep) = FlowOf(q, R, R - OpexBase(q, m), dep)
  BY FlowIs
<1> HIDE DEF R, K
<1>10. E1 \in Int /\ E2 \in Int /\ E1 <= E2
  BY <1>1, <1>2, <1>3, ProductMonotone
<1>11. G1 \in Int /\ G2 \in Int /\ G1 <= G2
  BY <1>1, <1>3, <1>5, PctGrows
<1>12. U \in Int
  <2>1. R \in Int /\ q.unpaid \in Int
    BY <1>3, <1>5
  <2> QED BY <2>1, PctInt
<1> HIDE DEF U, G1, G2, F, E1, E2
<1> DEFINE L1 == R - OpexBase(r, m)
           L2 == R - OpexBase(q, m)
<1>13. L1 \in Int /\ L2 \in Int /\ L1 <= L2 /\ R \in Int
  BY <1>1, <1>3, <1>5, <1>6, <1>7, <1>10, <1>11, <1>12
<1> HIDE DEF L1, L2
<1>14. FlowOf(q, R, L1, dep) <= FlowOf(q, R, L2, dep)
  BY <1>13, FlowFollows
<1> QED BY <1>8, <1>9, <1>14 DEF L1, L2

\* A dearer tariff leaves more, when the percentages leave a share of it.
LEMMA TariffFlow ==
  ASSUME NEW q \in Inputs, NEW r \in Inputs, ChargesMore(q, r),
         q.gateway + q.unpaid + q.shared + q.tax <= 100,
         ExactFigures(q), ExactFigures(r), NEW m \in 1..q.horizon
  PROVE  Fcf(q, m, Depreciation(q, m)) <= Fcf(r, m, Depreciation(q, m))
<1> DEFINE d == Depreciation(q, m)
           R1 == Revenue(q, m)
           R2 == Revenue(r, m)
           L1 == R1 - OpexBase(q, m)
           L2 == R2 - OpexBase(r, m)
           K == Kwh(q, m)
           S == Sold(q, m)
           E == q.energy * K
           F == q.demand + FixedOpex(q)
           c == 100 - q.gateway - q.unpaid
           k == q.shared + q.tax
<1>1. /\ SamePlan(q, r) /\ SameVolume(q, r) /\ q.tariff <= r.tariff
      /\ r.energy = q.energy /\ r.demand = q.demand /\ r.gateway = q.gateway
  BY DEF ChargesMore
<1>2. /\ q.horizon \in Nat /\ r.horizon = q.horizon /\ m \in Nat /\ m \in 1..r.horizon
      /\ d \in Int
  BY <1>1, NetOfInt, DepreciationInt DEF SamePlan
<1>3. Kwh(r, m) = K /\ Sold(r, m) = S /\ K \in Nat /\ S \in Nat
  BY <1>1, <1>2, VolumeIs
<1>4. /\ q.energy \in Nat /\ q.demand \in Nat /\ q.gateway \in Nat /\ q.unpaid \in Nat
      /\ q.tariff \in Nat /\ r.tariff \in Nat /\ q.fee \in Nat /\ r.fee = q.fee
      /\ r.unpaid = q.unpaid /\ q.shared \in Nat /\ q.tax \in Nat
  BY <1>1 DEF Inputs, SameVolume
<1>5. F \in Int /\ FixedOpex(r) = FixedOpex(q)
  BY <1>1, <1>4, AmountsInt, SamePlanIs DEF FixedOpex
<1>6. /\ R1 = q.tariff * K + q.fee * S /\ R1 \in Int /\ L1 \in Int
      /\ 100 * L1 = c * R1 - 100 * E - 100 * F
      /\ ExactFlow(q, R1, L1, d)
  BY <1>2, MonthExact, MarginIs
<1>7. ExactFlow(r, R2, L2, d)
  <2>1. Depreciation(r, m) = d
    BY <1>1, SamePlanIs
  <2>2. ExactFlow(r, R2, L2, Depreciation(r, m))
    BY <1>2, MonthExact
  <2> QED BY <2>1, <2>2
<1>8. /\ R2 = r.tariff * K + q.fee * S /\ R2 \in Int /\ L2 \in Int
      /\ 100 * L2 = c * R2 - 100 * E - 100 * F
  BY <1>1, <1>2, <1>3, <1>4, <1>5, MonthExact, MarginIs
<1>9. Fcf(q, m, d) = FlowOf(q, R1, L1, d) /\ Fcf(r, m, d) = FlowOf(q, R2, L2, d)
      /\ ExactFlow(q, R2, L2, d)
  BY <1>1, <1>2, <1>7, FlowIs, SamePlanIs
<1>10. E \in Int /\ c \in Int /\ k \in Nat /\ k <= c
  BY <1>3, <1>4
<1> HIDE DEF d, R1, R2, L1, L2, K, S, E, F, c, k
<1>11. R1 <= R2
  <2>1. q.tariff * K <= r.tariff * K /\ q.tariff * K \in Int /\ r.tariff * K \in Int
    BY <1>1, <1>3, <1>4, ProductMonotone
  <2>2. q.fee * S \in Int
    BY <1>3, <1>4
  <2> QED BY <1>6, <1>8, <2>1, <2>2
<1>12. 100 * (L2 - L1) >= k * (R2 - R1)
  <2> DEFINE g == R2 - R1
  <2>1. g \in Int /\ 0 <= g
    BY <1>6, <1>8, <1>11
  <2>2. c * R2 - c * R1 = c * g /\ c * R1 \in Int /\ c * R2 \in Int
    BY <1>6, <1>8, <1>10
  <2> HIDE DEF g
  <2>3. k * g <= c * g /\ k * g \in Int /\ c * g \in Int
    BY <1>10, <2>1, ProductMonotone
  <2>4. 100 * (L2 - L1) = c * g
    BY <1>5, <1>6, <1>8, <1>10, <2>2
  <2> QED BY <2>3, <2>4 DEF g
<1>13. FlowOf(q, R1, L1, d) <= FlowOf(q, R2, L2, d)
  <2>1. q.shared + q.tax <= 100 /\ d <= d
    BY <1>2, <1>4
  <2> QED BY <1>2, <1>6, <1>8, <1>9, <1>11, <1>12, <2>1, FlowGrows DEF k
<1> QED BY <1>9, <1>13 DEF d

\* A fifth more is not less, a fifth less is not more, and all of it is itself.
LEMMA PctAround ==
  ASSUME NEW x \in Nat
  PROVE  /\ Pct(x, 80) \in Nat /\ Pct(x, 100) = x /\ Pct(x, 120) \in Nat
         /\ Pct(x, 80) <= x /\ x <= Pct(x, 120)
  BY DEF Pct

\* The inputs CostsDelay is about.
Levers == {"energy", "gateway", "demand", "tariff"}

\* The projects of the tornado are projects, with the plan and the volume of
\* the one they vary.
LEMMA ModifiedIs ==
  ASSUME NEW q \in Inputs, NEW key \in Levers, NEW mult \in {80, 120}
  PROVE  /\ Modified(q, key, mult) \in Inputs
         /\ SamePlan(q, Modified(q, key, mult)) /\ SameVolume(q, Modified(q, key, mult))
         /\ key # "energy" => Modified(q, key, mult).energy = q.energy
         /\ key # "gateway" => Modified(q, key, mult).gateway = q.gateway
         /\ key # "demand" => Modified(q, key, mult).demand = q.demand
         /\ key # "tariff" => Modified(q, key, mult).tariff = q.tariff
         /\ key = "energy" => Modified(q, key, mult).energy = Pct(q.energy, mult)
         /\ key = "gateway" => Modified(q, key, mult).gateway = Pct(q.gateway, mult)
         /\ key = "demand" => Modified(q, key, mult).demand = Pct(q.demand, mult)
         /\ key = "tariff" => Modified(q, key, mult).tariff = Pct(q.tariff, mult)
<1>1. /\ Pct(q.energy, mult) \in Nat /\ Pct(q.gateway, mult) \in Nat
      /\ Pct(q.demand, mult) \in Nat /\ Pct(q.tariff, mult) \in Nat
  <2>1. q.energy \in Nat /\ q.gateway \in Nat /\ q.demand \in Nat /\ q.tariff \in Nat
    BY DEF Inputs
  <2> QED BY <2>1, PctAround
<1>2. CASE key = "energy"
  <2> DEFINE x == Pct(q.energy, mult)
  <2>1. Modified(q, key, mult) = [q EXCEPT !.energy = x]
    BY <1>2 DEF Modified
  <2> HIDE DEF x
  <2> QED BY <1>1, <1>2, <2>1 DEF Inputs, SamePlan, SameVolume, x
<1>3. CASE key = "gateway"
  <2>1. Modified(q, key, mult) = [q EXCEPT !.gateway = Pct(q.gateway, mult)]
    BY <1>3 DEF Modified
  <2> QED BY <1>1, <1>3, <2>1 DEF Inputs, SamePlan, SameVolume
<1>4. CASE key = "demand"
  <2>1. Modified(q, key, mult) = [q EXCEPT !.demand = Pct(q.demand, mult)]
    BY <1>4 DEF Modified
  <2> QED BY <1>1, <1>4, <2>1 DEF Inputs, SamePlan, SameVolume
<1>5. CASE key = "tariff"
  <2>1. Modified(q, key, mult) = [q EXCEPT !.tariff = Pct(q.tariff, mult)]
    BY <1>5 DEF Modified
  <2> QED BY <1>1, <1>5, <2>1 DEF Inputs, SamePlan, SameVolume
<1> QED BY <1>2, <1>3, <1>4, <1>5 DEF Levers

\* The tornado's payback of an input is that of the loop over its project.
LEMMA SensitivityIs ==
  ASSUME NEW q \in Inputs, NEW key \in Levers, NEW mult \in {80, 120}
  PROVE  SensitivityPayback(q, key, mult) = PaybackOf(q, Modified(q, key, mult))
<1> DEFINE c == Capex(q)
           r == Modified(q, key, mult)
<1>1. key # "capex"
  BY DEF Levers
<1>2. SensitivityPayback(q, key, mult) =
        LET B == Balance(r, c, MonthlyDepreciation(q, c))
        IN Earliest({m \in 1..q.horizon : B[m] >= 0}, q)
  BY <1>1 DEF SensitivityPayback
<1>3. SamePlan(q, r)
  BY ModifiedIs
<1> HIDE DEF r
<1>4. Balance(r, c, MonthlyDepreciation(q, c)) = BalanceOf(q, r)
  BY <1>3, BalanceIs
<1> QED BY <1>2, <1>4 DEF PaybackOf, r

\* A project that is dearer to run pays back no earlier, one that is cheaper
\* no later.
LEMMA CostDelays ==
  ASSUME NEW q \in Inputs, q.shared <= 100, q.tax <= 100,
         NEW key \in {"energy", "gateway", "demand"}
  PROVE  /\ SensitivityPayback(q, key, 80) \in Int /\ PaybackOf(q, q) \in Int
         /\ SensitivityPayback(q, key, 120) \in Int
         /\ SensitivityPayback(q, key, 80) <= PaybackOf(q, q)
         /\ PaybackOf(q, q) <= SensitivityPayback(q, key, 120)
<1> DEFINE low == Modified(q, key, 80)
           high == Modified(q, key, 120)
<1>1. key \in Levers /\ 80 \in {80, 120} /\ 120 \in {80, 120}
  BY DEF Levers
<1>2. /\ low \in Inputs /\ CostsMore(low, q) /\ SamePlan(q, low)
      /\ high \in Inputs /\ CostsMore(q, high) /\ SamePlan(q, high)
  <2>1. /\ q.energy \in Nat /\ q.gateway \in Nat /\ q.demand \in Nat
    BY DEF Inputs
  <2>2. /\ low \in Inputs /\ SamePlan(q, low) /\ SameVolume(q, low) /\ low.tariff = q.tariff
        /\ low.energy <= q.energy /\ low.gateway <= q.gateway /\ low.demand <= q.demand
    BY <1>1, <2>1, ModifiedIs, PctAround, SMTT(30)
  <2>3. /\ high \in Inputs /\ SamePlan(q, high) /\ SameVolume(q, high) /\ high.tariff = q.tariff
        /\ q.energy <= high.energy /\ q.gateway <= high.gateway /\ q.demand <= high.demand
    BY <1>1, <2>1, ModifiedIs, PctAround, SMTT(30)
  <2> HIDE DEF low, high
  <2>4. SamePlan(low, q) /\ SameVolume(low, q)
    BY <2>2 DEF SamePlan, SameVolume
  <2> QED BY <2>2, <2>3, <2>4 DEF CostsMore
<1>3. /\ SensitivityPayback(q, key, 80) = PaybackOf(q, low)
      /\ SensitivityPayback(q, key, 120) = PaybackOf(q, high)
  BY <1>1, SensitivityIs
<1> HIDE DEF low, high
<1>4. \A m \in 1..q.horizon : m \in Nat /\ Depreciation(q, m) \in Int
  <2>1. q.horizon \in Nat
    BY NetOfInt
  <2> QED BY <2>1, DepreciationInt
<1>5. \A m \in 1..q.horizon : Fcf(q, m, Depreciation(q, m)) <= Fcf(low, m, Depreciation(q, m))
  <2>1. low.shared <= 100 /\ low.tax <= 100
    BY <1>2 DEF SamePlan
  <2> QED BY <1>2, <1>4, <2>1, CostsFlow
<1>6. \A m \in 1..q.horizon : Fcf(high, m, Depreciation(q, m)) <= Fcf(q, m, Depreciation(q, m))
  BY <1>2, <1>4, CostsFlow
<1>7. /\ PaybackOf(q, low) \in Int /\ PaybackOf(q, q) \in Int
      /\ PaybackOf(q, low) <= PaybackOf(q, q)
  BY <1>2, <1>5, PaybackFollows
<1>8. /\ PaybackOf(q, high) \in Int /\ PaybackOf(q, q) <= PaybackOf(q, high)
  BY <1>2, <1>6, PaybackFollows
<1> QED BY <1>3, <1>7, <1>8

\* A project with a dearer tariff pays back no later, one with a cheaper no
\* earlier.
LEMMA TariffHastens ==
  ASSUME NEW q \in Projects, q.gateway + q.unpaid + q.shared + q.tax <= 100
  PROVE  /\ SensitivityPayback(q, "tariff", 80) \in Int /\ PaybackOf(q, q) \in Int
         /\ SensitivityPayback(q, "tariff", 120) \in Int
         /\ SensitivityPayback(q, "tariff", 120) <= PaybackOf(q, q)
         /\ PaybackOf(q, q) <= SensitivityPayback(q, "tariff", 80)
<1> DEFINE low == Modified(q, "tariff", 80)
           high == Modified(q, "tariff", 120)
           key == "tariff"
<1>1. key \in Levers /\ 80 \in {80, 120} /\ 120 \in {80, 120} /\ q \in Inputs
  BY ProjectsAssumption DEF Levers
<1>2. /\ low \in Inputs /\ ChargesMore(low, q) /\ SamePlan(q, low)
      /\ high \in Inputs /\ ChargesMore(q, high) /\ SamePlan(q, high)
  <2>1. /\ q.tariff \in Nat
    BY <1>1 DEF Inputs
  <2>2. /\ low \in Inputs /\ SamePlan(q, low) /\ SameVolume(q, low) /\ low.tariff <= q.tariff
        /\ low.energy = q.energy /\ low.gateway = q.gateway /\ low.demand = q.demand
    BY <1>1, <2>1, ModifiedIs, PctAround
  <2>3. /\ high \in Inputs /\ SamePlan(q, high) /\ SameVolume(q, high) /\ q.tariff <= high.tariff
        /\ q.energy = high.energy /\ q.gateway = high.gateway /\ q.demand = high.demand
    BY <1>1, <2>1, ModifiedIs, PctAround
  <2> HIDE DEF low, high
  <2>4. SamePlan(low, q) /\ SameVolume(low, q)
    BY <2>2 DEF SamePlan, SameVolume
  <2> QED BY <2>2, <2>3, <2>4 DEF ChargesMore
<1>3. /\ SensitivityPayback(q, "tariff", 80) = PaybackOf(q, low)
      /\ SensitivityPayback(q, "tariff", 120) = PaybackOf(q, high)
  BY <1>1, SensitivityIs
<1>4. ExactFigures(q) /\ ExactFigures(low) /\ ExactFigures(high)
  BY ExactAssumption, VariantsAssumption
<1> HIDE DEF low, high
<1>5. \A m \in 1..q.horizon : Fcf(low, m, Depreciation(q, m)) <= Fcf(q, m, Depreciation(q, m))
  <2> TAKE m \in 1..q.horizon
  <2>1. low.gateway + low.unpaid + low.shared + low.tax <= 100 /\ m \in 1..low.horizon
    BY <1>2 DEF SamePlan, SameVolume, ChargesMore
  <2>2. Depreciation(low, m) = Depreciation(q, m)
    BY <1>2, SamePlanIs
  <2>3. Fcf(low, m, Depreciation(low, m)) <= Fcf(q, m, Depreciation(low, m))
    BY <1>1, <1>2, <1>4, <2>1, TariffFlow
  <2> QED BY <2>2, <2>3
<1>6. \A m \in 1..q.horizon : Fcf(q, m, Depreciation(q, m)) <= Fcf(high, m, Depreciation(q, m))
  BY <1>1, <1>2, <1>4, TariffFlow
<1>7. /\ PaybackOf(q, low) \in Int /\ PaybackOf(q, q) \in Int
      /\ PaybackOf(q, q) <= PaybackOf(q, low)
  BY <1>1, <1>2, <1>5, PaybackFollows
<1>8. /\ PaybackOf(q, high) \in Int /\ PaybackOf(q, high) <= PaybackOf(q, q)
  BY <1>1, <1>2, <1>6, PaybackFollows
<1> QED BY <1>3, <1>7, <1>8

\* CostsDelay: a dearer cost never moves the payback of the tornado before that
\* of the main loop, nor a dearer tariff after it, so that the bars are the
\* columns the legend names, for every project and every horizon.
THEOREM CostsNeverHasten == SimSpec => []CostsDelay
<1>1. SimTypeOK /\ LoopInv => CostsDelay
  <2> SUFFICES ASSUME SimTypeOK, LoopInv, t = p.horizon,
                      p.gateway + p.unpaid + p.shared + p.tax <= 80
               PROVE  /\ \A key \in {"energy", "gateway", "demand"} :
                           Bars(key) = [adverso |-> HighDelta(key), favoravel |-> LowDelta(key)]
                      /\ Bars("tariff") = [adverso   |-> LowDelta("tariff"),
                                           favoravel |-> HighDelta("tariff")]
    BY DEF CostsDelay
  <2>1. p \in Projects /\ p \in Inputs /\ BasePayback = PaybackOf(p, p)
    BY ProjectsAssumption, BasePaybackIs DEF SimTypeOK
  <2>2. /\ p.shared <= 100 /\ p.tax <= 100
        /\ p.gateway + p.unpaid + p.shared + p.tax <= 100
    <3>1. p.gateway \in Nat /\ p.unpaid \in Nat /\ p.shared \in Nat /\ p.tax \in Nat
      BY <2>1 DEF Inputs
    <3> QED BY <3>1
  <2>3. ASSUME NEW key \in {"energy", "gateway", "demand"}
        PROVE  Bars(key) = [adverso |-> HighDelta(key), favoravel |-> LowDelta(key)]
    <3>1. /\ HighDelta(key) \in Int /\ LowDelta(key) \in Int
          /\ HighDelta(key) >= 0 /\ LowDelta(key) <= 0
      BY <2>1, <2>2, CostDelays DEF HighDelta, LowDelta
    <3> QED BY <3>1 DEF Bars, AtLeast, AtMost
  <2>4. Bars("tariff") = [adverso |-> LowDelta("tariff"), favoravel |-> HighDelta("tariff")]
    <3>1. /\ HighDelta("tariff") \in Int /\ LowDelta("tariff") \in Int
          /\ HighDelta("tariff") <= 0 /\ LowDelta("tariff") >= 0
      BY <2>1, <2>2, TariffHastens DEF HighDelta, LowDelta
    <3> QED BY <3>1 DEF Bars, AtLeast, AtMost
  <2> QED BY <2>3, <2>4
<1> QED BY <1>1, LoopInvariant, PTL

-----------------------------------------------------------------------------
(* The copies of the page *)

\* The multiplier 1 leaves each input as it is.
LEMMA Unmodified ==
  ASSUME NEW q \in Inputs, NEW key \in Keys
  PROVE  Modified(q, key, 100) = q
<1>1. /\ q.energy \in Nat /\ q.gateway \in Nat /\ q.demand \in Nat /\ q.tariff \in Nat
      /\ q.occ0 \in 0..100 /\ q.occ12 \in 0..100
  BY DEF Inputs
<1>2. /\ Pct(q.energy, 100) = q.energy /\ Pct(q.gateway, 100) = q.gateway
      /\ Pct(q.demand, 100) = q.demand /\ Pct(q.tariff, 100) = q.tariff
      /\ AtMost(100, Pct(q.occ0, 100)) = q.occ0 /\ AtMost(100, Pct(q.occ12, 100)) = q.occ12
  <2>1. \A x \in Nat : Pct(x, 100) = x
    BY PctAround
  <2> QED BY <1>1, <2>1 DEF AtMost
<1>3. /\ [q EXCEPT !.energy = q.energy] = q /\ [q EXCEPT !.gateway = q.gateway] = q
      /\ [q EXCEPT !.demand = q.demand] = q /\ [q EXCEPT !.tariff = q.tariff] = q
      /\ [q EXCEPT !.occ0 = q.occ0, !.occ12 = q.occ12] = q
  BY ZenonT(30) DEF Inputs
<1>4. CASE key = "energy"
  <2>1. Modified(q, key, 100) = [q EXCEPT !.energy = Pct(q.energy, 100)]
    BY <1>4 DEF Modified
  <2> QED BY <1>2, <1>3, <2>1
<1>5. CASE key = "occupancy"
  <2>1. Modified(q, key, 100) = [q EXCEPT !.occ0 = AtMost(100, Pct(q.occ0, 100)),
                                          !.occ12 = AtMost(100, Pct(q.occ12, 100))]
    BY <1>5 DEF Modified
  <2> QED BY <1>2, <1>3, <2>1
<1>6. CASE key = "tariff"
  <2>1. Modified(q, key, 100) = [q EXCEPT !.tariff = Pct(q.tariff, 100)]
    BY <1>6 DEF Modified
  <2> QED BY <1>2, <1>3, <2>1
<1>7. CASE key = "gateway"
  <2>1. Modified(q, key, 100) = [q EXCEPT !.gateway = Pct(q.gateway, 100)]
    BY <1>7 DEF Modified
  <2> QED BY <1>2, <1>3, <2>1
<1>8. CASE key = "demand"
  <2>1. Modified(q, key, 100) = [q EXCEPT !.demand = Pct(q.demand, 100)]
    BY <1>8 DEF Modified
  <2> QED BY <1>2, <1>3, <2>1
<1>9. CASE key = "capex"
  BY <1>9 DEF Modified
<1> QED BY <1>4, <1>5, <1>6, <1>7, <1>8, <1>9 DEF Keys

\* The loop that sensitivityPayback and runScenario repeat, over the project
\* itself, is the balance of the project.
LEMMA OwnLoop ==
  ASSUME NEW q \in Inputs
  PROVE  Balance(q, Capex(q), MonthlyDepreciation(q, Capex(q))) = BalanceOf(q, q)
<1>1. SamePlan(q, q)
  BY DEF SamePlan
<1> QED BY <1>1, BalanceIs

\* The tornado without a change is the project.
LEMMA TornadoCentre ==
  ASSUME NEW q \in Inputs, NEW key \in Keys
  PROVE  SensitivityPayback(q, key, 100) = PaybackOf(q, q)
<1> DEFINE c == Capex(q)
           c1 == IF key = "capex" THEN Pct(c, 100) ELSE c
<1>1. c1 = c
  BY PlanInt, PctAround
<1>2. SensitivityPayback(q, key, 100) =
        LET B == Balance(Modified(q, key, 100), c1, MonthlyDepreciation(q, c1))
        IN Earliest({m \in 1..q.horizon : B[m] >= 0}, q)
  BY DEF SensitivityPayback
<1>3. Balance(q, c, MonthlyDepreciation(q, c)) = BalanceOf(q, q)
  BY OwnLoop
<1> HIDE DEF c, c1
<1> QED BY <1>1, <1>2, <1>3, Unmodified DEF PaybackOf

\* The last month of the first year.
LEMMA FirstYearEnds ==
  ASSUME NEW q \in Inputs
  PROVE  Max(FirstYear(q)) = AtMost(12, q.horizon) /\ AtMost(12, q.horizon) \in 1..q.horizon
<1> DEFINE n == q.horizon
           x == AtMost(12, n)
           S == FirstYear(q)
<1>1. n \in Nat \ {0}
  BY NetOfInt, AmountsInt DEF Months
<1>2. x \in 1..n /\ x \in S /\ \A m \in S : m \in Int /\ x >= m
  BY <1>1 DEF AtMost, FirstYear
<1> HIDE DEF S, x
<1>3. \E z \in S : \A y \in S : z >= y
  BY <1>2
<1>4. Max(S) \in S /\ \A y \in S : Max(S) >= y
  BY <1>3 DEF Max
<1>5. Max(S) = x
  <2>1. x >= Max(S) /\ Max(S) >= x /\ x \in Int /\ Max(S) \in Int
    BY <1>2, <1>4
  <2> QED BY <2>1
<1> QED BY <1>2, <1>5 DEF S, x

\* The card of the occupancy a project keeps repeats the project.
LEMMA CardRepeats ==
  ASSUME SimTypeOK, LoopInv, t = p.horizon, p.occ0 = p.occ12, p.growth = 0
  PROVE  CardShown(p, p.occ0) =
           [payback |-> KpiStrip(p).payback, receita |-> y1Rev, lucro |-> y1Fcf]
<1> DEFINE n == p.horizon
           c == Capex(p)
           d == MonthlyDepreciation(p, c)
           year == {m \in 1..n : m <= 12}
           rev == [m \in 1..n |-> Revenue(p, m)]
           B == BalanceOf(p, p)
<1>1. p \in Inputs /\ t = n /\ n \in Nat
  BY ProjectsAssumption, NetOfInt DEF SimTypeOK
<1>2. FixedOccupancy(p, p.occ0) = p
  BY <1>1, ZenonT(30) DEF FixedOccupancy, Inputs
<1>3. Balance(p, c, d) = B
  BY <1>1, OwnLoop
<1>4. Scenario(p, p.occ0) =
        [payback |-> Earliest({m \in 1..n : B[m] >= 0}, p),
         rev     |-> SumOver(year, rev, n),
         profit  |-> B[Max(year)] - B[0]]
  BY <1>2, <1>3 DEF Scenario
<1>5. Earliest({m \in 1..n : B[m] >= 0}, p) = BasePayback
  BY BasePaybackIs DEF PaybackOf
<1>6. SumOver(year, rev, n) = y1Rev
  <2>1. [m \in 1..n |-> IF m \in year THEN rev[m] ELSE 0] = YearFlow(p)
    BY DEF YearFlow, FirstYear
  <2>2. SumOver(year, rev, n) = YearRevenue(p)[n]
    BY <2>1 DEF SumOver, YearRevenue
  <2> QED BY <1>1, <2>2 DEF LoopInv
<1>7. B[Max(year)] - B[0] = y1Fcf
  <2>1. Max(year) = AtMost(12, n)
    BY <1>1, FirstYearEnds DEF FirstYear
  <2> QED BY <1>1, <2>1 DEF LoopInv
<1>8. FmtPayback(p, BasePayback) = KpiStrip(p).payback
  <2>1. KpiStrip(p).payback = FmtPayback(p, payback)
    BY DEF KpiStrip
  <2>2. CASE payback = NoMonth
    BY <1>1, <2>1, <2>2 DEF FmtPayback, BasePayback
  <2>3. CASE payback # NoMonth
    BY <2>1, <2>3 DEF BasePayback
  <2> QED BY <2>2, <2>3
<1> HIDE DEF n, year, rev, B
<1>9. CardShown(p, p.occ0) = [payback |-> FmtPayback(p, BasePayback), receita |-> y1Rev,
                              lucro |-> y1Fcf]
  BY <1>4, <1>5, <1>6, <1>7 DEF CardShown
<1> QED BY <1>8, <1>9

\* The strip, the notices and the print pass the same verdict.
LEMMA VerdictsAgree ==
  ASSUME SimTypeOK, LoopInv, t = p.horizon
  PROVE  LET k == KpiStrip(p) IN
         /\ k.badge = "Excelente" <=> "fast_payback" \in Insights(p)
         /\ k.badge = "Moderado" <=> "ok_payback" \in Insights(p)
         /\ k.colour = "red" <=> Insights(p) \cap {"slow_payback", "no_payback"} # {}
         /\ cumD # 0 => (k.npv = "Viavel" <=> "npv_pos" \in Insights(p))
         /\ Printed(p).payback = NoMonth <=> "no_payback" \in Insights(p)
<1> DEFINE notice == IF payback = NoMonth THEN "no_payback"
                     ELSE IF payback <= 24 THEN "fast_payback"
                     ELSE IF payback <= 48 THEN "ok_payback" ELSE "slow_payback"
           badge == IF payback = NoMonth THEN "Elevado"
                    ELSE IF payback <= 24 THEN "Excelente"
                    ELSE IF payback <= 48 THEN "Moderado" ELSE "Elevado"
<1>1. p \in Inputs /\ p.horizon \in Nat /\ cumD \in Int
  BY ProjectsAssumption, NetOfInt DEF SimTypeOK
<1>2. payback # NoMonth => payback \in Int /\ ~(payback > p.horizon)
  BY <1>1 DEF LoopInv
<1>3. FmtPayback(p, payback) = payback
  BY <1>2 DEF FmtPayback
<1>4. /\ KpiStrip(p).badge = badge
      /\ KpiStrip(p).colour = PaybackColour(p, payback)
      /\ KpiStrip(p).npv = (IF cumD >= 0 THEN "Viavel" ELSE "Negativo")
      /\ Printed(p).payback = payback
  BY <1>3, Zenon DEF KpiStrip, Printed
<1>5. /\ PaybackColour(p, payback) = "red" <=> payback = NoMonth \/ payback > 48
  <2>1. payback = NoMonth => PaybackColour(p, payback) = "red"
    BY <1>3 DEF PaybackColour
  <2>2. payback # NoMonth =>
          PaybackColour(p, payback) = (IF payback > 48 THEN "red"
                                       ELSE IF payback <= 24 THEN "emerald" ELSE "amber")
    BY <1>3 DEF PaybackColour
  <2> QED BY <2>1, <2>2
<1>6. /\ \A i \in {"fast_payback", "ok_payback", "slow_payback", "no_payback"} :
           i \in Insights(p) <=> i = notice
      /\ "npv_pos" \in Insights(p) <=> cumD > 0
  BY DEF Insights
<1>7. Insights(p) \cap {"slow_payback", "no_payback"} # {}
        <=> notice \in {"slow_payback", "no_payback"}
  BY <1>6
<1>8. CASE payback = NoMonth
  BY <1>1, <1>4, <1>5, <1>6, <1>7, <1>8
<1>9. CASE payback # NoMonth
  BY <1>1, <1>2, <1>4, <1>5, <1>6, <1>7, <1>9
<1> QED BY <1>8, <1>9

\* A percentage of a figure in proportion is in proportion.
LEMMA ProportionKept ==
  ASSUME NEW n \in Nat \ {0}, NEW x \in Nat, NEW y \in Nat, n * y = (n + 1) * x,
         NEW o \in Nat, Exact(x * o, 100), Exact(y * o, 100)
  PROVE  /\ Pct(x, o) \in Int /\ Pct(y, o) \in Int
         /\ n * Pct(y, o) = (n + 1) * Pct(x, o)
<1>1. /\ Pct(x, o) \in Int /\ 100 * Pct(x, o) = x * o
      /\ Pct(y, o) \in Int /\ 100 * Pct(y, o) = y * o
  BY ExactPct
<1> DEFINE a == Pct(x, o)
           b == Pct(y, o)
<1> HIDE DEF a, b
<1>2. a \in Int /\ b \in Int /\ 100 * a = x * o /\ 100 * b = y * o
  BY <1>1 DEF a, b
<1>3. 100 * (n * b) = n * (y * o) /\ 100 * ((n + 1) * a) = (n + 1) * (x * o)
  <2>1. n * (100 * b) = 100 * (n * b) /\ (n + 1) * (100 * a) = 100 * ((n + 1) * a)
    BY <1>2
  <2> QED BY <1>2, <2>1
<1>4. n * (y * o) = (n * y) * o /\ (n + 1) * (x * o) = ((n + 1) * x) * o
  OBVIOUS
<1>5. 100 * (n * b) = 100 * ((n + 1) * a) /\ n * b \in Int /\ (n + 1) * a \in Int
  BY <1>2, <1>3, <1>4
<1>6. n * b = (n + 1) * a
  BY <1>5
<1> QED BY <1>1, <1>6 DEF a, b

\* An expansion costs its CAPEX and earns in proportion.
LEMMA ExpansionInProportion ==
  ASSUME NEW q \in Projects
  PROVE  LET more == Expanded(q, 1, 1200) IN
         /\ q.capexMode = "detailed" => Capex(more) = Capex(q) + 1200
         /\ \A m \in {1, q.horizon} : Revenue(more, m) * q.n = Revenue(q, m) * more.n
<1> DEFINE more == Expanded(q, 1, 1200)
           n == q.n
<1>1. /\ q \in Inputs /\ n \in Nat \ {0} /\ q.kwh \in Nat /\ q.sessions \in Nat
      /\ q.tariff \in Nat /\ q.fee \in Nat /\ q.rest \in Nat /\ q.charger \in Nat
      /\ 1 \in Nat /\ q.horizon \in Nat
  BY ProjectsAssumption, NetOfInt DEF Inputs
<1>2. /\ more.n = n + 1 /\ more.kwh = (q.kwh * (n + 1)) \div n
      /\ more.sessions = (q.sessions * (n + 1)) \div n
      /\ more.rest = q.rest + 1200
      /\ more.charger = q.charger /\ more.capexMode = q.capexMode
      /\ more.tariff = q.tariff /\ more.fee = q.fee
      /\ more.occ0 = q.occ0 /\ more.occ12 = q.occ12 /\ more.growth = q.growth
  BY <1>1 DEF Expanded, Inputs
<1>3. /\ Exact(q.kwh * (n + 1), n) /\ Exact(q.sessions * (n + 1), n)
      /\ \A m \in {1, q.horizon} :
           /\ Exact(q.kwh * OccupancyAt(q, m), 100)
           /\ Exact(q.sessions * 30 * OccupancyAt(q, m), 100)
           /\ Exact(more.kwh * OccupancyAt(q, m), 100)
           /\ Exact(more.sessions * 30 * OccupancyAt(q, m), 100)
  BY VariantsAssumption
<1> HIDE DEF more, n
<1>4. q.capexMode = "detailed" => Capex(more) = Capex(q) + 1200
  BY <1>1, <1>2 DEF Capex
<1>5. ASSUME NEW x \in Nat, NEW y, y = (x * (n + 1)) \div n, Exact(x * (n + 1), n)
      PROVE  y \in Nat /\ n * y = (n + 1) * x
  <2> DEFINE a == x * (n + 1)
  <2>1. a \in Nat /\ a \in Int /\ a = (n + 1) * x
    BY <1>1
  <2>2. y \in Int /\ n * y = a
    <3> HIDE DEF a
    <3>1. y = a \div n /\ Exact(a, n)
      BY <1>5 DEF a
    <3> QED BY <1>1, <2>1, <3>1, ExactQuotient
  <2> HIDE DEF a
  <2>3. y >= 0
    BY <1>1, <2>1, <2>2
  <2> QED BY <2>1, <2>2, <2>3
<1>6. /\ more.kwh \in Nat /\ n * more.kwh = (n + 1) * q.kwh
      /\ more.sessions \in Nat /\ n * more.sessions = (n + 1) * q.sessions
  <2>1. more.kwh \in Nat /\ n * more.kwh = (n + 1) * q.kwh
    <3> DEFINE x == q.kwh
               y == more.kwh
    <3>1. x \in Nat /\ y = (x * (n + 1)) \div n /\ Exact(x * (n + 1), n)
      BY <1>1, <1>2, <1>3
    <3> HIDE DEF x, y
    <3>2. y \in Nat /\ n * y = (n + 1) * x
      BY <1>5, <3>1
    <3> QED BY <3>2 DEF x, y
  <2>2. more.sessions \in Nat /\ n * more.sessions = (n + 1) * q.sessions
    <3> DEFINE x == q.sessions
               y == more.sessions
    <3>1. x \in Nat /\ y = (x * (n + 1)) \div n /\ Exact(x * (n + 1), n)
      BY <1>1, <1>2, <1>3
    <3> HIDE DEF x, y
    <3>2. y \in Nat /\ n * y = (n + 1) * x
      BY <1>5, <3>1
    <3> QED BY <3>2 DEF x, y
  <2> QED BY <2>1, <2>2
<1>7. ASSUME NEW m \in {1, q.horizon}
      PROVE  Revenue(more, m) * n = Revenue(q, m) * (n + 1)
  <2> DEFINE o == OccupancyAt(q, m)
             k1 == Kwh(q, m)
             k2 == Kwh(more, m)
             s1 == Sold(q, m)
             s2 == Sold(more, m)
             a == q.tariff
             b == q.fee
  <2>1. o \in Nat /\ AtMost(100, o) = o
    <3>1. m \in Nat
      BY <1>1
    <3>2. o \in 0..100 /\ AtMost(100, o) = o
      BY <1>1, <3>1, OccupancyIn
    <3> QED BY <3>2
  <2>2. OccupancyAt(more, m) = o
    BY <1>2 DEF OccupancyAt
  <2>3. /\ k1 = Pct(q.kwh, o) /\ k2 = Pct(more.kwh, o)
        /\ s1 = Pct(q.sessions * 30, o) /\ s2 = Pct(more.sessions * 30, o)
    BY <2>1, <2>2 DEF Kwh, Sold
  <2>4. Revenue(q, m) = a * k1 + b * s1 /\ Revenue(more, m) = a * k2 + b * s2
    BY <1>2 DEF Revenue, Sold
  <2> HIDE DEF o, k1, k2, s1, s2, a, b
  <2>5. k1 \in Int /\ k2 \in Int /\ n * k2 = (n + 1) * k1
    <3> DEFINE x == q.kwh
               y == more.kwh
    <3>1. x \in Nat /\ y \in Nat /\ n * y = (n + 1) * x
      BY <1>1, <1>6
    <3>2. Exact(x * o, 100) /\ Exact(y * o, 100)
      BY <1>3, <1>7 DEF o
    <3>3. k1 = Pct(x, o) /\ k2 = Pct(y, o)
      BY <2>3
    <3> HIDE DEF x, y
    <3> QED BY <1>1, <2>1, <3>1, <3>2, <3>3, ProportionKept
  <2>6. s1 \in Int /\ s2 \in Int /\ n * s2 = (n + 1) * s1
    <3> DEFINE x == q.sessions * 30
               y == more.sessions * 30
    <3>1. x \in Nat /\ y \in Nat /\ n * y = (n + 1) * x
      <4> DEFINE a1 == q.sessions
                 b1 == more.sessions
      <4>1. a1 \in Nat /\ b1 \in Nat /\ n * b1 = (n + 1) * a1 /\ x = a1 * 30 /\ y = b1 * 30
        BY <1>1, <1>6
      <4> HIDE DEF a1, b1, x, y
      <4>2. n * (b1 * 30) = (n * b1) * 30 /\ (n + 1) * (a1 * 30) = ((n + 1) * a1) * 30
        BY <1>1, <4>1
      <4> QED BY <4>1, <4>2
    <3>2. Exact(x * o, 100) /\ Exact(y * o, 100)
      BY <1>3, <1>7 DEF o
    <3>3. s1 = Pct(x, o) /\ s2 = Pct(y, o)
      BY <2>3
    <3> HIDE DEF x, y
    <3> QED BY <1>1, <2>1, <3>1, <3>2, <3>3, ProportionKept
  <2>7. a \in Int /\ b \in Int
    BY <1>1 DEF a, b
  <2>8. /\ (a * k2 + b * s2) * n = a * (n * k2) + b * (n * s2)
        /\ (a * k1 + b * s1) * (n + 1) = a * ((n + 1) * k1) + b * ((n + 1) * s1)
    BY <1>1, <2>5, <2>6, <2>7
  <2> QED BY <2>4, <2>5, <2>6, <2>8
<1> QED BY <1>2, <1>4, <1>7 DEF more, n

\* CopiesAgree: at unchanged inputs sensitivityPayback and runScenario, each
\* with a loop of its own, repeat computeProject; the strip, the notices and
\* the print pass one verdict; and the expansion earns in proportion.
THEOREM CopiesNeverDisagree == SimSpec => []CopiesAgree
<1>1. SimTypeOK /\ LoopInv => CopiesAgree
  <2> SUFFICES ASSUME SimTypeOK, LoopInv, t = p.horizon
               PROVE  CopiesAgree
    BY DEF CopiesAgree
  <2>1. p \in Inputs /\ p \in Projects
    BY ProjectsAssumption DEF SimTypeOK
  <2>2. \A key \in Keys : SensitivityPayback(p, key, 100) = BasePayback
    BY <2>1, TornadoCentre, BasePaybackIs
  <2> QED BY <2>1, <2>2, CardRepeats, VerdictsAgree, ExpansionInProportion DEF CopiesAgree
<1> QED BY <1>1, LoopInvariant, PTL
=============================================================================
