----------------------------- MODULE ProjectViews -----------------------------
(***************************************************************************)
(* The other readings of a project beside the main loop of ProjectSim: the *)
(* tornado chart and the occupancy scenarios (investimentoCalc.ts, each    *)
(* with a loop of its own), and of the page the yearly statement (DRE),    *)
(* the expansion simulator and the print of the parameters.                *)
(***************************************************************************)
EXTENDS ProjectSim, FiniteSetsExt, Sequences

\* A loop over the months with a running total: what it holds after each.
Running(start, flow, n) ==
  LET B[m \in 0..n] == IF m = 0 THEN start ELSE B[m - 1] + flow[m]
  IN B

\* slice and reduce: the sum of a figure over some of the first n months.
SumOver(months, figure, n) ==
  Running(0, [m \in 1..n |-> IF m \in months THEN figure[m] ELSE 0], n)[n]

Earliest(months, q) == IF months = {} THEN q.horizon + 1 ELSE Min(months)

----------------------------------------------------------------------------
(* Sensitivity: the tornado *)

Keys == {"energy", "occupancy", "tariff", "capex", "gateway", "demand"}

\* Slip: the two tariffs of the inputs taken for one another.
ModifiedMixesTariffs(q, key, mult) ==
  CASE key = "tariff" -> [q EXCEPT !.energy = Pct(@, mult)]
    [] key = "energy" -> [q EXCEPT !.tariff = Pct(@, mult)]
    [] OTHER          -> q

Modified(q, key, mult) ==
  CASE key = "energy"    -> [q EXCEPT !.energy = Pct(@, mult)]
    [] key = "occupancy" -> [q EXCEPT !.occ0 = AtMost(100, Pct(@, mult)),
                                      !.occ12 = AtMost(100, Pct(@, mult))]
    [] key = "tariff"    -> [q EXCEPT !.tariff = Pct(@, mult)]
    [] key = "gateway"   -> [q EXCEPT !.gateway = Pct(@, mult)]
    [] key = "demand"    -> [q EXCEPT !.demand = Pct(@, mult)]
    [] key = "capex"     -> q

\* Slip: the copy of the loop that misses the end of the depreciation.
BalanceUntilHorizon(q, capex, dep) ==
  Running(-Instalment(q, capex, 0),
          [m \in 1..q.horizon |-> Fcf(q, m, dep) - Instalment(q, capex, m)], q.horizon)

\* The loop that sensitivityPayback and runScenario each repeat.
Balance(q, capex, dep) ==
  Running(-Instalment(q, capex, 0),
          [m \in 1..q.horizon |->
             Fcf(q, m, IF m <= q.life * 12 THEN dep ELSE 0) - Instalment(q, capex, m)],
          q.horizon)

SensitivityPayback(q, key, mult) ==
  LET capex == IF key = "capex" THEN Pct(Capex(q), mult) ELSE Capex(q)
      B == Balance(Modified(q, key, mult), capex, MonthlyDepreciation(q, capex))
  IN Earliest({m \in 1..q.horizon : B[m] >= 0}, q)

BasePayback == IF payback = NoMonth THEN p.horizon + 1 ELSE payback
HighDelta(key) == SensitivityPayback(p, key, 120) - BasePayback
LowDelta(key) == SensitivityPayback(p, key, 80) - BasePayback

\* The bars of the chart: the worse of the two in red, the better in green.
Bars(key) ==
  [adverso   |-> AtLeast(0, AtLeast(HighDelta(key), LowDelta(key))),
   favoravel |-> AtMost(0, AtMost(HighDelta(key), LowDelta(key)))]

----------------------------------------------------------------------------
(* Scenarios of a fixed occupancy *)

FixedOccupancy(q, occ) == [q EXCEPT !.occ0 = occ, !.occ12 = occ, !.growth = 0]

Scenario(q, occ) ==
  LET mod == FixedOccupancy(q, occ)
      dep == MonthlyDepreciation(q, Capex(q))
      B   == Balance(mod, Capex(mod), dep)
      year == {m \in 1..q.horizon : m <= 12}
  IN [payback |-> Earliest({m \in 1..q.horizon : B[m] >= 0}, q),
      rev     |-> SumOver(year, [m \in 1..q.horizon |-> Revenue(mod, m)], q.horizon),
      profit  |-> B[Max(year)] - B[0]]

----------------------------------------------------------------------------
(* The yearly statement (DRESection) *)

\* Slip: the slice of a year ends a month early.
DreMonthsShort(q, y) == {m \in 1..q.horizon : m > (y - 1) * 12 /\ m < y * 12}

DreMonths(q, y) == {m \in 1..q.horizon : m > (y - 1) * 12 /\ m <= y * 12}

DreYears(q) == 1..AtMost(5, q.horizon \div 12)

\* The depreciation line takes the monthly amount twelve times, whichever year.
DreRow(q, y) ==
  LET ebitda == SumOver(DreMonths(q, y),
                        [m \in 1..q.horizon |-> Ebitda(q, m, Depreciation(q, m))], q.horizon)
      rev    == SumOver(DreMonths(q, y), [m \in 1..q.horizon |-> Revenue(q, m)], q.horizon)
      ebit   == ebitda - MonthlyDepreciation(q, Capex(q)) * Cardinality(DreMonths(q, y))
      tax    == Pct(IF q.taxBase = "revenue" THEN rev ELSE AtLeast(0, ebit), q.tax)
  IN [receita |-> rev, ebitda |-> ebitda, ebit |-> ebit, imposto |-> tax,
      resultado |-> ebit - tax]

----------------------------------------------------------------------------
(* The expansion simulator *)

\* extra chargers bring cost more CAPEX; the month of the third field goes
\* nowhere.
Expanded(q, extra, cost) ==
  [q EXCEPT !.n = @ + extra,
            !.kwh = (@ * (q.n + extra)) \div q.n,
            !.sessions = (@ * (q.n + extra)) \div q.n,
            !.rest = @ + cost]

\* The figures of the projects derived from a project are as small: those of
\* the tornado's tariffs, and those of one more charger.
ASSUME VariantsAssumption ==
  \A q \in Projects :
    /\ \A mult \in {80, 120} : ExactFigures(Modified(q, "tariff", mult))
    /\ \A figure \in {q.kwh, q.sessions} : Exact(figure * (q.n + 1), q.n)
    /\ \A m \in {1, q.horizon} : \A r \in {q, Expanded(q, 1, 1200)} :
         \A figure \in {r.kwh, r.sessions * 30} : Exact(figure * OccupancyAt(q, m), 100)

----------------------------------------------------------------------------
(* What the page prints *)

\* fmtPayback: a month number, or NoMonth for "N/A".
FmtPayback(q, months) == IF months = NoMonth \/ months > q.horizon THEN NoMonth ELSE months

PaybackColour(q, months) ==
  IF FmtPayback(q, months) = NoMonth \/ months > 48 THEN "red"
  ELSE IF months <= 24 THEN "emerald" ELSE "amber"

KpiStrip(q) ==
  [payback    |-> FmtPayback(q, payback),     colour |-> PaybackColour(q, payback),
   discounted |-> FmtPayback(q, paybackDisc), npv    |-> IF cumD >= 0 THEN "Viavel" ELSE "Negativo",
   badge      |-> IF payback = NoMonth THEN "Elevado"
                  ELSE IF payback <= 24 THEN "Excelente"
                  ELSE IF payback <= 48 THEN "Moderado" ELSE "Elevado"]

\* PrintParameters: the summary of the PDF, the financing on one line.
Printed(q) ==
  [capex     |-> Capex(q),
   financing |-> IF q.split = "all" /\ q.inst > 1 THEN <<q.inst>>
                 ELSE IF q.split = "separate" THEN <<q.chargerInst, q.otherInst>>
                 ELSE <<>>, \* "À vista"
   payback   |-> FmtPayback(q, payback)]

\* The instalments offered beside the two selects of the separate financing.
OfferedInstalments(q) ==
  [charger |-> Pmt(q.charger, q.interest, AtLeast(1, q.chargerInst)),
   other   |-> Pmt(AtLeast(0, Capex(q) - q.charger), q.interest, AtLeast(1, q.otherInst))]

\* The cards of the occupancies; "Atual" is the one the sessions of the
\* organisation show, left out when a card is less than five points away.
Cards(real) ==
  {10, 20, 40, 60} \cup {o \in {real} : \A c \in {10, 20, 40, 60} : o - c >= 5 \/ c - o >= 5}

CardShown(q, occ) ==
  [payback |-> FmtPayback(q, Scenario(q, occ).payback),
   receita |-> Scenario(q, occ).rev, lucro |-> Scenario(q, occ).profit]

----------------------------------------------------------------------------
(* Properties *)

\* The project is read in many places and computed again in three: unchanged
\* inputs give the tornado the month of the main loop, so that a bar of length
\* zero means "no effect"; the card of the project's own occupancy repeats the
\* project; the strip, the notices and the print pass the same verdict; and an
\* expansion of an itemised project costs its CAPEX and earns in proportion.
CopiesAgree ==
  t = p.horizon =>
    /\ \A key \in Keys : SensitivityPayback(p, key, 100) = BasePayback
    /\ p.occ0 = p.occ12 /\ p.growth = 0 /\ p.occ0 \in Cards(p.occ0) =>
         CardShown(p, p.occ0) =
           [payback |-> KpiStrip(p).payback, receita |-> y1Rev, lucro |-> y1Fcf]
    /\ LET k == KpiStrip(p) IN
         /\ k.badge = "Excelente" <=> "fast_payback" \in Insights(p)
         /\ k.badge = "Moderado" <=> "ok_payback" \in Insights(p)
         /\ k.colour = "red" <=> Insights(p) \cap {"slow_payback", "no_payback"} # {}
         /\ cumD # 0 => (k.npv = "Viavel" <=> "npv_pos" \in Insights(p))
         /\ Printed(p).payback = NoMonth <=> "no_payback" \in Insights(p)
    /\ LET more == Expanded(p, 1, 1200) IN
         /\ p.capexMode = "detailed" => Capex(more) = Capex(p) + 1200
         /\ \A m \in {1, p.horizon} : Revenue(more, m) * p.n = Revenue(p, m) * more.n

\* The financing shown is the financing simulated: the instalments offered for
\* a coherent separate project are those the loop charges, and a project that
\* costs something and whose print says instalments is not paid at once.
OfferIsCharged ==
  /\ p.split = "separate" /\ p.charger <= Capex(p) =>
       OfferedInstalments(p).charger + OfferedInstalments(p).other = Instalment(p, Capex(p), 0)
  /\ Len(Printed(p).financing) = 1 /\ Capex(p) > 0 => Instalment(p, Capex(p), 1) > 0

\* The print that says "À vista" and the select that offers "À vista (1×)" for
\* the CAPEX (investimento/page.tsx:1741) mean that the CAPEX is what is paid.
CashIsCapex == Printed(p).financing = <<>> => paid = Capex(p)

\* A dearer input never shortens the payback and a dearer tariff never
\* lengthens it, as long as percentages leave a share of the revenue: the red
\* bar of a cost is its "+20%" column, as the legend "adverso (+20%)" says, and
\* that of the tariff its "-20%" column.
CostsDelay ==
  t = p.horizon /\ p.gateway + p.unpaid + p.shared + p.tax <= 80 =>
    /\ \A key \in {"energy", "gateway", "demand"} :
         Bars(key) = [adverso |-> HighDelta(key), favoravel |-> LowDelta(key)]
    /\ Bars("tariff") = [adverso |-> LowDelta("tariff"), favoravel |-> HighDelta("tariff")]

\* Within the life of the equipment the yearly statement is the sum of the
\* monthly results the charts show.  (After it the statement goes on
\* depreciating and the months do not.)
DREReconciles ==
  \A y \in DreYears(p) : y <= p.life =>
    LET row == DreRow(p, y)
        months == DreMonths(p, y)
        ebit == [m \in 1..p.horizon |-> Ebit(p, m, Depreciation(p, m))]
        tax  == [m \in 1..p.horizon |-> Tax(p, m, Depreciation(p, m))] IN
    /\ Cardinality(months) = 12
    /\ row.ebit = SumOver(months, ebit, p.horizon)
    /\ p.taxBase = "revenue" \/ (\A m \in months : ebit[m] >= 0) =>
         row.imposto = SumOver(months, tax, p.horizon)
=============================================================================
