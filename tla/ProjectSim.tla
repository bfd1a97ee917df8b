------------------------------ MODULE ProjectSim ------------------------------
(***************************************************************************)
(* The cash-flow simulation of an investment project: computeProject of    *)
(* web/src/lib/investimentoCalc.ts, one step per month of its loop.  The   *)
(* user edits an input and the loop starts over (useMemo [inputs]).        *)
(* Money is an integer; a percentage is an integer out of 100; the figures *)
(* of a project make the divisions of its formulas exact (ExactAssumption) *)
(* as the code divides floats.  The discount factors 1/(1+rate)^t are      *)
(* integers of one common scale, given as a constant.                      *)
(***************************************************************************)
EXTENDS Integers

CONSTANTS
  Projects,   \* the input records the form can hold
  Rates,      \* the discount rates among them
  Discount,   \* Discount[r][t]: the factor of month t at rate r
  MaxMonths,  \* the longest horizon
  NoMonth     \* null: no payback yet

Months == 1..MaxMonths

\* A record keeps the inputs a formula tells apart: rest is the sum of the
\* eight components of CAPEX beside the charger, items that of the fixed OPEX,
\* unpaid is the default percentage.  The number fields of the form clamp at 0,
\* the two occupancies at 100 as well; an imported file is not checked.
Inputs ==
  [n : Nat \ {0}, capexMode : {"total", "detailed"}, override : Nat, charger : Nat, rest : Nat,
   horizon : Months, life : Nat \ {0}, asCash : BOOLEAN,
   split : {"all", "separate"}, inst : Nat, chargerInst : Nat, otherInst : Nat, interest : Nat,
   tariff : Nat, fee : Nat, kwh : Nat, sessions : Nat, occ0 : 0..100, occ12 : 0..100, growth : Nat,
   energy : Nat, demand : Nat, opexMode : {"total", "detailed"}, opexOverride : Nat, items : Nat,
   gateway : Nat, unpaid : Nat, shared : Nat, sharedBase : {"revenue", "ebitda", "profit"},
   tax : Nat, taxBase : {"revenue", "profit"}, rate : Rates]

ASSUME ProjectsAssumption == Projects \subseteq Inputs /\ MaxMonths \in Nat \ {0}
\* A discount rate of the form is not negative (NumField clamps at 0), so the
\* factors do not grow.
ASSUME DiscountAssumption ==
  /\ Discount \in [Rates -> [0..MaxMonths -> Nat \ {0}]]
  /\ \A r \in Rates : \A t \in Months : Discount[r][t] <= Discount[r][t - 1]
ASSUME NoMonthAssumption == NoMonth \notin Int

VARIABLES
  p,            \* inputs
  t,            \* the last month added
  cum,          \* cumulative cash flow
  cumD,         \* the same, discounted; times the scale of Discount
  payback,      \* first month with cum >= 0, or NoMonth
  paybackDisc,  \* first month with cumD >= 0, or NoMonth
  y1Rev, y1Fcf, \* revenue and cash flow of the first twelve months
  paid,         \* what the instalments so far come to (history)
  provided      \* what the depreciation so far comes to (history)

simVars == <<p, t, cum, cumD, payback, paybackDisc, y1Rev, y1Fcf, paid, provided>>

AtLeast(lo, x) == IF x < lo THEN lo ELSE x
AtMost(hi, x) == IF x > hi THEN hi ELSE x
Pct(x, pc) == (x * pc) \div 100

----------------------------------------------------------------------------
(* One month *)

Capex(q) ==
  IF q.capexMode = "total" /\ q.override > 0 THEN q.override ELSE q.charger + q.rest

FixedOpex(q) ==
  IF q.opexMode = "total" /\ q.opexOverride >= 0 THEN q.opexOverride ELSE q.items

\* Slip: growth after the first year forgets the target it grows from.
OccupancyRestarts(q, m) ==
  IF m <= 12 THEN q.occ0 + ((q.occ12 - q.occ0) * m) \div 12
  ELSE AtMost(100, (q.occ12 * q.growth * (m - 12)) \div 400)

OccupancyAt(q, m) ==
  IF m <= 12 THEN q.occ0 + ((q.occ12 - q.occ0) * m) \div 12
  ELSE AtMost(100, q.occ12 + (q.occ12 * q.growth * (m - 12)) \div 400)

Kwh(q, m) == Pct(q.kwh, AtMost(100, OccupancyAt(q, m)))
Revenue(q, m) ==
  q.tariff * Kwh(q, m) + q.fee * Pct(q.sessions * 30, AtMost(100, OccupancyAt(q, m)))

OpexBase(q, m) ==
  q.energy * Kwh(q, m) + q.demand + Pct(Revenue(q, m), q.gateway) + Pct(Revenue(q, m), q.unpaid)
  + FixedOpex(q)

\* The establishment's share, taken before the share itself is an expense.
Shared(q, m, dep) ==
  Pct(CASE q.sharedBase = "revenue" -> Revenue(q, m)
        [] q.sharedBase = "ebitda"  -> AtLeast(0, Revenue(q, m) - OpexBase(q, m))
        [] q.sharedBase = "profit"  -> AtLeast(0, Revenue(q, m) - OpexBase(q, m) - dep),
      q.shared)

Ebitda(q, m, dep) == Revenue(q, m) - OpexBase(q, m) - Shared(q, m, dep)
Ebit(q, m, dep) == Ebitda(q, m, dep) - dep
Tax(q, m, dep) ==
  Pct(IF q.taxBase = "revenue" THEN Revenue(q, m) ELSE AtLeast(0, Ebit(q, m, dep)), q.tax)

\* Depreciation leaves the cash flow (a replacement fund) or only shields tax.
Fcf(q, m, dep) ==
  (IF q.asCash THEN Ebit(q, m, dep) ELSE Ebitda(q, m, dep)) - Tax(q, m, dep)

----------------------------------------------------------------------------
(* Paying for the project *)

\* Math.pow, of a whole exponent.
Power(base, n) ==
  LET P[k \in 0..n] == IF k = 0 THEN 1 ELSE base * P[k - 1]
  IN P[n]

\* interest is the monthly rate as a whole factor (0, or 1 for 100 %).
Pmt(pv, interest, n) ==
  IF n <= 0 THEN 0
  ELSE IF interest = 0 THEN pv \div n
  ELSE (pv * interest * Power(1 + interest, n)) \div (Power(1 + interest, n) - 1)

\* Slip: the first instalment is due at signing and again after a month.
DueTwice(pv, interest, n, m) == IF m <= n THEN Pmt(pv, interest, n) ELSE 0

Due(pv, interest, n, m) == IF m < n THEN Pmt(pv, interest, n) ELSE 0

\* Slip: the charger's share of the itemised sum, whatever the total says.
ChargerPartItemised(q, capex) == (capex * q.charger) \div (q.charger + q.rest)

ChargerPart(q, capex) == IF Capex(q) > 0 THEN (capex * q.charger) \div Capex(q) ELSE 0

\* capexInstallmentAt: the payment of month m for a project that costs capex.
Instalment(q, capex, m) ==
  IF q.split = "all" THEN Due(capex, q.interest, AtLeast(1, q.inst), m)
  ELSE Due(ChargerPart(q, capex), q.interest, AtLeast(1, q.chargerInst), m)
       + Due(capex - ChargerPart(q, capex), q.interest, AtLeast(1, q.otherInst), m)

MonthlyDepreciation(q, capex) == capex \div (q.life * 12)

\* Slip: the asset is depreciated for ever.
DepreciationEndless(q, m) == MonthlyDepreciation(q, Capex(q))

Depreciation(q, m) == IF m <= q.life * 12 THEN MonthlyDepreciation(q, Capex(q)) ELSE 0

\* The charger is part of the project it is paid with.  The form does not see
\* to it: a total CAPEX below the charger's price makes the second instalment
\* negative.
Coherent(q) == q.split = "all" \/ q.charger <= Capex(q)

NetFlow(q, m) == Fcf(q, m, Depreciation(q, m)) - Instalment(q, Capex(q), m)

\* The code divides floats; a project's figures are in units small enough for
\* its divisions to leave no remainder, in each month of its horizon.
Exact(x, d) == x % d = 0

ExactMonth(q, m) ==
  LET dep  == Depreciation(q, m)
      left == Revenue(q, m) - OpexBase(q, m) IN
  /\ \A pc \in {q.gateway, q.unpaid, q.shared, q.tax} : Exact(Revenue(q, m) * pc, 100)
  /\ \A x \in {left, left - dep} : Exact(x * q.shared, 100)
  /\ Exact(Ebit(q, m, dep) * q.tax, 100)

ExactFigures(q) == \A m \in 1..q.horizon : ExactMonth(q, m)

ASSUME ExactAssumption ==
  \A q \in Projects :
    /\ ExactFigures(q)
    /\ Exact(Capex(q), q.life * 12) /\ Exact(Capex(q), AtLeast(1, q.inst))

----------------------------------------------------------------------------
(* The loop *)

Start(q) ==
  /\ p' = q
  /\ t' = 0
  /\ cum' = -Instalment(q, Capex(q), 0)
  /\ cumD' = -Instalment(q, Capex(q), 0) * Discount[q.rate][0]
  /\ payback' = NoMonth /\ paybackDisc' = NoMonth
  /\ y1Rev' = 0 /\ y1Fcf' = 0
  /\ paid' = Instalment(q, Capex(q), 0)
  /\ provided' = 0

SimInit ==
  \E q \in Projects :
    /\ p = q
    /\ t = 0
    /\ cum = -Instalment(q, Capex(q), 0)
    /\ cumD = -Instalment(q, Capex(q), 0) * Discount[q.rate][0]
    /\ payback = NoMonth /\ paybackDisc = NoMonth
    /\ y1Rev = 0 /\ y1Fcf = 0
    /\ paid = Instalment(q, Capex(q), 0)
    /\ provided = 0

\* Slip: the index of the month in monthly_data instead of its number.
FirstIndex(found, month, balance) ==
  IF found = NoMonth /\ balance >= 0 THEN month - 1 ELSE found

First(found, month, balance) == IF found = NoMonth /\ balance >= 0 THEN month ELSE found

\* Slip: the flow is compounded to the end instead of discounted to the start.
AddCompounded(total, flow, factor) ==
  total + flow * ((Discount[p.rate][0] * Discount[p.rate][0]) \div factor)

AddDiscounted(total, flow, factor) == total + flow * factor

AddMonth ==
  LET m == t + 1
      net == NetFlow(p, m) IN
  /\ t < p.horizon
  /\ t' = m
  /\ cum' = cum + net
  /\ cumD' = AddDiscounted(cumD, net, Discount[p.rate][m])
  /\ payback' = First(payback, m, cum')
  /\ paybackDisc' = First(paybackDisc, m, cumD')
  /\ y1Rev' = IF m <= 12 THEN y1Rev + Revenue(p, m) ELSE y1Rev
  /\ y1Fcf' = IF m <= 12 THEN y1Fcf + net ELSE y1Fcf
  /\ paid' = paid + Instalment(p, Capex(p), m)
  /\ provided' = provided + Depreciation(p, m)
  /\ UNCHANGED p

\* An input of the form changes; everything is computed again.
EditInputs == t = p.horizon /\ \E q \in Projects : Start(q)

SimNext == AddMonth \/ EditInputs
SimSpec == SimInit /\ [][SimNext]_simVars

----------------------------------------------------------------------------
(* What the page says of the result *)

\* generateInsights, the notices about the return of the whole project.
Insights(q) ==
  {IF payback = NoMonth THEN "no_payback"
   ELSE IF payback <= 24 THEN "fast_payback"
   ELSE IF payback <= 48 THEN "ok_payback" ELSE "slow_payback"}
  \cup {IF cumD > 0 THEN "npv_pos" ELSE "npv_neg"}
  \cup {i \in {"low_occ"} : q.occ0 < 30}
  \cup {i \in {"high_capex"} : y1Rev > 0 /\ Capex(q) > 5 * y1Rev}
  \cup {i \in {"neg_fcf_y1"} : y1Fcf < 0}
  \cup {i \in {"good_margin"} : y1Rev > 0 /\ 100 * y1Fcf > 30 * y1Rev}

----------------------------------------------------------------------------
(* Properties *)

SimTypeOK ==
  /\ p \in Projects
  /\ t \in 0..p.horizon
  /\ cum \in Int /\ cumD \in Int
  /\ payback \in Months \cup {NoMonth} /\ paybackDisc \in Months \cup {NoMonth}
  /\ y1Rev \in Int /\ y1Fcf \in Int
  /\ paid \in Int /\ provided \in Int

\* The KPI strip shows both paybacks side by side: the discounted one exists
\* only if the simple one does, and is never the earlier of the two, whatever
\* the flows do after they have turned positive.  (For a coherent project.)
PaybackOrdered ==
  Coherent(p) /\ paybackDisc # NoMonth => payback # NoMonth /\ payback <= paybackDisc

\* The notices do not contradict each other: a project declared viable by its
\* net present value is never said not to pay back, and a first year in the
\* red has no healthy margin.
InsightsAgree ==
  t = p.horizon =>
    /\ Coherent(p) => ~({"npv_pos", "no_payback"} \subseteq Insights(p))
    /\ ~({"neg_fcf_y1", "good_margin"} \subseteq Insights(p))

\* Without interest the instalments that fell due never come to more than the
\* CAPEX, and to all of it once the last one has; the depreciation charged
\* never exceeds it.
PaysOnce ==
  /\ p.interest = 0 /\ Coherent(p) => paid <= Capex(p)
  /\ p.interest = 0 /\ t + 1 >= AtLeast(1, p.inst) /\ p.split = "all" => paid = Capex(p)
  /\ provided <= Capex(p)

\* Once a maturing project has paid back it stays paid back: the month on the
\* badge is not a spike before a relapse, the boundary after month 12 included.
\* Its occupancy does not fall, the percentages leave of the tariff what the
\* energy costs, and nothing is shielded by a depreciation that ends: neither
\* the tax nor a share of the profit.
Shielded(q) == q.tax > 0 \/ (q.shared > 0 /\ q.sharedBase = "profit")
Maturing(q) ==
  /\ q.occ0 <= q.occ12
  /\ q.gateway + q.unpaid + q.shared + q.tax <= 100
  /\ q.tariff * (100 - q.gateway - q.unpaid - q.shared - q.tax) >= 100 * q.energy
  /\ Shielded(q) => q.asCash \/ q.life * 12 >= q.horizon
  /\ Coherent(q)
PaybackLasts == Maturing(p) /\ payback # NoMonth => cum >= 0
=============================================================================
