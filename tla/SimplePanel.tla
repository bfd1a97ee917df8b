----------------------------- MODULE SimplePanel -----------------------------
(***************************************************************************)
(* The simplified analysis of the investment page (SimplifiedAnalysis of   *)
(* dashboard/investimento/page.tsx): a form, a price list that arrives and *)
(* is revalidated behind it, a CAPEX suggested from the stations, and the  *)
(* projects saved on the server.  React runs the effects of a render       *)
(* before it renders again: while one is due nothing else happens.         *)
(***************************************************************************)
EXTENDS Integers, SequencesExt

CONSTANTS
  Types,       \* charger types of the administrator's list
  PriceLists,  \* the lists the server may answer
  MaxQuantity, \* bound: chargers of a type
  Amounts,     \* the CAPEX amounts a user types
  TermSets,    \* tariff, costs, taxes and occupancy a user may enter
  DefaultTerms, \* those the form opens with
  Library,     \* inputs of the organisation's saved projects
  MaxPosts,    \* bound: requests on their way
  NoList       \* not loaded yet

Terms == [tariff : Nat, fee : Nat, sessions : Nat, energy : Nat, occ : 0..100, opex : Nat,
          split : 0..100, tax : 0..100, regime : {"SN", "LP", "LR", "undefined"}]

Modes == {"total", "detailed"}
SimpleForms == [stations : [Types -> 0..MaxQuantity], capex_mode : Modes, capex_total : Nat,
                charger_value : Nat, terms : TermSets]

ASSUME PriceAssumption ==
  /\ IsFiniteSet(Types) /\ MaxQuantity \in Nat /\ Amounts \subseteq Nat
  /\ PriceLists \subseteq [Types -> [price_brl : Nat \ {0}, power_kw : Nat]]
  /\ NoList \notin PriceLists /\ TermSets \subseteq Terms /\ DefaultTerms \in TermSets
  /\ Library \subseteq SimpleForms

VARIABLES
  s,               \* the form
  configs,         \* simCfg.charger_configs, or NoList
  suggestedBefore, \* prevSuggestedCapex.current
  simpleInFlight,  \* the POSTs on their way: what sent each
  simpleName,      \* the field of the name is not empty
  isSavingSimple,  \* the button is disabled
  isPrinting,      \* isPrintingRef
  typedCapex       \* history: since the form last suggested a CAPEX the user
                   \* typed one, changed its mode or loaded a project

formVars == <<s, suggestedBefore, typedCapex>>
savingVars == <<simpleInFlight, simpleName, isSavingSimple, isPrinting>>
simpleVars == <<configs, formVars, savingVars>>

DEFAULT_SIMPLE(terms) ==
  [stations |-> [y \in Types |-> 0], capex_mode |-> "total", capex_total |-> 0,
   charger_value |-> 0, terms |-> terms]

----------------------------------------------------------------------------
(* calcSimple *)

\* charger_value stands for the sum of the nine items.
EffectiveCapex(q) == IF q.capex_mode = "total" THEN q.capex_total ELSE q.charger_value

\* Without a list or a station: the legacy fields, one charger of 60 kW.
TotalPower(stations, list) ==
  IF list # NoList /\ \E y \in Types : stations[y] > 0
  THEN SumFunction([y \in Types |-> stations[y] * list[y].power_kw])
  ELSE 60

\* The revenue in hundredths, the occupancy being a percentage.
Gross(stations, list, terms, occ) ==
  TotalPower(stations, list) * 360 * occ * terms.tariff + terms.fee * terms.sessions * 30 * occ

\* Bound: figures without fractions of a unit, whose percentages none of the
\* divisions below rounds; the page computes with floating point.
ASSUME ExactTermsAssumption ==
  \A stations \in [Types -> 0..MaxQuantity], list \in PriceLists \cup {NoList}, terms \in TermSets, occ \in 0..100 :
    LET gross == Gross(stations, list, terms, occ) IN
    /\ gross % 100 = 0 /\ (TotalPower(stations, list) * 360 * occ * terms.energy) % 100 = 0
    /\ ((gross \div 100) * terms.split) % 100 = 0
    /\ terms.regime = "SN" => ((gross \div 100) * terms.tax) % 100 = 0

SimpleRevenue(q, list, occ) == Gross(q.stations, list, q.terms, occ) \div 100

SimpleTax(q, revenue, preTax) ==
  IF q.terms.regime = "SN" THEN (revenue * q.terms.tax) \div 100
  ELSE IF preTax > 0 THEN (preTax * q.terms.tax) \div 100 ELSE 0

MonthlyNet(q, list) ==
  LET occ == q.terms.occ
      revenue == SimpleRevenue(q, list, occ)
      energy == (TotalPower(q.stations, list) * 360 * occ * q.terms.energy) \div 100
      preTax == revenue - energy - q.terms.opex - (revenue * q.terms.split) \div 100
  IN preTax - SimpleTax(q, revenue, preTax)

\* Slip: the copy for the scenarios counts the start fee once, not by occupancy.
NetForOccFlatFee(q, list, occ) ==
  LET rev == (TotalPower(q.stations, list) * 360 * occ * q.terms.tariff) \div 100
             + q.terms.fee * q.terms.sessions * 30
      preTax == rev - (TotalPower(q.stations, list) * 360 * occ * q.terms.energy) \div 100
                - q.terms.opex - (rev * q.terms.split) \div 100
  IN preTax - SimpleTax(q, rev, preTax)

\* netForOcc: the same computation again, for a scenario.
NetForOcc(q, list, occ) ==
  LET kwh == TotalPower(q.stations, list) * 360 * occ
      rev == (kwh * q.terms.tariff + q.terms.fee * q.terms.sessions * 30 * occ) \div 100
      preTax == rev - (kwh * q.terms.energy) \div 100 - q.terms.opex - (rev * q.terms.split) \div 100
  IN preTax - SimpleTax(q, rev, preTax)

\* What the select shows: "SN" while nothing is chosen.
ShownRegime(q) == IF q.terms.regime = "undefined" THEN "SN" ELSE q.terms.regime

Clamp(x) == IF x < 0 THEN 0 ELSE IF x > 100 THEN 100 ELSE x
ScenarioOccs(q) == {Clamp(q.terms.occ + off) : off \in {-10, -5, 5, 10}} \ {q.terms.occ}

\* Payback within m months, for a monthly profit net.
PaidBackBy(q, net, m) == net > 0 /\ EffectiveCapex(q) <= net * m

\* The bars and lines of the chart: the balance after m months.
ChartAt(q, net, m) == net * m - EffectiveCapex(q)

\* The table of the first five years.
YearRow(q, list, y) ==
  LET cumNet == MonthlyNet(q, list) * 12 * y IN
  [profit |-> MonthlyNet(q, list) * 12, return |-> cumNet - EffectiveCapex(q),
   roi |-> IF EffectiveCapex(q) > 0 THEN (cumNet * 100) \div EffectiveCapex(q) ELSE 0]

\* fmtPb and pbColor of the KPI card; a payback of zero months reads as none.
PaybackCard(q, list) ==
  LET net == MonthlyNet(q, list) IN
  IF net <= 0 \/ EffectiveCapex(q) = 0 THEN [text |-> "Sem retorno", colour |-> "red"]
  ELSE [text   |-> IF PaidBackBy(q, net, 120) THEN "months" ELSE "> 10 anos",
        colour |-> IF PaidBackBy(q, net, 24) THEN "emerald"
                   ELSE IF PaidBackBy(q, net, 48) THEN "blue"
                   ELSE IF PaidBackBy(q, net, 72) THEN "amber" ELSE "red"]

\* The cost rows of the card "Receita x Custos" and the line they end in.
Breakdown(q, list) ==
  LET revenue == SimpleRevenue(q, list, q.terms.occ)
      energy == (TotalPower(q.stations, list) * 360 * q.terms.occ * q.terms.energy) \div 100
      split == (revenue * q.terms.split) \div 100
      costs == energy + q.terms.opex + split
  IN [revenue |-> revenue, costs |-> costs + SimpleTax(q, revenue, revenue - costs),
      net |-> MonthlyNet(q, list)]

----------------------------------------------------------------------------
(* The form *)

SuggestedCapex(q, list) ==
  IF list = NoList THEN 0 ELSE SumFunction([y \in Types |-> q.stations[y] * list[y].price_brl])

WithSuggestion(q, amount) ==
  IF q.capex_mode = "detailed" THEN [q EXCEPT !.charger_value = amount]
  ELSE [q EXCEPT !.capex_total = amount]

SimpleInit ==
  /\ s = DEFAULT_SIMPLE(DefaultTerms)
  /\ configs = NoList /\ suggestedBefore = 0 /\ typedCapex = FALSE
  /\ simpleInFlight = <<>>
  /\ simpleName = FALSE /\ isSavingSimple = FALSE /\ isPrinting = FALSE

\* useSWR answers, at first or when it revalidates.
PricesArrive ==
  /\ configs' \in PriceLists
  /\ UNCHANGED <<formVars, savingVars>>

UpdateStation(y) ==
  /\ configs # NoList
  /\ \E quantity \in {s.stations[y] - 1, s.stations[y] + 1} \cap (0..MaxQuantity) :
       s' = [s EXCEPT !.stations[y] = quantity]
  /\ UNCHANGED <<configs, suggestedBefore, typedCapex, savingVars>>

\* Tariffs, occupancy, costs and taxes.
EditTerms ==
  /\ \E terms \in TermSets : s' = [s EXCEPT !.terms = terms]
  /\ UNCHANGED <<configs, suggestedBefore, typedCapex, savingVars>>

\* Slip: a suggestion is made once and not when it changes.
SuggestedOnce(amount) == amount > 0 /\ suggestedBefore = 0

SuggestionDue(amount) == amount > 0 /\ amount # suggestedBefore

\* The effect of [suggestedCapex].
SuggestCapex ==
  LET amount == SuggestedCapex(s, configs) IN
  /\ SuggestionDue(amount)
  /\ suggestedBefore' = amount
  /\ s' = WithSuggestion(s, amount)
  /\ typedCapex' = FALSE
  /\ UNCHANGED <<configs, savingVars>>

\* "Usar sugerido" is offered while the amount differs from the field.
UseSuggested ==
  LET amount == SuggestedCapex(s, configs) IN
  /\ amount > 0 /\ amount # EffectiveCapex(s)
  /\ s' = WithSuggestion(s, amount)
  /\ typedCapex' = FALSE
  /\ UNCHANGED <<configs, suggestedBefore, savingVars>>

SetCapexMode ==
  /\ \E m \in Modes : m # s.capex_mode /\ s' = [s EXCEPT !.capex_mode = m]
  /\ typedCapex' = TRUE
  /\ UNCHANGED <<configs, suggestedBefore, savingVars>>

\* The amounts of the composition of the CAPEX: the total, or the items.
TypeCapex ==
  /\ \E amount \in Amounts : s' = WithSuggestion(s, amount)
  /\ typedCapex' = TRUE
  /\ UNCHANGED <<configs, suggestedBefore, savingVars>>

----------------------------------------------------------------------------
(* Saved projects: the list is the organisation's, any of Library; what this *)
(* panel adds to it or deletes from it is not followed.                      *)

TypeSimpleName ==
  /\ ~simpleName /\ simpleName' = TRUE
  /\ UNCHANGED <<configs, formVars, simpleInFlight, isSavingSimple, isPrinting>>

PostSimple(how) ==
  /\ Len(simpleInFlight) < MaxPosts
  /\ simpleInFlight' = Append(simpleInFlight, how)

\* The button is disabled while it saves; Enter in the field is not.
HandleSaveSimple ==
  /\ simpleName
  /\ PostSimple("save")
  /\ isSavingSimple' = TRUE
  /\ UNCHANGED <<configs, formVars, simpleName, isPrinting>>

ReleasedFinally(ok) == FALSE

\* Requests overtake each other.
SimpleSaveAnswer(i, ok) ==
  /\ simpleInFlight[i] = "save"
  /\ simpleInFlight' = RemoveAt(simpleInFlight, i)
  /\ simpleName' = (simpleName /\ ~ok)
  /\ isSavingSimple' = ReleasedFinally(ok)
  /\ UNCHANGED <<configs, formVars, isPrinting>>

\* A print records the simulation first and does not wait for it; a second
\* click before afterprint is ignored.
HandleSimplePrint ==
  /\ ~isPrinting /\ isPrinting' = TRUE
  /\ PostSimple("pdf")
  /\ UNCHANGED <<configs, formVars, simpleName, isSavingSimple>>

AfterPrint ==
  /\ isPrinting /\ isPrinting' = FALSE
  /\ UNCHANGED <<configs, formVars, simpleInFlight, simpleName, isSavingSimple>>

PdfRecorded(i) ==
  /\ simpleInFlight[i] = "pdf"
  /\ simpleInFlight' = RemoveAt(simpleInFlight, i)
  /\ UNCHANGED <<configs, formVars, simpleName, isSavingSimple, isPrinting>>

\* A project of the list replaces the form.
HandleLoadSimple(c) ==
  /\ s' = c
  /\ typedCapex' = TRUE
  /\ UNCHANGED <<configs, suggestedBefore, savingVars>>

\* A file replaces what it holds; one from before the items existed has a total
\* only and sets the mode.  (One of the advanced analysis is refused.)
HandleImportSimple ==
  /\ \E amount \in Amounts : s' = [s EXCEPT !.capex_total = amount, !.capex_mode = "total"]
  /\ typedCapex' = TRUE
  /\ UNCHANGED <<configs, suggestedBefore, savingVars>>

PanelEvent ==
  \/ PricesArrive \/ EditTerms \/ UseSuggested \/ SetCapexMode \/ TypeCapex
  \/ \E y \in Types : UpdateStation(y)
  \/ TypeSimpleName \/ HandleSaveSimple \/ HandleSimplePrint \/ AfterPrint
  \/ \E i \in DOMAIN simpleInFlight, ok \in BOOLEAN : SimpleSaveAnswer(i, ok)
  \/ \E i \in DOMAIN simpleInFlight : PdfRecorded(i)
  \/ \E c \in Library : HandleLoadSimple(c)
  \/ HandleImportSimple

SimpleNext == SuggestCapex \/ (~SuggestionDue(SuggestedCapex(s, configs)) /\ PanelEvent)
SimpleSpec == SimpleInit /\ [][SimpleNext]_simpleVars

----------------------------------------------------------------------------
(* Properties *)

\* The CAPEX follows the stations and the prices: once the effect has run, and
\* unless the user has decided otherwise since, the CAPEX in force is what the
\* list in force asks for the stations, whichever of the three came last.
SuggestionInForce ==
  LET amount == SuggestedCapex(s, configs) IN
  amount > 0 /\ ~SuggestionDue(amount) /\ ~typedCapex => EffectiveCapex(s) = amount

\* What the panel shows of one project agrees: the scenarios' own copy of the
\* computation at the base occupancy is the base case, the costs of the
\* breakdown are what separates revenue from profit, the table of five years
\* is the chart at its months, and more occupancy never pays back later as
\* long as a kWh leaves a margin after the percentages.
ProjectionAgrees ==
  LET net == MonthlyNet(s, configs)
      Net(occ) == NetForOcc(s, configs, occ)
      row == Breakdown(s, configs) IN
  /\ Net(s.terms.occ) = net
  /\ row.revenue - row.costs = row.net
  /\ \A y \in 1..5 :
       /\ YearRow(s, configs, y).return = ChartAt(s, net, 12 * y)
       /\ YearRow(s, configs, y).return >= 0 /\ net > 0 <=> PaidBackBy(s, net, 12 * y)
       /\ YearRow(s, configs, y).roi >= 100 /\ EffectiveCapex(s) > 0 => PaidBackBy(s, net, 12 * y)
  /\ PaybackCard(s, configs).text = "Sem retorno" /\ EffectiveCapex(s) > 0 => net <= 0
  /\ s.terms.split + s.terms.tax <= 100
     /\ s.terms.tariff * (100 - s.terms.split - s.terms.tax) >= 100 * s.terms.energy =>
       \A a, b \in ScenarioOccs(s) \cup {s.terms.occ} : a <= b => Net(a) <= Net(b)

\* The button of the panel is never left disabled: while it is, a request that
\* will enable it is on its way, whichever of several answers comes first.
SaveComesBack ==
  isSavingSimple => \E i \in DOMAIN simpleInFlight : simpleInFlight[i] = "save"

\* page.tsx:895 shows "SN - sobre a receita" while no regime is chosen; the tax
\* of the panel is the tax of the regime it shows.
RegimeIsShown ==
  LET q == [s EXCEPT !.terms.regime = ShownRegime(s)] IN MonthlyNet(s, configs) = MonthlyNet(q, configs)
=============================================================================
