--------------------------- MODULE InvestmentPage ---------------------------
(***************************************************************************)
(* dashboard/investimento/page.tsx: the page around the two analyses and   *)
(* the panel of the advanced one - its inputs, the slider of the operating *)
(* hours, "preencher com dados reais", import, and the saved projects.     *)
(* What the inputs amount to is ProjectSim; the simplified analysis, which *)
(* is mounted anew at each visit, is SimplePanel.                          *)
(***************************************************************************)
EXTENDS DashboardPage

Analyses == {"simple", "advanced"}
HoursSet == {10, 12}     \* hours a day between the ends of the slider
Unit == 5                \* what a charger costs in the detailed CAPEX

\* Energy a month at full occupancy, in units of power of a charger times 30 days.
SuggestedKwh(u) == u.inputs.n_chargers * u.hours

\* computeProject depends on these; terms stands for the four fields that real
\* data fill in.
DEFAULT_INPUTS ==
  [n_chargers |-> 1, avg_monthly_kwh |-> 10, terms |-> "default", capex_mode |-> "total",
   capex_override |-> 9, tax_regime |-> "LP", tax_base |-> "profit"]

CalcCapex(i) == IF i.capex_mode = "total" THEN i.capex_override ELSE i.n_chargers * Unit

\* hasFeature is false until the features of the plan have arrived.
FirstAnalysis(features) ==
  IF "simple" \notin features /\ "advanced" \in features THEN "advanced" ELSE "simple"

\* seen: the features that have arrived when the page mounts.
InvestInit(features, seen, projects) ==
  PageInit(
    [scenarios |-> projects, features |-> features],
    [analysisMode |-> FirstAnalysis(seen),
     inputs |-> DEFAULT_INPUTS, hours |-> 10, kwhOf |-> "panel", regimeOf |-> "panel",
     showFillPanel |-> FALSE, showSavePanel |-> FALSE, isSaving |-> FALSE])

\* payback.py: a project is appended under a new id, or deleted.
InvestEffect(q) ==
  CASE q.op = "saveProject" -> [server EXCEPT !.scenarios = @ \cup {q.inputs}]
    [] q.op = "deleteProject" -> [server EXCEPT !.scenarios = @ \ {q.inputs}]
    [] OTHER -> server

InvestStale(q, ok) == IF ok /\ q.op # "fill" THEN {"scenarios"} ELSE {}

\* The rest of handleFillWithRealData merges onto the inputs of the moment.
InvestFields(q, ok) ==
  CASE q.op = "saveProject" -> [ui EXCEPT !.isSaving = FALSE]
    [] q.op = "fill" /\ ok ->
         [ui EXCEPT !.showFillPanel = FALSE, !.inputs.terms = IF q.found THEN "real" ELSE @]
    [] OTHER -> ui

----------------------------------------------------------------------------

SwitchAnalysis ==
  \E m \in server.features \ {ui.analysisMode} : Click([ui EXCEPT !.analysisMode = m])

\* Slip: only the chargers are followed.
SyncKwhOnChargers(u) ==
  IF u.inputs.n_chargers = ui.inputs.n_chargers THEN u
  ELSE [u EXCEPT !.inputs.avg_monthly_kwh = SuggestedKwh(u), !.kwhOf = "panel"]

\* The effect of [suggestedKwh]: it runs when that value changed, whatever
\* changed it, and puts it into the inputs.
SyncKwh(u) ==
  IF SuggestedKwh(u) = SuggestedKwh(ui) THEN u
  ELSE [u EXCEPT !.inputs.avg_monthly_kwh = SuggestedKwh(u), !.kwhOf = "panel"]

Advanced == ui.analysisMode = "advanced"

SetChargers == Advanced /\ \E n \in 1..2 : Click(SyncKwh([ui EXCEPT !.inputs.n_chargers = n]))
MoveHours == Advanced /\ \E h \in HoursSet \ {ui.hours} : Click(SyncKwh([ui EXCEPT !.hours = h]))
SetTerms == Advanced /\ ui.inputs.terms # "typed" /\ Click([ui EXCEPT !.inputs.terms = "typed"])

\* "Total" starts from the sum of the parts when no total was ever set.
SetCapexModeAdvanced ==
  \E m \in {"total", "detailed"} \ {ui.inputs.capex_mode} :
    /\ Advanced
    /\ Click([ui EXCEPT !.inputs.capex_mode = m,
                !.inputs.capex_override = IF m = "total" /\ @ = 0 THEN CalcCapex(ui.inputs) ELSE @])
SetCapexOverride ==
  Advanced /\ ui.inputs.capex_mode = "total" /\
  \E x \in {0, 9} \ {ui.inputs.capex_override} : Click([ui EXCEPT !.inputs.capex_override = x])

\* The select of the regime sets what is shown and what is taxed.
SelectRegime ==
  /\ Advanced
  /\ \E r \in {"SN", "LP", "LR"} \ {ui.inputs.tax_regime} :
       Click([ui EXCEPT !.inputs.tax_regime = r, !.regimeOf = "panel",
                !.inputs.tax_base = IF r = "SN" THEN "revenue" ELSE "profit"])

ToggleFillPanel == Advanced /\ Click([ui EXCEPT !.showFillPanel = ~@])

\* Both questions are asked together; found: there are sessions of this type.
HandleFillWithRealData ==
  /\ Advanced /\ ui.showFillPanel
  /\ \E found \in BOOLEAN : Send([op |-> "fill", found |-> found], ui)

ToggleSavePanel == Advanced /\ Click([ui EXCEPT !.showSavePanel = ~@])

\* Enter saves again while a save is on its way; the button does not.  The
\* hours are not among what is saved.
SaveProject ==
  /\ Advanced /\ ui.showSavePanel
  /\ SendAwaiting([op |-> "saveProject", inputs |-> ui.inputs], [ui EXCEPT !.isSaving = TRUE])

\* Loading starts from the defaults, importing from the inputs of the moment.
Merged(below, data) ==
  [k \in DOMAIN below \cup DOMAIN data |-> IF k \in DOMAIN data THEN data[k] ELSE below[k]]
LoadProject(i) ==
  /\ Advanced /\ ui.showSavePanel /\ i \in shown.scenarios
  /\ Click(SyncKwh([ui EXCEPT !.inputs = Merged(DEFAULT_INPUTS, i), !.showSavePanel = FALSE,
                      !.kwhOf = "project", !.regimeOf = "project"]))
ImportProject(i) ==
  /\ Advanced
  /\ Click(SyncKwh([ui EXCEPT !.inputs = Merged(ui.inputs, i), !.kwhOf = "project", !.regimeOf = "project"]))
DeleteProject(i) ==
  Advanced /\ ui.showSavePanel /\ i \in shown.scenarios /\ SendAwaiting([op |-> "deleteProject", inputs |-> i], ui)

InvestNext ==
  \/ SwitchAnalysis
  \/ SetChargers \/ MoveHours \/ SetTerms \/ SetCapexModeAdvanced \/ SetCapexOverride \/ SelectRegime
  \/ ToggleFillPanel \/ HandleFillWithRealData \/ ToggleSavePanel \/ SaveProject
  \/ \E i \in shown.scenarios : LoadProject(i) \/ DeleteProject(i) \/ ImportProject(i)
  \/ Background(InvestEffect, InvestFields, InvestStale, NoEffect)

----------------------------------------------------------------------------
(* Properties *)

\* "Mantém avg_monthly_kwh sempre sincronizado" (page.tsx:1329): the energy is
\* that of the chargers and the hours on the slider.
KwhInSync == ui.inputs.avg_monthly_kwh = SuggestedKwh(ui)

\* It is, unless what is in the panel came with a project whose chargers are
\* those the panel had: whatever the user moves afterwards brings it back.
KwhFollowsPanel == ui.kwhOf = "panel" => KwhInSync

\* The regime that is shown is the one that is taxed, but for a project of
\* before the regime had a name.
RegimeFollowsPanel ==
  ui.regimeOf = "panel" => (ui.inputs.tax_regime = "SN" <=> ui.inputs.tax_base = "revenue")

InvestBusyReturns == ui.isSaving => Pending(LAMBDA q : q.op = "saveProject")
=============================================================================
