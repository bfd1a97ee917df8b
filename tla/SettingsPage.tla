---------------------------- MODULE SettingsPage ----------------------------
(***************************************************************************)
(* dashboard/settings/page.tsx: cost configurations, alerts, operating     *)
(* hours and preferences of the organisation.  A form holds the values of  *)
(* the row it was opened for; costForm.of and alertForm.of remember which. *)
(***************************************************************************)
EXTENDS DashboardPage, TLC

CONSTANTS
  Rows,   \* identifiers of configurations and alerts
  NewRow  \* editingId is null

Values == {"default", "typed"}   \* what a row holds
Hours == {"day", "night"}        \* the operating hours

\* defaultValues of the forms; the percentages the form shows are the server's
\* times 100, to one decimal.
BlankForm == [open |-> FALSE, editing |-> NewRow, values |-> "default", of |-> NewRow]

SettingsInit(first) ==
  PageInit(
    [costs |-> [r \in first |-> [values |-> "default", is_default |-> TRUE]],
     alerts |-> [r \in first |-> [values |-> "default", is_active |-> TRUE]],
     org |-> [hours |-> "day", timezone |-> "BRT"]],
    [costForm |-> BlankForm, alertForm |-> BlankForm, creating |-> FALSE, savingAlert |-> FALSE,
     activating |-> NewRow, hours |-> "day", savingHours |-> FALSE, savingOrgSettings |-> FALSE])

Put(f, r, x) == [k \in DOMAIN f \cup {r} |-> IF k = r THEN x ELSE f[k]]
Without(f, r) == [k \in DOMAIN f \ {r} |-> f[k]]

\* organizations.py and alerts.py.  A field the body does not carry takes the
\* default of the schema: is_default FALSE, is_active TRUE.
SettingsEffect(q) ==
  CASE q.op = "saveCost" /\ (q.new \/ q.row \in DOMAIN server.costs) ->
         [server EXCEPT !.costs = Put(@, q.row, [values |-> q.values, is_default |-> FALSE])]
    [] q.op = "activate" /\ q.row \in DOMAIN server.costs ->
         [server EXCEPT !.costs = [r \in DOMAIN @ |-> [@[r] EXCEPT !.is_default = r = q.row]]]
    [] q.op = "deleteCost" -> [server EXCEPT !.costs = Without(@, q.row)]
    [] q.op = "saveAlert" /\ (q.new \/ q.row \in DOMAIN server.alerts) ->
         [server EXCEPT !.alerts = Put(@, q.row, [values |-> q.values, is_active |-> TRUE])]
    [] q.op = "toggleAlert" /\ q.row \in DOMAIN server.alerts ->
         [server EXCEPT !.alerts[q.row] = q.alert]
    [] q.op = "deleteAlert" -> [server EXCEPT !.alerts = Without(@, q.row)]
    [] q.op = "hours" -> [server EXCEPT !.org.hours = q.hours]
    [] q.op = "timezone" -> [server EXCEPT !.org.timezone = q.timezone]
    [] OTHER -> server

SettingsStale(q, ok) ==
  IF ~ok THEN {}
  ELSE {CASE q.op \in {"saveCost", "activate", "deleteCost"} -> "costs"
          [] q.op \in {"hours", "timezone"} -> "org"
          [] OTHER -> "alerts"}

\* cancelForm: close, forget the row, and the default values.
CancelForm(form) == BlankForm

\* saveAlert also has the alerts evaluated before it closes the form; the
\* evaluation changes nothing this page shows and its failure is ignored.
SettingsFields(q, ok) ==
  CASE q.op = "saveCost" ->
         [ui EXCEPT !.creating = FALSE, !.costForm = IF ok THEN CancelForm(@) ELSE @]
    [] q.op = "saveAlert" ->
         [ui EXCEPT !.savingAlert = FALSE, !.alertForm = IF ok THEN CancelForm(@) ELSE @]
    [] q.op = "activate" -> [ui EXCEPT !.activating = NewRow]
    [] q.op = "hours" -> [ui EXCEPT !.savingHours = FALSE]
    [] q.op = "timezone" -> [ui EXCEPT !.savingOrgSettings = FALSE]
    [] OTHER -> ui

\* The effect of [org] puts the saved hours on the slider.
SettingsArrived(t) == IF t = "org" THEN [ui EXCEPT !.hours = reading.org.hours] ELSE ui

----------------------------------------------------------------------------
(* Cost configurations *)

FilledFrom(table, r) == [open |-> TRUE, editing |-> r, values |-> table[r].values, of |-> r]
Edited(form) == {[form EXCEPT !.values = x] : x \in Values \ {form.values}}

OpenEdit(r) ==
  r \in DOMAIN shown.costs /\ Click([ui EXCEPT !.costForm = FilledFrom(shown.costs, r)])

\* "Nova" resets the form and toggles it: over an open form it closes it.
NewCost == Click([ui EXCEPT !.costForm = [BlankForm EXCEPT !.open = ~ui.costForm.open]])
CancelCost == ui.costForm.open /\ Click([ui EXCEPT !.costForm = CancelForm(@)])
EditCost == ui.costForm.open /\ \E f \in Edited(ui.costForm) : Click([ui EXCEPT !.costForm = f])

SaveRequest(op, form, r) ==
  [op |-> op, new |-> form.editing = NewRow, row |-> r, values |-> form.values]
Target(form, table) == IF form.editing = NewRow THEN Rows \ DOMAIN table ELSE {form.editing}

OnSave ==
  /\ ui.costForm.open /\ ~ui.creating
  /\ \E r \in Target(ui.costForm, server.costs) :
       Send(SaveRequest("saveCost", ui.costForm, r), [ui EXCEPT !.creating = TRUE])

\* "Ativar" is shown on the rows that are not; only one is remembered as busy.
ActivateConfig(r) ==
  /\ r \in DOMAIN shown.costs /\ ~shown.costs[r].is_default /\ ui.activating # r
  /\ Send([op |-> "activate", row |-> r], [ui EXCEPT !.activating = r])

DeleteConfig(r) == r \in DOMAIN shown.costs /\ Send([op |-> "deleteCost", row |-> r], ui)

----------------------------------------------------------------------------
(* Alerts *)

OpenNewAlert == Click([ui EXCEPT !.alertForm = [BlankForm EXCEPT !.open = TRUE]])
OpenEditAlert(r) ==
  r \in DOMAIN shown.alerts /\ Click([ui EXCEPT !.alertForm = FilledFrom(shown.alerts, r)])
EditAlert == ui.alertForm.open /\ \E f \in Edited(ui.alertForm) : Click([ui EXCEPT !.alertForm = f])

\* The button only closes the form; the next opening resets it.
CancelAlert ==
  ui.alertForm.open /\ Click([ui EXCEPT !.alertForm.open = FALSE, !.alertForm.editing = NewRow])

SaveAlert ==
  /\ ui.alertForm.open /\ ~ui.savingAlert
  /\ \E r \in Target(ui.alertForm, server.alerts) :
       Send(SaveRequest("saveAlert", ui.alertForm, r), [ui EXCEPT !.savingAlert = TRUE])

\* The whole alert as the list shows it, with the switch the other way.
ToggleAlert(r) ==
  /\ r \in DOMAIN shown.alerts
  /\ Send([op |-> "toggleAlert", row |-> r,
           alert |-> [shown.alerts[r] EXCEPT !.is_active = ~@]], ui)

DeleteAlert(r) == r \in DOMAIN shown.alerts /\ Send([op |-> "deleteAlert", row |-> r], ui)

----------------------------------------------------------------------------
(* Hours and preferences *)

MoveSlider == \E h \in Hours \ {ui.hours} : Click([ui EXCEPT !.hours = h])

SaveOperatingHours ==
  ~ui.savingHours /\ Send([op |-> "hours", hours |-> ui.hours], [ui EXCEPT !.savingHours = TRUE])

\* The answer is awaited with the reloaded organisation.
SaveOrgSetting ==
  /\ ~ui.savingOrgSettings
  /\ \E z \in {"BRT", "UTC"} \ {shown.org.timezone} :
       SendAwaiting([op |-> "timezone", timezone |-> z], [ui EXCEPT !.savingOrgSettings = TRUE])

SettingsNext ==
  \/ \E r \in Rows :
       \/ OpenEdit(r) \/ ActivateConfig(r) \/ DeleteConfig(r)
       \/ OpenEditAlert(r) \/ ToggleAlert(r) \/ DeleteAlert(r)
  \/ NewCost \/ CancelCost \/ EditCost \/ OnSave
  \/ OpenNewAlert \/ EditAlert \/ CancelAlert \/ SaveAlert
  \/ MoveSlider \/ SaveOperatingHours \/ SaveOrgSetting
  \/ Background(SettingsEffect, SettingsFields, SettingsStale, SettingsArrived)

----------------------------------------------------------------------------
(* Properties *)

\* Whatever is answered late, an open form was filled in from the row its
\* button saves to, and a form for a new row from none.
FormsOfTheirRow ==
  \A form \in {ui.costForm, ui.alertForm} : form.open => form.of = form.editing

\* An edit changes what the form shows: the active configuration stays active.
KeepsActive ==
  \A r \in DOMAIN server.costs \cap DOMAIN server.costs' :
    server.costs[r].values # server.costs'[r].values =>
      server.costs[r].is_default = server.costs'[r].is_default

SettingsBusyReturns ==
  /\ ui.creating => Pending(LAMBDA q : q.op = "saveCost")
  /\ ui.savingAlert => Pending(LAMBDA q : q.op = "saveAlert")
  /\ ui.activating # NewRow => Pending(LAMBDA q : q.op = "activate" /\ q.row = ui.activating)
  /\ ui.savingHours => Pending(LAMBDA q : q.op = "hours")
  /\ ui.savingOrgSettings => Pending(LAMBDA q : q.op = "timezone")
=============================================================================
