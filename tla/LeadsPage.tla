------------------------------ MODULE LeadsPage ------------------------------
(***************************************************************************)
(* dashboard/leads/page.tsx: the leads page by page, their analytics over  *)
(* a period, the e-mails that are notified of leads and the configuration  *)
(* of the public simulator.  Times are hours since an epoch, in UTC.       *)
(***************************************************************************)
EXTENDS DashboardPage, TLC

CONSTANTS
  LeadSets,       \* what the organisation may have: sets of creation times
  Clock,          \* the time at which the page is open
  UtcOffset,      \* hours by which the browser is behind UTC
  EmailIds,
  NoOne,          \* null in the useState fields
  LEADS_PER_PAGE

ASSUME LeadsAssumption ==
  /\ UtcOffset \in 0..12 /\ Clock \in Nat /\ LEADS_PER_PAGE \in Nat \ {0}
  /\ \A leads \in LeadSets : leads \subseteq Nat /\ IsFiniteSet(leads)

Filters == {"", "morning"}            \* state, sector and charger of the query
Matching(leads, filter) == IF filter = "" THEN leads ELSE {h \in leads : h % 24 < 12}
States == {{}, {"SP"}, {"SP", "RJ"}}  \* of an e-mail; none is all of Brazil

LeadsInit(leads) ==
  PageInit(
    [leads |-> leads, emails |-> [e \in EmailIds |-> {}], config |-> [price |-> "old", opex |-> "old"]],
    [filter |-> "", search |-> "", leadsPage |-> 0, period |-> "month",
     customFrom |-> NoOne, customTo |-> NoOne,
     addingEmail |-> FALSE, expanded |-> NoOne, editingStates |-> [e \in EmailIds |-> {}],
     savingEmail |-> NoOne, editingConfig |-> FALSE,
     draft |-> [price |-> "old", opex |-> "old"], savingConfig |-> FALSE])

LeadsEffect(q) ==
  CASE q.op = "states" /\ q.email \in DOMAIN server.emails -> [server EXCEPT !.emails[q.email] = q.states]
    [] q.op = "addEmail" ->
         [server EXCEPT !.emails = [e \in DOMAIN @ \cup {q.email} |-> IF e = q.email THEN {} ELSE @[e]]]
    [] q.op = "removeEmail" -> [server EXCEPT !.emails = [e \in DOMAIN @ \ {q.email} |-> @[e]]]
    [] q.op = "config" -> [server EXCEPT !.config = q.draft]
    [] OTHER -> server

LeadsStale(q, ok) == IF ~ok THEN {} ELSE IF q.op = "config" THEN {"config"} ELSE {"emails"}

\* Whichever e-mail was saved, the one that is open closes.
LeadsFields(q, ok) ==
  CASE q.op = "states" -> [ui EXCEPT !.savingEmail = NoOne, !.expanded = IF ok THEN NoOne ELSE @]
    [] q.op = "addEmail" -> [ui EXCEPT !.addingEmail = FALSE]
    [] q.op = "config" -> [ui EXCEPT !.savingConfig = FALSE, !.editingConfig = @ /\ ~ok]
    [] OTHER -> ui

----------------------------------------------------------------------------
(* The list *)

Filtered(u) == Matching(Matching(shown.leads, u.filter), u.search)
TotalLeadsPages == (Cardinality(Filtered(ui)) + LEADS_PER_PAGE - 1) \div LEADS_PER_PAGE
PageRows == {h \in Filtered(ui) :
               Cardinality({k \in Filtered(ui) : k < h}) \div LEADS_PER_PAGE = ui.leadsPage}

\* The effect of [search, filterState, filterSector, filterCharger].
ResetPage(u) ==
  IF u.search # ui.search \/ u.filter # ui.filter THEN [u EXCEPT !.leadsPage = 0] ELSE u

SetFilter == \E f \in Filters \ {ui.filter} : Click(ResetPage([ui EXCEPT !.filter = f]))
SetSearch == \E f \in Filters \ {ui.search} : Click(ResetPage([ui EXCEPT !.search = f]))
PreviousPage == ui.leadsPage > 0 /\ Click([ui EXCEPT !.leadsPage = @ - 1])
NextPage == ui.leadsPage < TotalLeadsPages - 1 /\ Click([ui EXCEPT !.leadsPage = @ + 1])

----------------------------------------------------------------------------
(* The analytics: days are UTC dates (toISOString and created_at), the window *)
(* runs between midnights of the browser                                      *)

UtcDay(h) == h \div 24
Today == (Clock - UtcOffset) \div 24
Midnight(day) == day * 24 + UtcOffset

\* A period of one's own, once its first day is typed; until then it is the month.
Custom == ui.period = "custom" /\ ui.customFrom # NoOne
FirstDay ==
  IF Custom THEN ui.customFrom
  ELSE Today - CASE ui.period = "week" -> 6 [] ui.period = "quarter" -> 89 [] OTHER -> 29
LastDay == IF Custom /\ ui.customTo # NoOne THEN ui.customTo ELSE Today

WindowStart == Midnight(FirstDay)
WindowEnd == Midnight(LastDay + 1) - 1
InWindow == {h \in shown.leads : UtcDay(WindowStart) <= UtcDay(h) /\ UtcDay(h) <= UtcDay(WindowEnd)}
TrendDays == {UtcDay(WindowStart) + k : k \in 0..((WindowEnd - WindowStart) \div 24)}
Trend == [d \in TrendDays |-> Cardinality({h \in InWindow : UtcDay(h) = d})]

Periods == {"week", "month", "quarter", "custom"}
SetPeriod == \E p \in Periods \ {ui.period} : Click([ui EXCEPT !.period = p])

\* The two date inputs, in any order; bound: days up to tomorrow.
SetDates ==
  /\ ui.period = "custom"
  /\ \E day \in 0..(Today + 1) \cup {NoOne} :
       Click([ui EXCEPT !.customFrom = day]) \/ Click([ui EXCEPT !.customTo = day])

----------------------------------------------------------------------------
(* Notified e-mails and the configuration of the simulator *)

HandleAddEmail ==
  \E e \in EmailIds \ DOMAIN server.emails :
    Send([op |-> "addEmail", email |-> e], [ui EXCEPT !.addingEmail = TRUE])

HandleRemoveEmail(e) == e \in DOMAIN shown.emails /\ Send([op |-> "removeEmail", email |-> e], ui)

\* A copy of the states the list shows.
StartEditingEmail(e) ==
  /\ e \in DOMAIN shown.emails /\ ui.expanded # e
  /\ Click([ui EXCEPT !.expanded = e, !.editingStates[e] = shown.emails[e]])
ToggleEmailState(e) ==
  ui.expanded = e /\ \E x \in States \ {ui.editingStates[e]} : Click([ui EXCEPT !.editingStates[e] = x])
CloseEmail == ui.expanded # NoOne /\ Click([ui EXCEPT !.expanded = NoOne])

HandleSaveEmailStates(e) ==
  /\ ui.expanded = e /\ ui.savingEmail # e
  /\ Send([op |-> "states", email |-> e, states |-> ui.editingStates[e]],
          [ui EXCEPT !.savingEmail = e])

\* A copy of the whole configuration; saving sends every field of it.
StartEditingConfig == ~ui.editingConfig /\ Click([ui EXCEPT !.editingConfig = TRUE, !.draft = shown.config])
EditConfig == ui.editingConfig /\ \E k \in DOMAIN ui.draft : Click([ui EXCEPT !.draft[k] = "new"])
CancelConfig == ui.editingConfig /\ Click([ui EXCEPT !.editingConfig = FALSE])
HandleSaveConfig ==
  /\ ui.editingConfig /\ ~ui.savingConfig
  /\ Send([op |-> "config", draft |-> ui.draft], [ui EXCEPT !.savingConfig = TRUE])

LeadsNext ==
  \/ SetFilter \/ SetSearch \/ PreviousPage \/ NextPage \/ SetPeriod \/ SetDates
  \/ HandleAddEmail \/ CloseEmail
  \/ \E e \in EmailIds :
       HandleRemoveEmail(e) \/ StartEditingEmail(e) \/ ToggleEmailState(e) \/ HandleSaveEmailStates(e)
  \/ StartEditingConfig \/ EditConfig \/ CancelConfig \/ HandleSaveConfig
  \/ Background(LeadsEffect, LeadsFields, LeadsStale, NoEffect)

----------------------------------------------------------------------------
(* Properties *)

\* The list never shows an empty page of a list that has rows.
PageHasRows == Filtered(ui) # {} => PageRows # {}

\* The days of the trend and the total count the same leads, but for those of
\* the UTC day that begins before the browser's last day is over.
TrendAddsUp ==
  Cardinality({h \in InWindow : UtcDay(h) <= LastDay}) = SumFunction(Trend)

LeadsBusyReturns ==
  /\ ui.addingEmail => Pending(LAMBDA q : q.op = "addEmail")
  /\ ui.savingEmail # NoOne => Pending(LAMBDA q : q.op = "states")
  /\ ui.savingConfig => Pending(LAMBDA q : q.op = "config")
=============================================================================
