------------------------------ MODULE CapexPage ------------------------------
(***************************************************************************)
(* dashboard/capex/page.tsx: what was invested per charger, and how much   *)
(* of it the sessions have paid back (capex.py).  Money in reais, rates in *)
(* per cent, months in tenths.                                             *)
(***************************************************************************)
EXTENDS DashboardPage

CONSTANTS
  CapexRows,    \* identifiers of records
  NoRecord,     \* editId and deleting are null
  Investments   \* what a record may hold, with the sessions of its station

ASSUME CapexAssumption ==
  /\ IsFiniteSet(CapexRows) /\ Investments # {}
  /\ \A r \in Investments :
       /\ r.capex \in Nat /\ r.months \in Nat /\ r.opex \in 0..100 /\ r.tax \in 0..100
       /\ r.station \in BOOLEAN /\ r.revenue \in Nat /\ r.recent \in Nat /\ r.estimate \in Nat

\* EMPTY_FORM
EmptyForm == [values |-> CHOOSE r \in Investments : TRUE, named |-> FALSE, of |-> NoRecord]

CapexInit(first) ==
  PageInit([capex |-> [i \in first |-> CHOOSE r \in Investments : TRUE]],
    [showForm |-> FALSE, editId |-> NoRecord, form |-> EmptyForm, saving |-> FALSE, deleting |-> NoRecord])

CapexEffect(q) ==
  CASE q.op = "save" /\ (q.new \/ q.row \in DOMAIN server.capex) ->
         [server EXCEPT !.capex = [i \in DOMAIN @ \cup {q.row} |-> IF i = q.row THEN q.values ELSE @[i]]]
    [] q.op = "delete" -> [server EXCEPT !.capex = [i \in DOMAIN @ \ {q.row} |-> @[i]]]
    [] OTHER -> server

\* A save or a deletion of a record that is gone is a 404.
CapexAllowed(q) == (q.op = "save" /\ q.new) \/ q.row \in DOMAIN server.capex

CapexStale(q, ok) == IF ok THEN {"capex"} ELSE {}

\* Whichever form is open by then, the answer to a save closes it.
CapexFields(q, ok) ==
  IF q.op = "save" THEN [ui EXCEPT !.saving = FALSE, !.showForm = @ /\ ~ok]
  ELSE [ui EXCEPT !.deleting = NoRecord]

----------------------------------------------------------------------------
(* The form covers the page; it may be closed while its save is on the way *)

OpenAdd ==
  ~ui.showForm /\ Click([ui EXCEPT !.showForm = TRUE, !.editId = NoRecord, !.form = EmptyForm])

OpenCapex(i) ==
  /\ ~ui.showForm /\ i \in DOMAIN shown.capex
  /\ Click([ui EXCEPT !.showForm = TRUE, !.editId = i,
                      !.form = [values |-> shown.capex[i], named |-> TRUE, of |-> i]])

EditForm ==
  /\ ui.showForm
  /\ \E r \in Investments : Click([ui EXCEPT !.form = [@ EXCEPT !.values = r, !.named = TRUE]])
CloseForm == ui.showForm /\ Click([ui EXCEPT !.showForm = FALSE])

\* Name, value and date are required.
HandleSave ==
  /\ ui.showForm /\ ~ui.saving /\ ui.form.named
  /\ \E row \in IF ui.editId = NoRecord THEN CapexRows \ DOMAIN server.capex ELSE {ui.editId} :
       Send([op |-> "save", row |-> row, new |-> ui.editId = NoRecord, values |-> ui.form.values],
            [ui EXCEPT !.saving = TRUE])

\* One record is remembered as being deleted, and only its button waits.
HandleDelete(i) ==
  /\ ~ui.showForm /\ i \in DOMAIN shown.capex /\ ui.deleting # i
  /\ Send([op |-> "delete", row |-> i], [ui EXCEPT !.deleting = i])

CapexNext ==
  \/ OpenAdd \/ EditForm \/ CloseForm \/ HandleSave
  \/ \E i \in CapexRows : OpenCapex(i) \/ HandleDelete(i)
  \/ ServeAllowed(CapexAllowed, CapexEffect)
  \/ Answered(CapexFields, CapexStale)
  \/ FetchRead("capex") \/ FetchShown("capex", NoEffect)

----------------------------------------------------------------------------
(* _compute_performance *)

Source(r) ==
  IF r.station THEN "sessions" ELSE IF r.estimate > 0 /\ r.months > 0 THEN "estimate" ELSE "none"

Revenue(r) ==
  CASE Source(r) = "sessions" -> r.revenue
    [] Source(r) = "estimate" -> (r.estimate * r.months) \div 10
    [] OTHER -> 0

\* Of the last 90 days, wherever the installation lies in them.
MonthlyRevenue(r) ==
  CASE Source(r) = "sessions" -> r.recent \div 3
    [] Source(r) = "estimate" -> r.estimate
    [] OTHER -> 0

Net(r) == (Revenue(r) * (100 - r.opex - r.tax)) \div 100
Cumulative(r) == Net(r) - r.capex
Rate(r) == MonthlyRevenue(r) * (100 - r.opex - r.tax)

\* In tenths of a per cent, as it is rounded; 100 % when recovered.
ProgressPct(r) ==
  LET part == (2 * 1000 * Net(r) + r.capex) \div (2 * r.capex) IN
  IF Rate(r) > 0 /\ Cumulative(r) >= 0 THEN 1000
  ELSE IF r.capex > 0 /\ (Rate(r) > 0 \/ Net(r) > 0) THEN (IF part < 1000 THEN part ELSE 1000)
  ELSE 0

\* The badge of a card.
StatusBadge(r) ==
  IF Source(r) = "none" \/ r.months = 0 THEN "Sem dados"
  ELSE IF Cumulative(r) >= 0 THEN "Payback atingido" ELSE "meses restantes"

TotalOf(F(_)) == SumFunction([i \in DOMAIN shown.capex |-> F(shown.capex[i])])
TotalCapex == TotalOf(LAMBDA r : r.capex)
Recovered ==
  IF TotalCapex = 0 THEN 0
  ELSE LET part == (1000 * TotalOf(Net)) \div TotalCapex IN IF part < 1000 THEN part ELSE 1000

----------------------------------------------------------------------------
(* Properties *)

\* What is saved to a record was filled in from that record.
CapexFormOfRecord == ui.showForm => ui.form.of = ui.editId

CapexBusyReturns ==
  /\ ui.saving => Pending(LAMBDA q : q.op = "save")
  /\ ui.deleting # NoRecord => Pending(LAMBDA q : q.op = "delete")

\* Badge, colour and bar of a card tell one story, up to the rounding of the bar:
\* the badge says it is paid back just when the bar is full, and the bar of the
\* whole fleet is full just when the sum of the positions is not negative.
CardsAgree ==
  /\ \A i \in DOMAIN shown.capex : LET r == shown.capex[i] IN
       r.capex > 0 =>
         /\ StatusBadge(r) = "Payback atingido" => ProgressPct(r) = 1000
         /\ ProgressPct(r) = 1000 => 2000 * Net(r) >= 1999 * r.capex
  /\ TotalCapex > 0 => (Recovered = 1000 <=> TotalOf(Cumulative) >= 0)
=============================================================================
