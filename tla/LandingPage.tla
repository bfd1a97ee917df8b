----------------------------- MODULE LandingPage -----------------------------
(***************************************************************************)
(* The pages a visitor sees without an account: app/page.tsx, whose        *)
(* two-step form asks public.py for a simulation and leaves a lead, and    *)
(* the contact form of solucao/page.tsx.  Requests are plain fetch calls.  *)
(* The messages under the fields are left out.                             *)
(***************************************************************************)
EXTENDS DashboardPage, FiniteSets

CONSTANTS
  LeadIds,     \* identifiers the server gives
  NoLead,      \* result and leadId are null
  BrStates,    \* states whose cities can be asked for
  NoState,     \* no state, no list, no city
  MaxPoints,   \* bound: chargers a visitor counts up to
  SimConfigs   \* active configurations: CAPEX and net income of a point, growth

ASSUME LandingAssumption ==
  /\ MaxPoints \in Nat \ {0} /\ NoState \notin BrStates
  /\ \A c \in SimConfigs : c.price \in Nat /\ c.net \in Nat /\ c.growth \in 0..50

\* half: a field of step 2 is missing or refused by its check; whole: none is.
\* cities: the state whose cities are listed; city: the state of the one picked.
\* reached: the visitor has filled both steps in, or opens the page.
LandingInit(reached, config) ==
  LET uf == IF reached THEN CHOOSE u \in BrStates : TRUE ELSE NoState IN
  PageInit([leads |-> <<>>, config |-> config],
    [step |-> IF reached THEN 2 ELSE 1, sector |-> reached, points |-> IF reached THEN 1 ELSE 0,
     contact |-> IF reached THEN "whole" ELSE "half", stateUF |-> uf, cities |-> uf, city |-> uf,
     citiesLoading |-> FALSE, submitting |-> FALSE, result |-> NoLead, leadId |-> NoLead,
     specialistMsg |-> FALSE, specialistSending |-> FALSE, specialistSent |-> FALSE])

\* public.py.  told: there is a message to the specialist.
LandingEffect(q) ==
  CASE q.op = "simulate" ->
         [server EXCEPT !.leads = [l \in DOMAIN @ \cup {q.lead} |->
            IF l = q.lead THEN [told |-> FALSE, uf |-> q.uf, city |-> q.city] ELSE @[l]]]
    [] q.op = "specialist" -> [server EXCEPT !.leads[q.lead].told = TRUE]
    [] OTHER -> server

\* An order without chargers is a 422, a second message a 409.
LandingAllowed(q) ==
  CASE q.op = "simulate" -> q.points > 0
    [] q.op = "specialist" -> q.lead \in DOMAIN server.leads /\ ~server.leads[q.lead].told
    [] OTHER -> TRUE

----------------------------------------------------------------------------
(* Step 1 *)

SelectSector == ui.step = 1 /\ \E b \in BOOLEAN \ {ui.sector} : Click([ui EXCEPT !.sector = b])
CountCharger ==
  /\ ui.step = 1
  /\ \E n \in {ui.points - 1, ui.points + 1} \cap 0..MaxPoints : Click([ui EXCEPT !.points = n])
Step1Valid == ui.sector /\ ui.points > 0
HandleNext == ui.step = 1 /\ Step1Valid /\ Click([ui EXCEPT !.step = 2])

----------------------------------------------------------------------------
(* Step 2 *)

BackToStep1 == ui.step = 2 /\ Click([ui EXCEPT !.step = 1])
TypeContact ==
  ui.step = 2 /\ \E c \in {"half", "whole"} \ {ui.contact} : Click([ui EXCEPT !.contact = c])

\* The effect of [stateUF] asks for the cities, and forgets the city; the list of
\* the state before stays until the answer.
SelectState ==
  /\ ui.step = 2
  /\ \/ \E uf \in BrStates \ {ui.stateUF} :
          Send([op |-> "cities", uf |-> uf],
               [ui EXCEPT !.stateUF = uf, !.city = NoState, !.citiesLoading = TRUE])
     \/ /\ ui.stateUF # NoState
        /\ Click([ui EXCEPT !.stateUF = NoState, !.city = NoState, !.cities = NoState])

CityEnabled == ui.step = 2 /\ ui.stateUF # NoState /\ ~ui.citiesLoading
PickCity == CityEnabled /\ ui.cities # NoState /\ Click([ui EXCEPT !.city = ui.cities])
TypeCity == CityEnabled /\ ui.city # NoState /\ Click([ui EXCEPT !.city = NoState])

Step2Valid == ui.contact = "whole" /\ ui.stateUF # NoState /\ ui.city # NoState

FreshLeads == {l \in LeadIds \ DOMAIN server.leads :
                 ~Pending(LAMBDA q : q.op = "simulate" /\ q.lead = l)}
HandleSimulate ==
  /\ ui.step = 2 /\ ~ui.submitting /\ Step2Valid
  /\ \E l \in FreshLeads :
       Send([op |-> "simulate", lead |-> l, points |-> ui.points, uf |-> ui.stateUF, city |-> ui.city],
            [ui EXCEPT !.submitting = TRUE])

----------------------------------------------------------------------------
(* The result *)

TypeSpecialistMessage ==
  /\ ui.result # NoLead /\ ~ui.specialistSent
  /\ \E b \in BOOLEAN \ {ui.specialistMsg} : Click([ui EXCEPT !.specialistMsg = b])
HandleSendSpecialistMessage ==
  /\ ui.result # NoLead /\ ~ui.specialistSent /\ ~ui.specialistSending
  /\ ui.specialistMsg /\ ui.leadId # NoLead
  /\ Send([op |-> "specialist", lead |-> ui.leadId], [ui EXCEPT !.specialistSending = TRUE])

NewSimulation(fields) ==
  [fields EXCEPT !.result = NoLead, !.leadId = NoLead, !.specialistSent = FALSE, !.specialistMsg = FALSE,
                 !.points = 0, !.step = 1]
HandleNewSimulation == ui.result # NoLead /\ Click(NewSimulation(ui))

\* The answers.  That of a list of cities does not ask which state is chosen by
\* then, nor that of a message which simulation is shown.
LandingFields(q, ok) ==
  CASE q.op = "cities" -> [ui EXCEPT !.citiesLoading = FALSE, !.cities = IF ok THEN q.uf ELSE NoState]
    [] q.op = "simulate" /\ ok ->
         [ui EXCEPT !.submitting = FALSE, !.result = q.lead, !.leadId = q.lead,
                    !.specialistSent = FALSE, !.specialistMsg = FALSE]
    [] q.op = "simulate" /\ ~ok -> [ui EXCEPT !.submitting = FALSE]
    [] q.op = "specialist" -> [ui EXCEPT !.specialistSending = FALSE, !.specialistSent = @ \/ ok]

LandingStale(q, ok) == {}

LandingNext ==
  \/ SelectSector \/ CountCharger \/ HandleNext
  \/ BackToStep1 \/ TypeContact \/ SelectState \/ PickCity \/ TypeCity \/ HandleSimulate
  \/ TypeSpecialistMessage \/ HandleSendSpecialistMessage \/ HandleNewSimulation
  \/ ServeAllowed(LandingAllowed, LandingEffect) \/ Answered(LandingFields, LandingStale)

----------------------------------------------------------------------------
(* The figures of a simulation.  Points multiply income and CAPEX alike. *)

ChartMonths == 24
Income(c) ==
  LET f[m \in 1..ChartMonths] == IF m = 1 THEN c.net ELSE (f[m - 1] * (100 + c.growth)) \div 100 IN f
Cumulative24(c) ==
  LET f[m \in 0..ChartMonths] == IF m = 0 THEN -c.price ELSE f[m - 1] + Income(c)[m] IN f

\* In tenths of a month, as it is rounded; 0 is null.  It knows no growth.
SimplePayback(c) == IF c.net > 0 THEN (20 * c.price + c.net) \div (2 * c.net) ELSE 0
ChartPayback(c) ==
  LET back == {m \in 1..ChartMonths : Cumulative24(c)[m] >= 0} IN
  IF back = {} THEN 0 ELSE CHOOSE m \in back : \A k \in back : m <= k
PaybackMonths(c) == IF ChartPayback(c) # 0 THEN 10 * ChartPayback(c) ELSE SimplePayback(c)
PaybackPoint(c) == PaybackMonths(c) \in 1..(10 * ChartMonths)

\* A chart that does not cross ends a twentieth of an income short at most when
\* the rounded month of the card is its last.
MatchingCards ==
  {c \in SimConfigs :
     LET chart == Cumulative24(c)
         month == PaybackMonths(c) \div 10
         crossed == \E m \in 1..ChartMonths : chart[m] >= 0 IN
     /\ crossed => PaybackPoint(c) /\ chart[month] >= 0 /\ \A m \in 1..(month - 1) : chart[m] < 0
     /\ ~crossed /\ PaybackPoint(c) => month = ChartMonths /\ 20 * chart[month] >= -c.net}

----------------------------------------------------------------------------
(* The contact form of /solucao *)

ContactInit ==
  PageInit([leads |-> {}],
    [open |-> FALSE, form |-> "empty", sending |-> FALSE, sent |-> FALSE])

OpenContact == ~ui.open /\ Click([ui EXCEPT !.open = TRUE])
CloseContact == ui.open /\ Click([ui EXCEPT !.open = FALSE])
EditContact ==
  /\ ui.open /\ ~ui.sent
  /\ \E x \in {"half", "one", "other"} \ {ui.form} : Click([ui EXCEPT !.form = x])
SubmitContact ==
  /\ ui.open /\ ~ui.sent /\ ~ui.sending /\ ui.form \in {"one", "other"}
  /\ Send([op |-> "contact", form |-> ui.form], [ui EXCEPT !.sending = TRUE])
\* "Fechar" of the message that it was sent.
CloseSent ==
  ui.open /\ ui.sent /\ Click([ui EXCEPT !.open = FALSE, !.sent = FALSE, !.form = "empty"])

ContactEffect(q) == [server EXCEPT !.leads = @ \cup {q.form}]
ContactFields(q, ok) == [ui EXCEPT !.sending = FALSE, !.sent = @ \/ ok]

ContactNext ==
  \/ OpenContact \/ CloseContact \/ EditContact \/ SubmitContact \/ CloseSent
  \/ Serve(ContactEffect) \/ Answered(ContactFields, LandingStale)

----------------------------------------------------------------------------
(* Properties *)

\* Step 2 is only shown for an order: sector and chargers are chosen, whatever
\* answer arrives in between.
OrderIsChosen == ui.step = 2 => Step1Valid

\* "Derive payback from monthly_projections so card matches chart"
\* (page.tsx:1116): the point of payback is announced when the chart crosses zero,
\* for the first month in which it does; or for the last month of the chart, if it
\* lacks no more than what rounding the card can hide.
CardMatchesChart ==
  ui.result # NoLead =>
    server.config \in MatchingCards

LandingBusyReturns ==
  /\ ui.submitting => Pending(LAMBDA q : q.op = "simulate")
  /\ ui.specialistSending => Pending(LAMBDA q : q.op = "specialist")
  /\ ui.citiesLoading => Pending(LAMBDA q : q.op = "cities")

ContactBusyReturns == ui.sending => writes # <<>>

\* A lead's city lies in its state ("Load cities when state changes",
\* page.tsx:274).
CityIsOfState == ui.city # NoState => ui.city = ui.stateUF

\* "Reset specialist form for the new simulation" (page.tsx:409): what is said to
\* be sent belongs to the lead that is shown.
SentIsForThisLead == ui.specialistSent /\ ui.leadId # NoLead => server.leads[ui.leadId].told
=============================================================================
