------------------------------- MODULE MCPages -------------------------------
EXTENDS TeamPage, SettingsPage, AdminPage, LeadsPage, InvestmentPage, DashboardFilters, PageAccess, MapPage,
   AuthPages, SimplePanel, CapexPage, FilesPage, AccountPages, LandingPage

\* The page that is open, for the whole of a behaviour: the pages share the framework of
\* DashboardPage and nothing else.
VARIABLE page

MCLeadSets == {{}, {1, 30, 40}, {1, 25, 31, 60, 73}}
MCProjects ==
  {DEFAULT_INPUTS, [DEFAULT_INPUTS EXCEPT !.n_chargers = 2, !.avg_monthly_kwh = 24],
   [k \in DOMAIN DEFAULT_INPUTS \ {"tax_regime"} |->
      IF k = "tax_base" THEN "revenue" ELSE DEFAULT_INPUTS[k]]}
AllKeys == UNION {NAV[i].features : i \in DOMAIN NAV}
MCPlans ==
  {[k \in AllKeys |-> k = "investment_simple"], [k \in AllKeys |-> TRUE],
   [k \in AllKeys \ {"dashboard_overview"} |-> FALSE], [k \in AllKeys |-> k = "leads"]}
MCUsers ==
  {[id |-> 1, role |-> "viewer", permissions |-> {}, master |-> FALSE],
   [id |-> 2, role |-> "analyst", permissions |-> {"view_leads"}, master |-> TRUE]}
MCCities == [SP |-> {"a", "b", "c"}, RJ |-> {"d", "e"}]
MCPop == [a |-> 4, b |-> 2, c |-> 0, d |-> 1, e |-> 1]
MCUfFleet == [SP |-> 5, RJ |-> 2]
MCFrota == [a |-> 3, b |-> 1, d |-> 1]
MCEletropostos == [a |-> 2, c |-> 0, d |-> 1]
MCOcm == [real |-> [a |-> 0, b |-> 3, c |-> 1, d |-> 0, e |-> 0],
          mock |-> [a |-> 1, b |-> 0, c |-> 0, d |-> 0, e |-> 1]]
MCPriceLists ==
  {[y \in Types |-> [price_brl |-> 1000, power_kw |-> 10]],
   [y \in Types |-> [price_brl |-> 2000, power_kw |-> 10]]}

Base == [tariff |-> 10, fee |-> 0, sessions |-> 10, energy |-> 5, occ |-> 30, opex |-> 5000,
         split |-> 10, tax |-> 0, regime |-> "undefined"]
MCTermSets ==
  {Base, [Base EXCEPT !.tax = 20, !.fee = 10, !.occ = 95],
   [Base EXCEPT !.tax = 10, !.regime = "SN", !.occ = 5]}

\* Projects of a fleet whose CAPEX was negotiated, in either mode.
MCLibrary ==
  {[DEFAULT_SIMPLE(Base) EXCEPT !.stations = [y \in Types |-> 2], !.capex_mode = m,
                                !.capex_total = 3000, !.charger_value = 3000] : m \in Modes}

\* Paid back, not yet, without data, and at a loss.
MCInvestments ==
  {[capex |-> 3000, months |-> 120, opex |-> 25, tax |-> 5, station |-> x[1], revenue |-> x[2], recent |-> x[3], estimate |-> x[4]] :
     x \in {<<TRUE, 8000, 900, 0>>, <<TRUE, 4000, 3000, 0>>, <<FALSE, 0, 0, 0>>, <<FALSE, 0, 0, 200>>}}
  \cup {[capex |-> 1000, months |-> 60, opex |-> 80, tax |-> 30, station |-> TRUE, revenue |-> 3000, recent |-> 300, estimate |-> 0]}

\* Some n of the files.
Take(n) == CHOOSE fs \in SUBSET FileIds : Cardinality(fs) = n

MCInviteOf == [m1 |-> "A", m2 |-> "B"]

\* Paid back by month 8, by 20 only with growth, by 24 only as rounded, never.
MCSimConfigs ==
  {[price |-> 75000, net |-> 10000, growth |-> 3], [price |-> 75000, net |-> 2900, growth |-> 3],
   [price |-> 75000, net |-> 3120, growth |-> 0], [price |-> 75000, net |-> 0, growth |-> 3]}

\* What the user still does on each page.
Patience ==
  [team |-> 3, settings |-> 3, admin |-> 3, leads |-> 3, investment |-> 4, filters |-> 4,
   access |-> 4, map |-> 3, auth |-> 4, panel |-> 0,
   capex |-> 4, files |-> 3, billing |-> 4, profile |-> 4, feedback |-> 4, notes |-> 6, landing |-> 7, contact |-> 6]

Init ==
  /\ \/ page = "team" /\ \E roles \in SUBSET RoleIds : TeamInit(roles)
     \/ page = "settings" /\ \E first \in {{}} \cup {{r} : r \in Rows} : SettingsInit(first)
     \/ page = "admin" /\ AdminInit
     \/ page = "leads" /\ \E leads \in LeadSets : LeadsInit(leads)
     \/ page = "investment" /\ \E f \in SUBSET Analyses \ {{}} : \E seen \in {{}, f} : InvestInit(f, seen, MCProjects)
     \/ page = "filters" /\ \E stored \in Links : FiltersInit(stored)
     \/ page = "access" /\ \E plans \in [Users -> PlanSets] : AccessInit(plans)
     \/ page = "map" /\ MapInit
     \/ page = "auth" /\ AuthInit
     \/ page = "capex" /\ \E first \in SUBSET CapexRows : CapexInit(first)
     \/ page = "files" /\ \E n \in 0..1, st \in {"done", "error"} : FilesInit([f \in Take(n) |-> st])
     \/ page = "billing" /\ BillingPageInit
     \/ page = "profile" /\ ProfileInit
     \/ page = "feedback" /\ FeedbackInit
     \/ page = "notes" /\ NotesInit
     \/ page = "landing" /\ \E reached \in BOOLEAN, c \in SimConfigs : LandingInit(reached, c)
     \/ page = "contact" /\ ContactInit
     \/ page = "panel" /\ PageInit(<<>>, <<>>)
  /\ SimpleInit
  /\ clicks = Patience[page]

PageNext ==
  \/ page = "team" /\ TeamNext
  \/ page = "settings" /\ SettingsNext
  \/ page = "admin" /\ AdminNext
  \/ page = "leads" /\ LeadsNext
  \/ page = "investment" /\ InvestNext
  \/ page = "filters" /\ FiltersNext
  \/ page = "access" /\ AccessNext
  \/ page = "map" /\ MapNext
  \/ page = "auth" /\ AuthNext
  \/ page = "capex" /\ CapexNext
  \/ page = "files" /\ FilesNext
  \/ page = "billing" /\ BillingPageNext
  \/ page = "profile" /\ ProfileNext
  \/ page = "feedback" /\ (TypeFeedback \/ HandleSubmit)
  \/ page = "notes" /\ NotesNext
  \/ page = "landing" /\ LandingNext
  \/ page = "contact" /\ ContactNext
  \/ page \in {"billing", "profile", "feedback", "notes"} /\ AccountBackground

Next ==
  /\ UNCHANGED page
  /\ \/ page = "panel" /\ SimpleNext /\ UNCHANGED pageVars
     \/ PageNext /\ UNCHANGED simpleVars

Spec == Init /\ [][Next]_<<pageVars, simpleVars, page>>

----------------------------------------------------------------------------
(* Properties *)

\* A page at rest shows what the server holds: each handler asks again for the
\* lists its request changed, and no answer to an older question stays.  The team's
\* and the administrator's handlers do not ask for everything they change; what
\* they leave out is left out here too.
ListsSettle ==
  CASE page = "team" -> TeamSettles
    [] page \in {"settings", "leads", "investment", "map", "capex", "feedback", "notes"} -> PageSettles
    [] page = "admin" -> AdminSettles
    [] page = "profile" -> ProfileSettles
    [] page = "files" -> FiguresFollowFiles
    [] OTHER -> TRUE

\* A button that a handler disabled, and a page that waits, are released once
\* every request has its answer, the refused ones included.
BusyFlagsReturn ==
  CASE page = "team" -> TeamBusyReturns
    [] page = "settings" -> SettingsBusyReturns
    [] page = "admin" -> AdminBusyReturns
    [] page = "leads" -> LeadsBusyReturns
    [] page = "investment" -> InvestBusyReturns
    [] page = "auth" -> AuthBusyReturns
    [] page = "panel" -> SaveComesBack
    [] page = "capex" -> CapexBusyReturns
    [] page = "files" -> FilesBusyReturns
    [] page = "billing" -> BillingBusyReturns
    [] page = "profile" -> ProfileBusyReturns
    [] page \in {"feedback", "notes"} -> SmallFormsReturn
    [] page = "landing" -> LandingBusyReturns
    [] page = "contact" -> ContactBusyReturns
    [] OTHER -> TRUE

\* A form holds the values of the row, item, plan or invitation its page names,
\* and what depends on another field follows it.
FormsShowTheirRow ==
  CASE page = "settings" -> FormsOfTheirRow
    [] page = "admin" -> RepliesOfTheirItem
    [] page = "capex" -> CapexFormOfRecord
    [] page = "investment" -> KwhFollowsPanel /\ RegimeFollowsPanel
    [] page = "auth" -> LockedNameIsInvited /\ DoneIsDone
    [] OTHER -> TRUE

\* What is shown in two places agrees: the leads with their page and their trend,
\* the filters with the address and the pills, the map with its ranking,
\* the point of payback with its chart.
ViewsAgree ==
  CASE page = "leads" -> PageHasRows /\ TrendAddsUp
    [] page = "filters" -> FiltersAgree
    [] page = "map" -> CitiesOfState /\ ScoresRank
    [] page = "capex" -> CardsAgree
    [] page = "landing" -> OrderIsChosen /\ CardMatchesChart
    [] OTHER -> TRUE

\* Sidebar, gates and the landing on /dashboard judge a page alike, and by the
\* flags of the user who is signed in.
AccessIsConsistent == page = "access" => AccessAgrees

\* The simplified analysis: its CAPEX follows the stations and the prices, and its
\* cards, chart, table and scenarios agree.
PanelSuggestion == page = "panel" => SuggestionInForce
PanelProjection == page = "panel" => ProjectionAgrees

\* "Mantém avg_monthly_kwh sempre sincronizado com o valor calculado"
\* (investimento/page.tsx:1329).
KwhStaysInSync == page = "investment" => KwhInSync

\* "Salvar" on an edited configuration (settings/page.tsx:339) keeps the active one.
EditKeepsActive == [][page = "settings" => KeepsActive]_pageVars

\* The role beside an invitation (team/page.tsx:725), the count beside a role (:588).
InvitationOfItsRole == page = "team" => InvitationShowsRole
RoleCountIsOfMembers == page = "team" => RoleCountsMembers

\* The heading of the role editor names the role that is edited (team/page.tsx:536).
EditorOfItsRole == page = "team" => EditorShowsRole

\* "Carregando municípios de {filterUF}" (InstallationMap.tsx:226).
LoadingNamesState == page = "map" => LoadingIsOfState

\* "demonstração" is shown with made-up chargers (InstallationMap.tsx:209).
DemonstrationIsLabelled == page = "map" => MockIsLabelled

\* "Adicione notas sobre este usuário..." (UserDetailDrawer.tsx:206).
NotesAreOfTheirUser == page = "notes" => NoteIsOfItsUser

\* "Assinatura ativada com sucesso!" (billing/page.tsx:60).
ToastFollowsPayment == page = "billing" => ToastMeansActive

\* "Load cities when state changes" (app/page.tsx:274).
LeadsCityInItsState == page = "landing" => CityIsOfState

\* "Reset specialist form for the new simulation" (app/page.tsx:409).
SpecialistMessageWasSent == page = "landing" => SentIsForThisLead

\* "dashboard re-fetches with new data" (DashboardOnboarding.tsx:62).
DemoIsShown == page = "files" => DemoShowsItsData

\* "Ingressar em" the organisation of the code that is sent (register/page.tsx:239).
RegistrationJoinsItsOrganisation == page = "auth" => JoinsWhatItSays
=============================================================================
