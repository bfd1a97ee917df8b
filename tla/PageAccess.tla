----------------------------- MODULE PageAccess -----------------------------
(***************************************************************************)
(* Which pages a user sees and opens: lib/permissions.ts and RoleGuard by  *)
(* role and permission, usePlanFeatures and PlanGate by the plan of the    *)
(* organisation, lib/nav.ts and the sidebar by both, and the way from      *)
(* /dashboard to the first page that opens.  AuthContext changes the user. *)
(***************************************************************************)
EXTENDS DashboardPage

CONSTANTS
  Users,     \* records [id, role, permissions, master] the browser signs in
  PlanSets,  \* feature flags an organisation may have: functions on some keys
  NoUser, NoFlags

Everyone == {"owner", "admin", "analyst", "viewer"}

ASSUME UsersAssumption == NoUser \notin Users /\ \A u \in Users : u.role \in Everyone

Analysts == Everyone \ {"viewer"}
ROUTE_PERMISSIONS ==
  [dashboard |-> Everyone, relatorio |-> Everyone, profile |-> Everyone,
   timeseries |-> Analysts, stations |-> Analysts, usuarios |-> Analysts, dre |-> Analysts,
   investimento |-> Analysts, map |-> Analysts, capex |-> Analysts,
   files |-> {"owner", "admin"}, team |-> {"owner", "admin"}, settings |-> {"owner", "admin"},
   billing |-> {"owner"}]

HasPermission(u, perm) == u.role \in {"owner", "admin"} \/ perm \in u.permissions

CanAccess(u, route) ==
  /\ u # NoUser
  /\ CASE route = "admin" -> u.master
       [] route = "leads" -> \E p \in {"view_leads", "manage_leads"} : HasPermission(u, p)
       [] OTHER -> route \in DOMAIN ROUTE_PERMISSIONS => u.role \in ROUTE_PERMISSIONS[route]

\* The items of the sidebar in their order; any one of the features will do,
\* and an item without features needs none.
Item(href, features) == [href |-> href, features |-> features]
NAV ==
  <<Item("dashboard", {"dashboard_overview"}), Item("timeseries", {"revenue"}),
    Item("stations", {"stations"}), Item("usuarios", {"users_analytics"}), Item("capex", {"capex"}),
    Item("dre", {"dre"}), Item("investimento", {"investment_simple", "investment_advanced"}),
    Item("map", {"map_view"}), Item("relatorio", {"pdf_report"}), Item("files", {"files"}),
    Item("team", {"team"}), Item("billing", {"billing"}), Item("settings", {"settings"}),
    Item("feedback", {}), Item("leads", {"leads"})>>

\* The feature of the PlanGate each page is wrapped in; /dashboard asks itself.
GATES ==
  [dashboard |-> {"dashboard_overview"}, timeseries |-> {"revenue"}, stations |-> {"stations"}, usuarios |-> {"users_analytics"},
   capex |-> {"capex"}, dre |-> {"dre"}, investimento |-> {"investment_simple", "investment_advanced"},
   map |-> {"map_view"}, relatorio |-> {"pdf_report"}, files |-> {"files"}, team |-> {"team"},
   leads |-> {"leads"}]

----------------------------------------------------------------------------
(* The flags: useSWR keeps them under one key for whoever is signed in, and a *)
(* copy for each user in localStorage is shown until they arrive              *)

AccessInit(plans) ==
  PageInit([plans |-> plans],
    [user |-> NoUser, flags |-> NoFlags, flagsOf |-> NoUser, asked |-> FALSE, error |-> FALSE,
     cached |-> [u \in Users |-> NoFlags], route |-> "login", collapsed |-> FALSE,
     drawer |-> FALSE, dismissed |-> FALSE])

FallbackData == IF ui.user = NoUser THEN NoFlags ELSE ui.cached[ui.user]
Data == IF ui.flags # NoFlags THEN ui.flags ELSE FallbackData
IsLoading == ui.asked /\ ui.flags = NoFlags

HasFeature(key) ==
  /\ ui.user # NoUser /\ ~(IsLoading /\ FallbackData = NoFlags)
  /\ ~ui.error /\ Data # NoFlags
  /\ key \in DOMAIN Data => Data[key]

HasAnyFeature(keys) == \E k \in keys : HasFeature(k)
ItemAllowed(item) == CanAccess(ui.user, item.href) /\ (item.features = {} \/ HasAnyFeature(item.features))

\* PlanGate shows its page while the flags are on their way.
GateOpen(route) == route \in DOMAIN GATES => IsLoading \/ HasAnyFeature(GATES[route])
Opens(route) == CanAccess(ui.user, route) /\ GateOpen(route)

FirstAccessibleRoute(routes) ==
  LET open == {i \in DOMAIN routes : ItemAllowed(routes[i])} IN
  IF open = {} THEN "profile" ELSE routes[CHOOSE i \in open : \A j \in open : i <= j].href

\* Slip: the copies of localStorage go, what useSWR holds stays.
ClearStorageOnly(fields) == [fields EXCEPT !.cached = [u \in Users |-> NoFlags], !.error = FALSE]

\* clearSwrCache: nothing of the former user stays, and an answer to one of
\* their questions is dropped (external).
ClearSwrCache(fields) ==
  [fields EXCEPT !.cached = [u \in Users |-> NoFlags], !.flags = NoFlags,
                 !.asked = FALSE, !.error = FALSE]

----------------------------------------------------------------------------

LogIn(u) ==
  /\ ui.user = NoUser
  /\ Click([ClearSwrCache(ui) EXCEPT !.user = u, !.asked = TRUE, !.route = "dashboard", !.dismissed = FALSE])

\* The layout sends whoever is not signed in to /login.
LogOut ==
  ui.user # NoUser /\ Click([ClearSwrCache(ui) EXCEPT !.user = NoUser, !.route = "login", !.drawer = FALSE])

\* A reload forgets what useSWR holds; refresh() finds the same user.
ReloadBrowser ==
  ui.user # NoUser /\
  Click([ui EXCEPT !.flags = NoFlags, !.asked = TRUE, !.error = FALSE, !.collapsed = FALSE,
           !.drawer = FALSE, !.dismissed = FALSE])

\* The window has the focus again.
Revalidate == ui.user # NoUser /\ ~ui.asked /\ Click([ui EXCEPT !.asked = TRUE])

FlagsArrive ==
  /\ ui.asked /\ ui.user # NoUser
  /\ Render([ui EXCEPT !.flags = server.plans[ui.user], !.flagsOf = ui.user, !.asked = FALSE, !.error = FALSE,
               !.cached[ui.user] = server.plans[ui.user]])
FlagsFail == ui.asked /\ ui.user # NoUser /\ Click([ui EXCEPT !.asked = FALSE, !.error = TRUE])

\* The administrator gives the organisation another plan.
PlanChanges ==
  \E u \in Users, p \in PlanSets :
    /\ clicks > 0 /\ clicks' = clicks - 1
    /\ server' = [server EXCEPT !.plans[u] = p]
    /\ UNCHANGED <<shown, fetching, reading, writes, ui>>

\* A click on an item of the sidebar closes the drawer of small screens.
Visible == {i \in DOMAIN NAV : ItemAllowed(NAV[i])}
FollowItem == \E i \in Visible : Click([ui EXCEPT !.route = NAV[i].href, !.drawer = FALSE])
ToggleDrawer == ui.user # NoUser /\ Click([ui EXCEPT !.drawer = ~@])
Collapse == ui.user # NoUser /\ Click([ui EXCEPT !.collapsed = ~@])
DismissTrialBanner == ui.user # NoUser /\ ~ui.dismissed /\ Click([ui EXCEPT !.dismissed = TRUE])

\* The page /dashboard goes on to the first page that opens when its plan does
\* not have the overview, and waits while it does not know.
RedirectTo ==
  IF ~IsLoading /\ ~HasFeature("dashboard_overview") THEN FirstAccessibleRoute(NAV) ELSE "dashboard"
Redirect ==
  ui.user # NoUser /\ ui.route = "dashboard" /\ RedirectTo # "dashboard" /\
  Render([ui EXCEPT !.route = RedirectTo])

AccessNext ==
  \/ \E u \in Users : LogIn(u)
  \/ LogOut \/ ReloadBrowser \/ Revalidate \/ FlagsArrive \/ FlagsFail \/ PlanChanges
  \/ FollowItem \/ ToggleDrawer \/ Collapse \/ DismissTrialBanner \/ Redirect

----------------------------------------------------------------------------
(* Properties *)

\* An item that is shown leads to a page that opens: lib/nav.ts and the gates in
\* the pages name the same features.
ItemsOpen == \A i \in Visible : Opens(NAV[i].href)

\* Whoever lands on /dashboard is taken to a page that opens, whatever the
\* plan, the role and the state of the flags.
LandingOpens == ui.user # NoUser => Opens(FirstAccessibleRoute(NAV))

\* The flags a user is judged by were served for that user.
OwnFlags == ui.user # NoUser /\ ui.flags # NoFlags => ui.flagsOf = ui.user

AccessAgrees == ItemsOpen /\ LandingOpens /\ OwnFlags
=============================================================================
