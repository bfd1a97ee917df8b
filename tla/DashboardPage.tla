---------------------------- MODULE DashboardPage ----------------------------
(***************************************************************************)
(* What the pages of the dashboard share.  A page shows lists that useSWR  *)
(* keeps (external), keeps its own state in useState, and writes through   *)
(* axios handlers: a click sends a request, the server serves it or        *)
(* refuses it, and the rest of the handler runs when the answer is back,   *)
(* with what it captured at the click.  Several may be on their way and    *)
(* they overtake each other.  mutate(key) asks for a list again; the       *)
(* answer to an older question is then dropped.                            *)
(*                                                                         *)
(* A module EXTENDS this one per page; its actions are these, with the     *)
(* page's own state, requests and lists as arguments.                      *)
(***************************************************************************)
EXTENDS Integers, SequencesExt

CONSTANT MaxWrites  \* bound: requests on their way

VARIABLES
  server,   \* the tables of the API
  shown,    \* data of useSWR, by table
  fetching, \* the latest question for a table: "no", "asked" or "read"
  reading,  \* what the server read for it
  writes,   \* handlers that wait for an answer
  ui,       \* the useState fields of the page
  clicks    \* bound: what the user still does on this page

pageVars == <<server, shown, fetching, reading, writes, ui, clicks>>

Tables == DOMAIN server

\* The page is open and its lists have arrived; clicks is left to the caller.
PageInit(tables, fields) ==
  /\ server = tables /\ shown = tables /\ reading = tables
  /\ fetching = [t \in DOMAIN tables |-> "no"]
  /\ writes = <<>> /\ ui = fields

Ask(stale) == fetching' = [t \in Tables |-> IF t \in stale THEN "asked" ELSE fetching[t]]

\* The user does something that stays in the page.
Click(fields) ==
  /\ clicks > 0 /\ clicks' = clicks - 1
  /\ ui' = fields
  /\ UNCHANGED <<server, shown, fetching, reading, writes>>

\* A render or an effect of it, which no request and no user is part of.
Render(fields) ==
  ui' = fields /\ UNCHANGED <<server, shown, fetching, reading, writes, clicks>>

\* A handler up to its await: r is the request and what the closure keeps;
\* awaits: it also awaits the lists it asks for again.
Post(r, awaits, fields) ==
  /\ clicks > 0 /\ clicks' = clicks - 1
  /\ Len(writes) < MaxWrites
  /\ writes' = Append(writes, [req |-> r, awaits |-> awaits, at |-> "sent", ok |-> TRUE])
  /\ ui' = fields
  /\ UNCHANGED <<server, shown, fetching, reading>>

Send(r, fields) == Post(r, FALSE, fields)
SendAwaiting(r, fields) == Post(r, TRUE, fields)

\* The server commits the request, or refuses it; it must refuse what it does
\* not allow.  Left out: a commit whose answer is lost, which the handler takes
\* for a refusal, so that it asks for no list.
ServeAllowed(Allowed(_), Effect(_)) ==
  /\ \E i \in DOMAIN writes, ok \in BOOLEAN :
       /\ writes[i].at = "sent" /\ (ok => Allowed(writes[i].req))
       /\ writes' = [writes EXCEPT ![i].at = "served", ![i].ok = ok]
       /\ server' = IF ok THEN Effect(writes[i].req) ELSE server
  /\ UNCHANGED <<shown, fetching, reading, ui, clicks>>

Always(q) == TRUE
Serve(Effect(_)) == ServeAllowed(Always, Effect)

\* await mutate(): the lists are asked for before the rest of the handler.
Reload(Stale(_, _)) ==
  /\ \E i \in DOMAIN writes :
       /\ writes[i].at = "served" /\ writes[i].ok /\ writes[i].awaits
       /\ writes' = [writes EXCEPT ![i].at = "reloading"]
       /\ Ask(Stale(writes[i].req, TRUE))
  /\ UNCHANGED <<server, shown, reading, ui, clicks>>

\* The handler after its last await: Fields is the page's state, Stale the
\* lists it asks for again.
Answered(Fields(_, _), Stale(_, _)) ==
  /\ \E i \in DOMAIN writes :
       LET w == writes[i]
           lists == Stale(w.req, w.ok) IN
       /\ \/ w.at = "served" /\ ~(w.ok /\ w.awaits) /\ Ask(lists)
          \/ w.at = "reloading" /\ (\A t \in lists : fetching[t] = "no") /\ Ask({})
       /\ writes' = RemoveAt(writes, i)
       /\ ui' = Fields(w.req, w.ok)
  /\ UNCHANGED <<server, shown, reading, clicks>>

FetchRead(t) ==
  /\ fetching[t] = "asked"
  /\ fetching' = [fetching EXCEPT ![t] = "read"]
  /\ reading' = [reading EXCEPT ![t] = server[t]]
  /\ UNCHANGED <<server, shown, writes, ui, clicks>>

\* useSWR keeps its object when nothing changed; when something did, the
\* page's effects on it run (Arrived).
FetchShown(t, Arrived(_)) ==
  /\ fetching[t] = "read"
  /\ fetching' = [fetching EXCEPT ![t] = "no"]
  /\ shown' = [shown EXCEPT ![t] = reading[t]]
  /\ ui' = IF reading[t] = shown[t] THEN ui ELSE Arrived(t)
  /\ UNCHANGED <<server, reading, writes, clicks>>

NoEffect(t) == ui

\* Steps of the server and of useSWR, on every page.
Background(Effect(_), Fields(_, _), Stale(_, _), Arrived(_)) ==
  \/ Serve(Effect) \/ Reload(Stale) \/ Answered(Fields, Stale)
  \/ \E t \in Tables : FetchRead(t) \/ FetchShown(t, Arrived)

----------------------------------------------------------------------------
(* Properties of every page *)

Pending(P(_)) == \E i \in DOMAIN writes : P(writes[i].req)
Quiet == writes = <<>> /\ \A t \in Tables : fetching[t] = "no"

\* A page at rest shows what the server holds: every handler asks again for each
\* list its request changed, and no
\* answer to an older question stays.
PageSettles == Quiet => shown = server
=============================================================================
