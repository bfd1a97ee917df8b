------------------------------ MODULE AdminPage ------------------------------
(***************************************************************************)
(* dashboard/admin/page.tsx: the administrator of the platform works on    *)
(* organisations, users, invitation codes, feedback and plans.             *)
(***************************************************************************)
EXTENDS DashboardPage, TLC

CONSTANTS
  Orgs,       \* organisations other than the mother organisation
  FeedbackIds,
  CodeIds,
  Nobody      \* null in the useState fields

Statuses == {"active", "blocked"}

\* One user stands for those of an organisation; a plan's fields are one value.
\* Of /admin/stats, the number of organisations: that of the active ones and of the
\* users is not asked for again when one of them is blocked.
AdminInit ==
  PageInit(
    [orgs |-> [o \in Orgs |-> [status |-> "active", plan |-> "trial", trial |-> "short"]],
     users |-> [o \in Orgs |-> [is_active |-> TRUE, is_master |-> FALSE]],
     stats |-> Cardinality(Orgs), codes |-> {}, feedback |-> [f \in FeedbackIds |-> "pending"],
     plans |-> [name |-> "old", limits |-> "old"]],
    [loadingAction |-> Nobody, editingTrial |-> Nobody, savingTrial |-> FALSE,
     responding |-> Nobody, textOf |-> Nobody, savingResponse |-> FALSE,
     creatingCode |-> FALSE, deletingAllCodes |-> FALSE,
     planEditing |-> FALSE, draft |-> [name |-> "old", limits |-> "old"], planSaving |-> FALSE])

Drop(f, x) == [k \in DOMAIN f \ {x} |-> f[k]]

\* admin.py; a request about a row that is gone is refused.
AdminEffect(q) ==
  CASE q.op = "org" /\ q.org \in DOMAIN server.orgs -> [server EXCEPT !.orgs[q.org][q.field] = q.value]
    [] q.op = "deleteOrg" ->
         [server EXCEPT !.orgs = Drop(@, q.org), !.users = Drop(@, q.org),
                        !.stats = Cardinality(DOMAIN server.orgs \ {q.org})]
    [] q.op = "user" /\ q.org \in DOMAIN server.users -> [server EXCEPT !.users[q.org][q.field] = q.value]
    [] q.op = "createCode" -> [server EXCEPT !.codes = @ \cup {q.code}]
    [] q.op = "deleteCode" -> [server EXCEPT !.codes = @ \ {q.code}]
    [] q.op = "deletePending" -> [server EXCEPT !.codes = {}]
    [] q.op \in {"feedback", "respond"} /\ q.item \in DOMAIN server.feedback ->
         [server EXCEPT !.feedback[q.item] = q.value]
    [] q.op = "deleteFeedback" -> [server EXCEPT !.feedback = Drop(@, q.item)]
    [] q.op = "plan" -> [server EXCEPT !.plans = q.draft]
    [] OTHER -> server

AdminStale(q, ok) ==
  IF ~ok THEN {}
  ELSE CASE q.op = "org" -> {"orgs"}
         [] q.op = "deleteOrg" -> {"orgs", "stats"}
         [] q.op = "user" -> {"users"}
         [] q.op \in {"createCode", "deleteCode", "deletePending"} -> {"codes"}
         [] q.op = "plan" -> {"plans"}
         [] OTHER -> {"feedback"}

\* Whatever the answer is about, it clears the one action that is remembered,
\* closes the one editor of a trial and the one reply.
AdminFields(q, ok) ==
  CASE q.op = "org" /\ q.field = "trial" ->
         [ui EXCEPT !.savingTrial = FALSE, !.editingTrial = IF ok THEN Nobody ELSE @]
    [] (q.op = "org" /\ q.field # "trial") \/ q.op \in {"deleteOrg", "user"} -> [ui EXCEPT !.loadingAction = Nobody]
    [] q.op = "createCode" -> [ui EXCEPT !.creatingCode = FALSE]
    [] q.op = "deletePending" -> [ui EXCEPT !.deletingAllCodes = FALSE]
    [] q.op = "respond" ->
         IF ok THEN [ui EXCEPT !.savingResponse = FALSE, !.responding = Nobody, !.textOf = Nobody]
         ELSE [ui EXCEPT !.savingResponse = FALSE]
    [] q.op = "plan" -> [ui EXCEPT !.planSaving = FALSE, !.planEditing = @ /\ ~ok]
    [] OTHER -> ui

----------------------------------------------------------------------------
(* Organisations and users *)

Act(action, r) ==
  ui.loadingAction # action /\ Send(r, [ui EXCEPT !.loadingAction = action])

OrgRequest(o, field, value) == [op |-> "org", org |-> o, field |-> field, value |-> value]

UpdateOrgStatus(o) ==
  \E v \in Statuses \ {shown.orgs[o].status} : Act(<<"status", o>>, OrgRequest(o, "status", v))
UpdateOrgPlan(o) ==
  \E v \in {"trial", "pro"} \ {shown.orgs[o].plan} : Act(<<"plan", o>>, OrgRequest(o, "plan", v))
DeleteOrg(o) == Act(<<"delete", o>>, [op |-> "deleteOrg", org |-> o])

OpenTrial(o) == Click([ui EXCEPT !.editingTrial = o])
CancelTrial == ui.editingTrial # Nobody /\ ~ui.savingTrial /\ Click([ui EXCEPT !.editingTrial = Nobody])
UpdateTrialDays(o) ==
  /\ ui.editingTrial = o /\ ~ui.savingTrial
  /\ Send(OrgRequest(o, "trial", "long"), [ui EXCEPT !.savingTrial = TRUE])

\* What the row shows, negated.
ToggleUser(o) ==
  \E field \in {"is_active", "is_master"} :
    Act(<<field, o>>, [op |-> "user", org |-> o, field |-> field, value |-> ~shown.users[o][field]])

----------------------------------------------------------------------------
(* Invitation codes: every handler awaits the reloaded list *)

CreateInviteCode ==
  /\ ~ui.creatingCode
  /\ \E c \in CodeIds \ server.codes :
       SendAwaiting([op |-> "createCode", code |-> c], [ui EXCEPT !.creatingCode = TRUE])

DeleteInviteCode(c) == c \in shown.codes /\ SendAwaiting([op |-> "deleteCode", code |-> c], ui)

\* The confirmation counts the pending codes the list shows.
DeleteAllPendingCodes ==
  /\ shown.codes # {} /\ ~ui.deletingAllCodes
  /\ SendAwaiting([op |-> "deletePending"], [ui EXCEPT !.deletingAllCodes = TRUE])

----------------------------------------------------------------------------
(* Feedback *)

UpdateFeedbackStatus(f) ==
  SendAwaiting([op |-> "feedback", item |-> f, value |-> "reviewed"], ui)
DeleteFeedback(f) == SendAwaiting([op |-> "deleteFeedback", item |-> f], ui)

\* "Responder" opens the reply of one item with the answer it has, or closes it.
Respond(f) ==
  Click([ui EXCEPT !.responding = IF @ = f THEN Nobody ELSE f, !.textOf = f])

\* The editor closes and the text goes before the list is asked for again.
RespondFeedback(f) ==
  /\ ui.responding = f /\ ~ui.savingResponse
  /\ Send([op |-> "respond", item |-> f, value |-> "resolved"], [ui EXCEPT !.savingResponse = TRUE])

----------------------------------------------------------------------------
(* Plans: the card edits a copy of the plan it shows and saves every field *)

StartEdit == Click([ui EXCEPT !.planEditing = TRUE, !.draft = shown.plans])
CancelEdit == ui.planEditing /\ Click([ui EXCEPT !.planEditing = FALSE])
EditDraft ==
  ui.planEditing /\ \E k \in {"name", "limits"} : Click([ui EXCEPT !.draft[k] = "new"])
SavePlan ==
  /\ ui.planEditing /\ ~ui.planSaving
  /\ Send([op |-> "plan", draft |-> ui.draft], [ui EXCEPT !.planSaving = TRUE])

AdminNext ==
  \/ \E o \in DOMAIN shown.orgs :
       UpdateOrgStatus(o) \/ UpdateOrgPlan(o) \/ DeleteOrg(o) \/ OpenTrial(o) \/ UpdateTrialDays(o)
  \/ CancelTrial
  \/ \E o \in DOMAIN shown.users : ToggleUser(o)
  \/ CreateInviteCode \/ DeleteAllPendingCodes \/ \E c \in CodeIds : DeleteInviteCode(c)
  \/ \E f \in DOMAIN shown.feedback :
       UpdateFeedbackStatus(f) \/ DeleteFeedback(f) \/ Respond(f) \/ RespondFeedback(f)
  \/ StartEdit \/ CancelEdit \/ EditDraft \/ SavePlan
  \/ Background(AdminEffect, AdminFields, AdminStale, NoEffect)

----------------------------------------------------------------------------
(* Properties *)

\* The lists of a page at rest are the server's, but for the users of an
\* organisation that was deleted: they stay until the window has the focus again.
AdminSettles ==
  Quiet => /\ \A t \in Tables \ {"users"} : shown[t] = server[t]
           /\ \A o \in DOMAIN shown.users : o \in DOMAIN shown.orgs => shown.users[o] = server.users[o]

\* The text under an item was filled in from that item, whatever closed the
\* reply that was open before.
RepliesOfTheirItem == ui.responding # Nobody => ui.textOf = ui.responding

AdminBusyReturns ==
  /\ ui.loadingAction # Nobody =>
       Pending(LAMBDA q : q.op \in {"org", "deleteOrg", "user"} /\ q.org = ui.loadingAction[2])
  /\ ui.savingTrial => Pending(LAMBDA q : q.op = "org" /\ q.field = "trial")
  /\ ui.savingResponse => Pending(LAMBDA q : q.op = "respond")
  /\ ui.creatingCode => Pending(LAMBDA q : q.op = "createCode")
  /\ ui.deletingAllCodes => Pending(LAMBDA q : q.op = "deletePending")
  /\ ui.planSaving => Pending(LAMBDA q : q.op = "plan")
=============================================================================
