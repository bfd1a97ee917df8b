----------------------------- MODULE AccountPages -----------------------------
(***************************************************************************)
(* Four small pages, each open alone: billing, profile and feedback, and   *)
(* the notes about a charger's users (UserDetailDrawer on usuarios).       *)
(***************************************************************************)
EXTENDS DashboardPage

CONSTANTS
  PlanIds,  \* plans for sale
  NoPlan,   \* loadingPlan is null
  Drivers,  \* users of the chargers
  NoDriver  \* the drawer is closed

----------------------------------------------------------------------------
(* billing/page.tsx: the owner leaves for Stripe; the subscription changes *)
(* when the webhook arrives                                                *)

BillingPageInit ==
  PageInit([sub |-> [plan |-> NoPlan, customer |-> FALSE]],
    [loadingPlan |-> NoPlan, loadingPortal |-> FALSE, at |-> "page", toast |-> FALSE, bought |-> NoPlan])

HandleCheckout(p) ==
  /\ ui.at = "page" /\ shown.sub.plan # p /\ ui.loadingPlan = NoPlan
  /\ Send([op |-> "checkout", plan |-> p], [ui EXCEPT !.loadingPlan = p])
HandlePortal ==
  /\ ui.at = "page" /\ shown.sub.customer /\ ~ui.loadingPortal
  /\ Send([op |-> "portal"], [ui EXCEPT !.loadingPortal = TRUE])

\* Stripe sends the browser back, to ?success=1 or ?canceled=1; the page is new.
ReturnFromStripe(paid) ==
  /\ ui.at \in {"checkout", "portal"} /\ (paid => ui.at = "checkout")
  /\ ui' = [ui EXCEPT !.at = "page", !.loadingPlan = NoPlan, !.loadingPortal = FALSE, !.toast = paid,
                      !.bought = IF paid THEN ui.loadingPlan ELSE @]
  /\ writes' = <<>>
  /\ Ask({"sub"}) /\ UNCHANGED <<server, shown, reading, clicks>>

\* The webhook (Billing) changes the row; the page asks again on focus.
Webhook ==
  /\ ui.bought # NoPlan /\ server.sub.plan # ui.bought
  /\ server' = [server EXCEPT !.sub = [plan |-> ui.bought, customer |-> TRUE]]
  /\ UNCHANGED <<shown, fetching, reading, writes, ui, clicks>>
Focus ==
  /\ ui.at = "page" /\ clicks > 0 /\ clicks' = clicks - 1
  /\ Ask({"sub"}) /\ UNCHANGED <<server, shown, reading, writes, ui>>

\* Success leaves the flag as it is: the page is left.
BillingFields(q, ok) ==
  CASE ok -> [ui EXCEPT !.at = q.op]
    [] ~ok /\ q.op = "checkout" -> [ui EXCEPT !.loadingPlan = NoPlan]
    [] ~ok /\ q.op # "checkout" -> [ui EXCEPT !.loadingPortal = FALSE]

BillingPageNext ==
  \/ \E p \in PlanIds : HandleCheckout(p)
  \/ HandlePortal \/ Webhook \/ Focus \/ \E paid \in BOOLEAN : ReturnFromStripe(paid)

----------------------------------------------------------------------------
(* profile/page.tsx: name, password and the organisation's logo *)

ProfileInit ==
  PageInit([me |-> "old", org |-> "none"],
    [name |-> "old", nameLoading |-> FALSE, current |-> FALSE, new |-> "", confirm |-> "",
     pwLoading |-> FALSE, uploadingLogo |-> FALSE, signedIn |-> TRUE])

Names == {"old", "renamed"}
TypeName == \E n \in Names \ {ui.name} : Click([ui EXCEPT !.name = n])

\* The button is disabled for the name that is shown.
HandleSaveName ==
  /\ ~ui.nameLoading /\ ui.name # shown.me
  /\ SendAwaiting([op |-> "name", name |-> ui.name], [ui EXCEPT !.nameLoading = TRUE])

\* passwordValid, and twice the same.
TypePassword ==
  \E p \in {"", "second"}, q \in {"", "second"} :
    <<p, q>> # <<ui.new, ui.confirm>>
      /\ Click([ui EXCEPT !.current = TRUE, !.new = p, !.confirm = q])
HandleChangePassword ==
  /\ ~ui.pwLoading /\ ui.current /\ ui.new # "" /\ ui.new = ui.confirm
  /\ Send([op |-> "password", new |-> ui.new], [ui EXCEPT !.pwLoading = TRUE])

UploadLogo == ~ui.uploadingLogo /\ SendAwaiting([op |-> "logo", logo |-> "image"], [ui EXCEPT !.uploadingLogo = TRUE])
RemoveLogo == shown.org # "none" /\ SendAwaiting([op |-> "logo", logo |-> "none"], ui)

\* refresh() of AuthContext after the new name: a refused refresh or an
\* unreachable /auth/me ends the session of the page.
RefreshFails ==
  /\ \E i \in DOMAIN writes : writes[i].req.op = "name" /\ writes[i].at = "reloading"
  /\ fetching["me"] = "asked" /\ fetching' = [fetching EXCEPT !["me"] = "no"]
  /\ ui' = [ui EXCEPT !.signedIn = FALSE]
  /\ UNCHANGED <<server, shown, reading, writes, clicks>>

\* A removal clears no flag; the password fields are emptied when it is changed.
ProfileFields(q, ok) ==
  CASE q.op = "name" -> [ui EXCEPT !.nameLoading = FALSE]
    [] q.op = "password" ->
         IF ok THEN [ui EXCEPT !.pwLoading = FALSE, !.current = FALSE, !.new = "", !.confirm = ""]
         ELSE [ui EXCEPT !.pwLoading = FALSE]
    [] q.op = "logo" -> [ui EXCEPT !.uploadingLogo = @ /\ q.logo = "none"]

ProfileNext ==
  /\ ui.signedIn
  /\ TypeName \/ HandleSaveName \/ TypePassword \/ HandleChangePassword \/ UploadLogo \/ RemoveLogo \/ RefreshFails

----------------------------------------------------------------------------
(* feedback/page.tsx *)

FeedbackInit ==
  PageInit([feedback |-> {}], [title |-> "", content |-> "", submitting |-> FALSE])

Texts == {"a", "b"}
TypeFeedback ==
  \E x \in Texts : x # ui.content /\ Click([ui EXCEPT !.title = "title", !.content = x])
HandleSubmit ==
  /\ ~ui.submitting /\ ui.title # "" /\ ui.content # ""
  /\ SendAwaiting([op |-> "feedback", content |-> ui.content], [ui EXCEPT !.submitting = TRUE])

\* The fields can be typed in while the request is on its way; success empties
\* them all the same.
FeedbackFields(q, ok) ==
  IF ok THEN [title |-> "", content |-> "", submitting |-> FALSE] ELSE [ui EXCEPT !.submitting = FALSE]

----------------------------------------------------------------------------
(* UserDetailDrawer.tsx: the drawer stays mounted, whoever it shows.  noteText *)
(* "" is null; noteOf: for whom it was typed (of no use to the code)           *)

NotesInit ==
  PageInit([notes |-> [d \in Drivers |-> ""]],
    [userTag |-> NoDriver, noteText |-> "", noteOf |-> NoDriver, savingNote |-> FALSE])

OpenDriver(d) == ui.userTag = NoDriver /\ Click([ui EXCEPT !.userTag = d])
CloseDriver == ui.userTag # NoDriver /\ Click([ui EXCEPT !.userTag = NoDriver])
CurrentNote == IF ui.noteText # "" THEN ui.noteText ELSE shown.notes[ui.userTag]
TypeNote ==
  /\ ui.userTag # NoDriver
  /\ \E x \in Texts \ {CurrentNote} : Click([ui EXCEPT !.noteText = x, !.noteOf = ui.userTag])
SaveNote ==
  /\ ui.userTag # NoDriver /\ ~ui.savingNote
  /\ ui.noteText # "" /\ ui.noteText # shown.notes[ui.userTag]
  /\ SendAwaiting([op |-> "note", driver |-> ui.userTag, text |-> CurrentNote, of |-> ui.noteOf],
                  [ui EXCEPT !.savingNote = TRUE])
NotesFields(q, ok) == [ui EXCEPT !.savingNote = FALSE, !.noteText = IF ok THEN "" ELSE @]

NotesNext == (\E d \in Drivers : OpenDriver(d)) \/ CloseDriver \/ TypeNote \/ SaveNote

----------------------------------------------------------------------------
(* The server and the answers, for the four *)

AccountEffect(q) ==
  CASE q.op = "name" -> [server EXCEPT !.me = q.name]
    [] q.op = "logo" -> [server EXCEPT !.org = q.logo]
    [] q.op = "feedback" -> [server EXCEPT !.feedback = @ \cup {q.content}]
    [] q.op = "note" -> [server EXCEPT !.notes[q.driver] = q.text]
    [] OTHER -> server

AccountFields(q, ok) ==
  CASE q.op \in {"checkout", "portal"} -> BillingFields(q, ok)
    [] q.op \in {"name", "password", "logo"} -> ProfileFields(q, ok)
    [] q.op = "feedback" -> FeedbackFields(q, ok)
    [] q.op = "note" -> NotesFields(q, ok)

AccountStale(q, ok) ==
  IF ~ok THEN {}
  ELSE CASE q.op \in {"checkout", "portal", "password"} -> {}
         [] q.op = "name" -> {"me"}
         [] q.op = "logo" -> {"org"}
         [] q.op = "feedback" -> {"feedback"}
         [] q.op = "note" -> {"notes"}

AccountBackground == Background(AccountEffect, AccountFields, AccountStale, NoEffect)

----------------------------------------------------------------------------
(* Properties *)

\* The plan that is being bought keeps the buttons disabled only while a request
\* waits or the browser is at Stripe.
BillingBusyReturns ==
  /\ ui.loadingPlan # NoPlan => ui.at # "page" \/ Pending(LAMBDA q : q.op = "checkout")
  /\ ui.loadingPortal => ui.at # "page" \/ Pending(LAMBDA q : q.op = "portal")

ProfileBusyReturns ==
  /\ ui.nameLoading => Pending(LAMBDA q : q.op = "name")
  /\ ui.pwLoading => Pending(LAMBDA q : q.op = "password")
  /\ ui.uploadingLogo => Pending(LAMBDA q : q.op = "logo")

SmallFormsReturn ==
  /\ "submitting" \in DOMAIN ui => (ui.submitting => writes # <<>>)
  /\ "savingNote" \in DOMAIN ui => (ui.savingNote => writes # <<>>)

\* What the profile shows at rest is what was saved, unless its session ended.
ProfileSettles == ui.signedIn => PageSettles

\* "Assinatura ativada com sucesso!" (billing/page.tsx:60).
ToastMeansActive == ui.toast => server.sub.plan = ui.bought

\* "Adicione notas sobre este usuário..." (UserDetailDrawer.tsx:206): the text
\* that is saved for a user was typed for that user.
NoteIsOfItsUser == ~Pending(LAMBDA q : q.op = "note" /\ q.of # q.driver)
=============================================================================
