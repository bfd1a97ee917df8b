------------------------------ MODULE AuthPages ------------------------------
(***************************************************************************)
(* The pages outside the dashboard: login, register, forgot-password,      *)
(* reset-password, accept-invite and verify-email.  A code typed into the  *)
(* registration is looked up half a second after the last key; the answers *)
(* of several questions come back in any order.  One page is open at a     *)
(* time, and it is left only when its requests have been answered.         *)
(***************************************************************************)
EXTENDS DashboardPage

CONSTANTS
  InviteOf,  \* organisation each invitation token is for
  OrgCodes,  \* codes that found an organisation
  NoCode     \* no code: a field shorter than 16 characters, a link without token

Invitations == DOMAIN InviteOf
Company == "a new name"
NoName == ""   \* an empty field

\* auth.py: an account is kept under the code that made it.
Answer(code) ==
  [about |-> code, checking |-> FALSE,
   valid |-> code \notin DOMAIN server.accounts,
   type  |-> CASE code \in DOMAIN server.accounts -> "none"
               [] code \in Invitations \ DOMAIN server.accounts -> "invitation"
               [] OTHER -> "org_invite_code",
   org   |-> IF code \in Invitations \ DOMAIN server.accounts THEN InviteOf[code] ELSE NoName]
NoLookup == [about |-> NoCode, checking |-> FALSE, valid |-> FALSE, type |-> "none", org |-> NoName]
Failed(code) == [NoLookup EXCEPT !.about = code]

\* With the account that code makes: it joins whoever invited, or founds org.
WithAccount(accounts, code, org) ==
  [c \in DOMAIN accounts \cup {code} |->
     IF c \in DOMAIN accounts THEN accounts[c] ELSE IF code \in Invitations THEN InviteOf[code] ELSE org]

AuthAllowed(q) ==
  CASE q.op = "register" ->
         /\ q.code \notin DOMAIN server.accounts
         /\ q.code \in OrgCodes =>
              \A other \in DOMAIN InviteOf : InviteOf[other] # q.org
         /\ q.code \in OrgCodes => \A a \in DOMAIN server.accounts : server.accounts[a] # q.org
    [] q.op \in {"verify", "reset"} -> q.op \in server.links
    [] OTHER -> TRUE

AuthEffect(q) ==
  CASE q.op = "register" ->
         [server EXCEPT !.accounts = WithAccount(@, q.code, q.org)]
    [] q.op = "verify" -> [server EXCEPT !.links = @ \ {"verify"}, !.verified = TRUE]
    [] q.op = "reset" -> [server EXCEPT !.links = @ \ {"reset"}, !.password = "new"]
    [] q.op = "forgot" -> [server EXCEPT !.links = @ \cup {"reset"}]
    [] OTHER -> server

\* A page as it mounts: useState and useForm start over.
NewPage(at, token) ==
  [at |-> at, token |-> token, code |-> NoCode, org |-> NoName, timer |-> at = "register",
   lookup |-> NoLookup, asked |-> <<>>, invite |-> NoName, busy |-> FALSE, homing |-> FALSE,
   phase |-> "form"]

AuthInit ==
  PageInit([accounts |-> <<>>, links |-> {"verify"}, password |-> "old", verified |-> FALSE],
           NewPage("login", NoCode))

Leavable == writes = <<>> /\ ui.asked = <<>>

----------------------------------------------------------------------------
(* lookups *)

\* The effect on inviteCode 500 ms after the last change.
Question(code) == [code |-> code, answer |-> NoLookup, at |-> "sent"]
DoLookup ==
  /\ ui.at = "register" /\ ui.timer
  /\ Render(IF ui.code = NoCode THEN [ui EXCEPT !.timer = FALSE, !.lookup = NoLookup]
            ELSE [ui EXCEPT !.timer = FALSE, !.lookup.checking = TRUE,
                            !.asked = Append(@, Question(ui.code))])

LookupServed ==
  \E i \in DOMAIN ui.asked : \E a \in {Answer(ui.asked[i].code), Failed(ui.asked[i].code)} :
    ui.asked[i].at = "sent" /\ Render([ui EXCEPT !.asked[i].at = "served", !.asked[i].answer = a])

\* The invitation fills in the organisation's name.
FillOrganisation(fields, a) ==
  IF a.type = "invitation" THEN [fields EXCEPT !.org = a.org] ELSE fields

\* The answer on the registration is taken whatever is typed by then.
\* accept-invite shows its form, an error, or hands an organisation's code
\* to the registration, which does not read it from the address.
LookupAnswered ==
  \E i \in DOMAIN ui.asked :
    LET a == ui.asked[i].answer
        rest == [ui EXCEPT !.asked = RemoveAt(@, i)] IN
    /\ ui.asked[i].at = "served"
    /\ Render(CASE ui.at = "register" -> FillOrganisation([rest EXCEPT !.lookup = a], a)
                [] ui.at = "accept" /\ a.type = "org_invite_code" -> NewPage("register", ui.token)
                [] OTHER -> [rest EXCEPT !.phase = IF a.valid THEN "form" ELSE "error",
                                         !.invite = a.org])

----------------------------------------------------------------------------
(* what the user does *)

IsInvitation == ui.lookup.valid /\ ui.lookup.type = "invitation"

TypeCode(c) ==
  ui.at = "register" /\ c # ui.code /\ Click([ui EXCEPT !.code = c, !.timer = TRUE])
\* Locked while the shown lookup is an invitation.
TypeOrg ==
  /\ ui.at = "register" /\ ~IsInvitation /\ ui.org # Company
  /\ Click([ui EXCEPT !.org = Company])

\* The submit waits for a form that passes its schema, not for the lookup.
Register ==
  /\ ui.at = "register" /\ ~ui.busy /\ ui.code # NoCode /\ ui.org # NoName
  /\ Send([op |-> "register", code |-> ui.code, org |-> ui.org,
           said |-> IF IsInvitation THEN ui.lookup.org ELSE NoName],
          [ui EXCEPT !.busy = TRUE])

AcceptInvite ==
  /\ ui.at = "accept" /\ ui.phase = "form" /\ ~ui.busy
  /\ Send([op |-> "register", code |-> ui.token, org |-> ui.invite, said |-> ui.invite],
          [ui EXCEPT !.busy = TRUE])

LogInForm ==
  ui.at = "login" /\ ~ui.busy /\ Send([op |-> "login"], [ui EXCEPT !.busy = TRUE])
ForgotPassword ==
  /\ ui.at = "forgot" /\ ui.phase = "form" /\ ~ui.busy
  /\ Send([op |-> "forgot"], [ui EXCEPT !.busy = TRUE])
ResetPassword ==
  /\ ui.at = "reset" /\ ui.phase = "form" /\ ui.token # NoCode /\ ~ui.busy
  /\ Send([op |-> "reset"], [ui EXCEPT !.busy = TRUE])

\* Links between the pages, and the links of the e-mails.
GoTo(at) == Leavable /\ ui.at \notin {at, "dashboard"} /\ Click(NewPage(at, NoCode))
OpenInvite(c) ==
  Leavable /\ Click([NewPage("accept", c) EXCEPT !.phase = IF c = NoCode THEN "error" ELSE "loading",
                       !.asked = IF c = NoCode THEN <<>> ELSE <<Question(c)>>])
OpenReset(t) ==
  Leavable /\ Click([NewPage("reset", t) EXCEPT !.phase = IF t = NoCode THEN "error" ELSE "form"])
OpenVerification ==
  Leavable /\ Send([op |-> "verify"], [NewPage("verify", "link") EXCEPT !.phase = "loading"])

\* The timer of 2.5 s after a success; it is not cleared when the page is left.
GoesHome == ui.homing /\ Leavable /\ Render(NewPage("login", NoCode))

\* Someone else uses a code.
UsedElsewhere(c) ==
  /\ clicks > 0 /\ clicks' = clicks - 1
  /\ c \notin DOMAIN server.accounts
  /\ server' = [server EXCEPT !.accounts = WithAccount(@, c, "theirs")]
  /\ UNCHANGED <<shown, fetching, reading, writes, ui>>

\* Slip: the flag is cleared after the request, not in finally.
FreedOnSuccess(ok) == IF ok THEN [ui EXCEPT !.busy = FALSE] ELSE ui

\* finally { setLoading(false) }
Freed(ok) == [ui EXCEPT !.busy = FALSE]

\* The rest of each handler; a link that is refused says so for good, or may be
\* tried again (the message decides).
AuthFields(q, ok) ==
  LET free == Freed(ok) IN
  CASE q.op = "login" -> IF ok THEN NewPage("dashboard", NoCode) ELSE free
    [] q.op = "register" /\ ui.at = "register" -> IF ok THEN NewPage("login", NoCode) ELSE free
    [] (q.op = "register" /\ ui.at # "register") \/ q.op = "reset" ->
         IF ok THEN [free EXCEPT !.phase = "done", !.homing = TRUE]
         ELSE IF q.op = "reset" /\ "reset" \notin server.links
              THEN [free EXCEPT !.phase = "error"] ELSE free
    [] q.op = "forgot" -> [free EXCEPT !.phase = IF ok THEN "done" ELSE @]
    [] q.op = "verify" -> [ui EXCEPT !.phase = IF ok THEN "done" ELSE "error"]

NothingStale(q, ok) == {}

AuthNext ==
  \/ DoLookup \/ LookupServed \/ LookupAnswered
  \/ \E c \in Invitations \cup OrgCodes \cup {NoCode} : TypeCode(c) \/ OpenInvite(c)
  \/ TypeOrg \/ Register \/ AcceptInvite \/ LogInForm \/ ForgotPassword \/ ResetPassword
  \/ \E at \in {"login", "register", "forgot"} : GoTo(at)
  \/ \E t \in {"link", NoCode} : OpenReset(t)
  \/ OpenVerification \/ GoesHome
  \/ \E c \in Invitations \cup OrgCodes : UsedElsewhere(c)
  \/ ServeAllowed(AuthAllowed, AuthEffect)
  \/ Answered(AuthFields, NothingStale)

----------------------------------------------------------------------------
(* Properties *)

\* A page whose requests were all answered neither spins nor keeps its button
\* disabled.
AuthBusyReturns == Leavable => ~ui.busy /\ ~ui.lookup.checking /\ ui.phase # "loading"

\* The name that the registration locks is the one of the invitation it shows.
LockedNameIsInvited == ui.at = "register" /\ IsInvitation => ui.org = ui.lookup.org

\* What a page says was done has been done: the member joined the organisation
\* of the heading, the password is the new one, the address is verified.
DoneIsDone ==
  ui.phase = "done" =>
    /\ ui.at = "accept" => ui.token \in DOMAIN server.accounts /\ server.accounts[ui.token] = ui.invite
    /\ ui.at = "reset" => server.password = "new"
    /\ ui.at = "verify" => server.verified

\* The button of the registration says which organisation will be joined
\* (register/page.tsx:239).
JoinsWhatItSays ==
  ~Pending(LAMBDA q : q.op = "register" /\ q.said # NoName /\ (q.code \in Invitations => InviteOf[q.code] # q.said))
=============================================================================
