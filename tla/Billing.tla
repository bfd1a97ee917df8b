------------------------------- MODULE Billing -------------------------------
(***************************************************************************)
(* The plan of one organisation: Stripe's webhooks (routers/billing.py),   *)
(* the administrator's edits (routers/admin.py) and the 402 gate in front  *)
(* of the dashboards (core/deps.py).  The plan is stored twice, in         *)
(* organizations.plan and in the subscription row; a handler reads the two *)
(* one after the other, and at commit the ORM updates only the columns     *)
(* whose value differs from what it read.  register creates organisation   *)
(* and row in one transaction, so the row is always there.                 *)
(***************************************************************************)
EXTENDS Naturals

CONSTANTS
  Subs,        \* subscriptions the organisation may open at Stripe
  NoSub,
  Reqs,        \* webhook deliveries and edits that can be in flight together
  Prices,      \* plans on sale at Stripe
  Edits,       \* plans an administrator sets
  MaxEvents    \* bound on the events Stripe issues

ASSUME BillingAssumption ==
  /\ NoSub \notin Subs
  /\ Prices \subseteq {"starter", "pro"}
  /\ Edits \subseteq {"trial", "starter", "pro", "enterprise", "free"}
  /\ MaxEvents \in Nat

VARIABLES
  plan,        \* organizations.plan
  trial,       \* trial_ends_at is in the future
  row,         \* the subscription row: plan, status, stripe_subscription_id
  standing,    \* standing[s]: the status Stripe has for s
  issued,      \* events issued so far
  owed,        \* events not yet acknowledged
  req,         \* req[r]: what request r does and what it has read
  latest,      \* the subscription of the event issued last
  granted,     \* subscriptions Stripe ever reported with a status that opens access (history)
  edited,      \* an administrator has set the plan (history)
  inOrder      \* deliveries came one at a time, oldest first (history)

app == <<plan, trial, row>>
stripe == <<standing, issued, latest, granted>>
vars == <<app, stripe, owed, req, edited, inOrder>>

SubscriptionPlan == {"trial", "starter", "pro", "enterprise"}
OrgPlan == SubscriptionPlan \cup {"free"}
SubscriptionStatus == {"active", "past_due", "canceled", "trialing"}

\* What Stripe says; "unpaid" stands for every status that status_map does not list (incomplete,
\* incomplete_expired, unpaid, paused).
Standing == {"active", "trialing", "past_due", "unpaid", "canceled"}

\* Slip: the default of the map is the status a trial starts with.
MappedToTrialing(st) == IF st = "unpaid" THEN "trialing" ELSE st
Mapped(st) == IF st = "unpaid" THEN "active" ELSE st

\* The statuses of the row that let a paid plan in: a paid subscription, and a trial Stripe manages.
OpenStatus == {"active", "trialing"}
Opens(st) == Mapped(st) \in OpenStatus

Row == [plan : SubscriptionPlan, status : SubscriptionStatus, sub : Subs \cup {NoSub}]
Event == [n : 1..MaxEvents, kind : {"upsert", "deleted"}, sub : Subs,
          plan : Prices \cup {"none"}, standing : Standing]

\* What a request has not read yet.
Unread == "unread"
NoRow == [plan |-> Unread, status |-> Unread, sub |-> NoSub]
NoEvent == [n |-> 0, kind |-> "none", sub |-> NoSub, plan |-> "none", standing |-> "none"]
Idle == [do |-> "idle", event |-> NoEvent, set |-> "none", plan |-> Unread, row |-> NoRow]
Requests ==
  [do    : {"idle", "upsert", "deleted", "edit"},
   event : Event \cup {NoEvent},
   set   : OrgPlan \cup {"none"},
   plan  : OrgPlan \cup {Unread},
   row   : Row \cup {NoRow}]

Init ==
  /\ plan = "trial" /\ trial = TRUE
  /\ row = [plan |-> "trial", status |-> "trialing", sub |-> NoSub]
  /\ standing = [s \in Subs |-> "none"]
  /\ issued = 0 /\ owed = {} /\ latest = NoSub /\ granted = {}
  /\ req = [r \in Reqs |-> Idle]
  /\ edited = FALSE /\ inOrder = TRUE

\* require_active_plan, for an organisation that is not the mother.
Access ==
  \/ plan = "trial" /\ trial
  \/ plan \notin {"trial", "free"} /\ row.status \in OpenStatus

----------------------------------------------------------------------------
(* Stripe.  /checkout does not look for a subscription the organisation    *)
(* already pays, so a second one can be opened beside the first.           *)

Issue(s, kind, st, p) ==
  /\ issued < MaxEvents
  /\ issued' = issued + 1
  /\ standing' = [standing EXCEPT ![s] = st]
  /\ latest' = s
  /\ granted' = IF Opens(st) THEN granted \cup {s} ELSE granted
  /\ owed' = owed \cup {[n |-> issued + 1, kind |-> kind, sub |-> s, plan |-> p, standing |-> st]}
  /\ UNCHANGED <<app, req, edited, inOrder>>

\* The first event that reaches the webhook may already be about a failed payment.
Checkout(s, st, p) ==
  /\ standing[s] = "none" /\ st # "canceled"
  /\ Issue(s, "upsert", st, p)

Change(s, st, p) ==
  /\ standing[s] \notin {"none", "canceled"} /\ st # "canceled"
  /\ Issue(s, "upsert", st, p)

Cancel(s) ==
  /\ standing[s] \notin {"none", "canceled"}
  /\ Issue(s, "deleted", "canceled", "none")

----------------------------------------------------------------------------
(* Requests: read row and organisation in two steps, then commit. *)

Pending(r, do) == req[r].do = do
Quiescent == \A r \in Reqs : Pending(r, "idle")
Update(r, q) == req' = [req EXCEPT ![r] = q] /\ UNCHANGED <<app, stripe, owed, edited>>

\* stripe_webhook: any unacknowledged event, in any order; the row first.
Deliver(r, e) ==
  /\ Pending(r, "idle") /\ e \in owed
  /\ Update(r, [Idle EXCEPT !.do = e.kind, !.event = e, !.row = row])
  /\ inOrder' = (inOrder /\ Quiescent /\ \A d \in owed : e.n <= d.n)

ReadOrg(r) ==
  /\ (Pending(r, "upsert") \/ Pending(r, "deleted")) /\ req[r].plan = Unread
  /\ Update(r, [req[r] EXCEPT !.plan = plan])
  /\ UNCHANGED inOrder

\* update_organization_plan: the organisation first.
Edit(r, p) ==
  /\ Pending(r, "idle")
  /\ Update(r, [Idle EXCEPT !.do = "edit", !.set = p, !.plan = plan])
  /\ inOrder' = (inOrder /\ Quiescent)

ReadRow(r) ==
  /\ Pending(r, "edit") /\ req[r].row = NoRow
  /\ Update(r, [req[r] EXCEPT !.row = row])
  /\ UNCHANGED inOrder

HasRead(r) == req[r].row # NoRow /\ req[r].plan # Unread

\* The UPDATE names a column only when its new value differs from the one read.
Written(now, read, new) == IF new # read THEN new ELSE now

\* Flush and commit: new values for the columns of both tables.
Commit(r, p, rp, rs, ri) ==
  LET read == req[r].row IN
  /\ HasRead(r)
  /\ plan' = Written(plan, req[r].plan, p)
  /\ row' = [plan   |-> Written(row.plan, read.plan, rp),
             status |-> Written(row.status, read.status, rs),
             sub    |-> Written(row.sub, read.sub, ri)]
  /\ req' = [req EXCEPT ![r] = Idle]
  /\ UNCHANGED <<trial, stripe, inOrder>>

\* Stripe may miss the answer and keep the event.
Acknowledge(r) == owed' = owed \/ owed' = owed \ {req[r].event}

\* Slip: the status left as it is.
UpsertCommitKeepsStatus(r) ==
  LET e == req[r].event IN
  /\ Pending(r, "upsert")
  /\ Commit(r, e.plan, e.plan, req[r].row.status, e.sub)
  /\ Acknowledge(r)
  /\ UNCHANGED edited

UpsertCommit(r) ==
  LET e == req[r].event IN
  /\ Pending(r, "upsert")
  /\ Commit(r, e.plan, e.plan, Mapped(e.standing), e.sub)
  /\ Acknowledge(r)
  /\ UNCHANGED edited

\* Slip: access left open until the period ends.
DeletedCommitLater(r) ==
  LET read == req[r].row IN
  /\ Pending(r, "deleted")
  /\ Commit(r, req[r].plan, read.plan, read.status, read.sub)
  /\ Acknowledge(r)
  /\ UNCHANGED edited

\* The deletion does not compare the subscription with the one in the row.
DeletedCommit(r) ==
  LET read == req[r].row IN
  /\ Pending(r, "deleted")
  /\ Commit(r, "free", read.plan, "canceled", read.sub)
  /\ Acknowledge(r)
  /\ UNCHANGED edited

\* Slips: the row left alone; "free" written to both columns.
EditCommitOrgOnly(r) ==
  LET read == req[r].row IN
  /\ Pending(r, "edit")
  /\ Commit(r, req[r].set, read.plan, read.status, read.sub)
  /\ edited' = TRUE
  /\ UNCHANGED owed
EditCommitFree(r) ==
  LET read == req[r].row IN
  /\ Pending(r, "edit")
  /\ Commit(r, req[r].set, req[r].set, read.status, read.sub)
  /\ edited' = TRUE
  /\ UNCHANGED owed

\* SubscriptionPlan(body.plan) has no member "free": the row keeps its plan.
\* Its status is not touched whatever plan is set.
EditCommit(r) ==
  LET read == req[r].row  p == req[r].set IN
  /\ Pending(r, "edit")
  /\ Commit(r, p, IF p \in SubscriptionPlan THEN p ELSE read.plan, read.status, read.sub)
  /\ edited' = TRUE
  /\ UNCHANGED owed

\* An exception or a dead worker: rollback; Stripe keeps the event.
Interrupt(r) ==
  /\ ~Pending(r, "idle")
  /\ Update(r, Idle)
  /\ UNCHANGED inOrder

----------------------------------------------------------------------------
\* The fourteen days pass, or update_org_trial moves their end.
SetTrial(b) ==
  /\ trial' = b
  /\ UNCHANGED <<plan, row, stripe, owed, req, edited, inOrder>>

StripeMoves(s) ==
  \/ Cancel(s)
  \/ \E st \in Standing, p \in Prices : Checkout(s, st, p) \/ Change(s, st, p)

Serve(r) ==
  \/ \E e \in owed : Deliver(r, e)
  \/ \E p \in Edits : Edit(r, p)
  \/ ReadRow(r) \/ ReadOrg(r)
  \/ UpsertCommit(r) \/ DeletedCommit(r) \/ EditCommit(r) \/ Interrupt(r)

Next ==
  \/ \E s \in Subs : StripeMoves(s)
  \/ \E r \in Reqs : Serve(r)
  \/ \E b \in BOOLEAN : SetTrial(b)

Spec == Init /\ [][Next]_vars

----------------------------------------------------------------------------
(* Properties *)

BTypeOK ==
  /\ plan \in OrgPlan
  /\ trial \in BOOLEAN
  /\ row \in Row
  /\ standing \in [Subs -> Standing \cup {"none"}]
  /\ issued \in 0..MaxEvents
  /\ owed \in SUBSET Event
  /\ req \in [Reqs -> Requests]
  /\ latest \in Subs \cup {NoSub}
  /\ granted \in SUBSET Subs
  /\ edited \in BOOLEAN
  /\ inOrder \in BOOLEAN

\* Lost, repeated, reordered and overlapping webhooks never conjure access to a
\* paid plan: unless an administrator gave it, Stripe has reported some
\* subscription of the organisation as active, as a trial of its own, or with a
\* status that status_map takes for active (PendingPaymentBlocked is about those).
AccessWasBought == Access /\ plan # "trial" /\ ~edited => granted # {}

\* The two copies of the plan (deps.py reads one, GET /billing/subscription
\* the other) agree until a request commits over something it has not read.
Paired == plan = "free" \/ row.plan = plan
Fresh(r) == req[r].plan = plan /\ req[r].row = row
TornOnlyByRace ==
  [][Paired /\ ~Paired' => \E r \in Reqs : ~Pending(r, "idle") /\ ~Fresh(r) /\ req'[r] = Idle]_vars

Quiet == owed = {} /\ Quiescent
Started == {s \in Subs : standing[s] # "none"}

\* What in-order delivery buys: once Stripe has nothing left to say, the gate is
\* open exactly when the subscription of which it spoke last is active or in a
\* trial (as status_map sees it), whatever the other subscriptions are,
\* interrupted deliveries and events kept by Stripe included.
SettledAccess ==
  Quiet /\ inOrder /\ ~edited /\ latest # NoSub => (Access <=> Opens(standing[latest]))

\* deps.py:64: a paid plan with an active subscription is let in.  Stated for an
\* organisation whose other subscriptions, if it had any, have ended.
ActiveIsAdmitted ==
  Quiet /\ inOrder /\ ~edited /\ {standing[s] : s \in Started} \in {{"active"}, {"active", "canceled"}} => Access

\* deps.py:66: a paid plan whose subscription is canceled is answered 402.
CanceledIsBlocked ==
  Quiet /\ ~edited /\ Started # {} /\ (\A s \in Started : standing[s] = "canceled") => ~Access

\* deps.py:67: a paid plan whose payment is pending is answered 402.
PendingPaymentBlocked ==
  Quiet /\ inOrder /\ ~edited =>
    \A s \in Subs : row.sub = s /\ standing[s] \in {"past_due", "unpaid"} => ~Access
=============================================================================
