--------------------------- MODULE Billing_proofs ---------------------------
(***************************************************************************)
(* Proofs about Billing for any number of subscriptions, events, prices    *)
(* and overlapping requests.                                               *)
(***************************************************************************)
EXTENDS Billing, TLAPS

\* What a pending request holds, by what it does.
RequestsHold ==
  \A r \in Reqs :
    /\ req[r].do \in {"upsert", "deleted"} => req[r].event \in Event /\ req[r].row \in Row
    /\ Pending(r, "upsert") => req[r].event.plan \in Prices /\ req[r].event.standing # "canceled"
    /\ Pending(r, "edit") => req[r].set \in OrgPlan /\ req[r].plan \in OrgPlan

\* An event that opens access was issued for a subscription in good standing.
EventsBacked ==
  /\ \A e \in owed : e.kind = "upsert" =>
       /\ e.plan \in Prices /\ e.standing # "canceled"
       /\ Opens(e.standing) => granted # {}
  /\ \A r \in Reqs : Pending(r, "upsert") /\ Opens(req[r].event.standing) => granted # {}

\* Until Stripe has reported a subscription in good standing, the status leaves
\* "trialing" once, with the first event that commits, and only an administrator
\* pairs "trialing" with a plan that is not the trial.
StatusBacked ==
  /\ row.status = "active" => granted # {}
  /\ granted = {} =>
       \A r \in Reqs : req[r].row.status \in SubscriptionStatus \ {"trialing"} => row.status # "trialing"
  /\ granted = {} /\ ~edited /\ row.status = "trialing" => plan = "trial"

BillingInv == BTypeOK /\ RequestsHold /\ EventsBacked /\ StatusBacked

USE BillingAssumption

LEMMA InvInit == Init => BillingInv
<1> SUFFICES ASSUME Init PROVE BillingInv
  OBVIOUS
<1>1. Idle \in Requests
  BY DEF Idle, Requests, NoRow, NoEvent, Unread
<1>2. row \in Row
  BY DEF Init, Row, SubscriptionPlan, SubscriptionStatus
<1>3. BTypeOK
  <2>1. plan \in OrgPlan /\ trial \in BOOLEAN /\ edited \in BOOLEAN /\ inOrder \in BOOLEAN
    BY Zenon DEF Init, OrgPlan, SubscriptionPlan
  <2>2. issued \in 0..MaxEvents /\ owed \in SUBSET Event /\ granted \in SUBSET Subs
    BY DEF Init
  <2>3. latest \in Subs \cup {NoSub}
    BY DEF Init
  <2>4. standing \in [Subs -> Standing \cup {"none"}] /\ req \in [Reqs -> Requests]
    BY <1>1 DEF Init
  <2> QED  BY <1>2, <2>1, <2>2, <2>3, <2>4 DEF BTypeOK
<1>4. RequestsHold /\ EventsBacked /\ StatusBacked
  BY DEF Init, RequestsHold, EventsBacked, StatusBacked, Pending, Idle, NoRow, Unread, SubscriptionStatus
<1> QED  BY <1>3, <1>4 DEF BillingInv

LEMMA InvIssue ==
  ASSUME BillingInv, NEW s \in Subs, NEW kind \in {"upsert", "deleted"},
         NEW st \in Standing, NEW p \in Prices \cup {"none"},
         kind = "upsert" => p \in Prices /\ st # "canceled",
         Issue(s, kind, st, p)
  PROVE  BillingInv'
<1> DEFINE e == [n |-> issued + 1, kind |-> kind, sub |-> s, plan |-> p, standing |-> st]
<1> USE DEF BillingInv, BTypeOK
<1>1. issued' = issued + 1 /\ issued < MaxEvents /\ owed' = owed \cup {e}
  BY DEF Issue
<1>2. e \in Event /\ issued' \in 0..MaxEvents
  BY <1>1 DEF Event
<1>3. /\ standing' \in [Subs -> Standing \cup {"none"}]
      /\ latest' \in Subs \cup {NoSub} /\ granted' \in SUBSET Subs
  BY DEF Issue
<1>4. UNCHANGED <<plan, trial, row, req, edited, inOrder>>
  BY DEF Issue, app
<1>5. BTypeOK'
  BY <1>1, <1>2, <1>3, <1>4
<1>6. granted # {} => granted' # {}
  BY DEF Issue
<1>7. Opens(st) => granted' # {}
  BY DEF Issue
<1>8. RequestsHold'
  BY <1>4 DEF RequestsHold, Pending
<1>9. EventsBacked'
  BY <1>1, <1>4, <1>6, <1>7 DEF EventsBacked, Pending
<1>10. StatusBacked'
  BY <1>4, <1>6 DEF StatusBacked
<1> QED  BY <1>5, <1>8, <1>9, <1>10

\* A step of request r that only changes what the request holds.
LEMMA InvUpdate ==
  ASSUME BillingInv, NEW r \in Reqs, NEW q \in Requests, Update(r, q),
         inOrder' \in BOOLEAN,
         q.do \in {"upsert", "deleted"} => q.event \in Event /\ q.row \in Row,
         q.do = "upsert" => /\ q.event.plan \in Prices /\ q.event.standing # "canceled"
                            /\ Opens(q.event.standing) => granted # {},
         q.do = "edit" => q.set \in OrgPlan /\ q.plan \in OrgPlan,
         q.row \in {NoRow, row, req[r].row}
  PROVE  BillingInv'
<1> USE DEF BillingInv, BTypeOK
<1>1. req' = [req EXCEPT ![r] = q] /\ UNCHANGED <<app, stripe, owed, edited>>
  BY DEF Update
<1>2. req' \in [Reqs -> Requests]
  BY <1>1
<1>3. BTypeOK'
  BY <1>1, <1>2 DEF app, stripe
<1>4. RequestsHold'
  BY <1>1 DEF RequestsHold, Pending
<1>5. EventsBacked'
  BY <1>1 DEF EventsBacked, Pending, stripe
<1>6. granted = {} =>
        \A t \in Reqs : req'[t].row.status \in SubscriptionStatus \ {"trialing"} => row.status # "trialing"
  <2> SUFFICES ASSUME granted = {}, NEW t \in Reqs, req'[t].row.status \in SubscriptionStatus \ {"trialing"}
               PROVE  row.status # "trialing"
    OBVIOUS
  <2>1. CASE t # r
    BY <1>1, <2>1 DEF StatusBacked
  <2>2. CASE t = r
    BY <1>1, <2>2 DEF StatusBacked, NoRow, Unread, SubscriptionStatus
  <2> QED  BY <2>1, <2>2
<1>7. StatusBacked'
  BY <1>1, <1>6 DEF StatusBacked, app, stripe
<1> QED  BY <1>3, <1>4, <1>5, <1>7

\* A commit: what the columns become, from what was read and what is set.
LEMMA InvCommit ==
  ASSUME BillingInv, NEW r \in Reqs,
         NEW p \in OrgPlan, NEW rp \in SubscriptionPlan,
         NEW rs \in SubscriptionStatus, NEW ri \in Subs \cup {NoSub},
         Commit(r, p, rp, rs, ri),
         owed' \in SUBSET owed, edited' \in BOOLEAN,
         rs = "active" => rs = req[r].row.status \/ granted # {},
         rs # "trialing" \/ granted # {} \/ (edited' /\ rs = req[r].row.status),
         edited' \/ edited' = edited
  PROVE  BillingInv'
<1> USE DEF BillingInv, BTypeOK
<1> DEFINE read == req[r].row
<1>1. /\ plan' = Written(plan, req[r].plan, p)
      /\ row' = [plan |-> Written(row.plan, read.plan, rp),
                 status |-> Written(row.status, read.status, rs),
                 sub |-> Written(row.sub, read.sub, ri)]
      /\ req' = [req EXCEPT ![r] = Idle]
      /\ UNCHANGED <<trial, stripe, inOrder>>
  BY DEF Commit
<1>2. plan' \in OrgPlan
  BY <1>1 DEF Written
<1>3. row' \in Row
  BY <1>1 DEF Written, Row
<1>4. Idle \in Requests
  BY DEF Idle, Requests, NoRow, NoEvent, Unread
<1>5. req' \in [Reqs -> Requests]
  BY <1>1, <1>4
<1>6. BTypeOK'
  BY <1>1, <1>2, <1>3, <1>5 DEF stripe
<1>7. RequestsHold' /\ EventsBacked'
  BY <1>1 DEF RequestsHold, EventsBacked, Pending, stripe, Idle
<1>8. row'.status = IF rs # read.status THEN rs ELSE row.status
  BY <1>1 DEF Written
<1>9. row'.status = "active" => granted' # {}
  BY <1>1, <1>8 DEF StatusBacked, stripe
<1>10. granted = {} /\ rs # "trialing" => row'.status # "trialing"
  BY <1>8 DEF StatusBacked
<1>11. row.status # "trialing" /\ rs = read.status => row'.status # "trialing"
  BY <1>8
<1>12. granted = {} =>
         \A t \in Reqs : req'[t].row.status \in SubscriptionStatus \ {"trialing"} => row'.status # "trialing"
  <2> SUFFICES ASSUME granted = {}, NEW t \in Reqs, req'[t].row.status \in SubscriptionStatus \ {"trialing"}
               PROVE  row'.status # "trialing"
    OBVIOUS
  <2>1. t # r
    BY <1>1 DEF Idle, NoRow, Unread, SubscriptionStatus
  <2>2. row.status # "trialing"
    BY <1>1, <2>1 DEF StatusBacked
  <2> QED  BY <1>10, <1>11, <2>2
<1>13. granted = {} /\ ~edited' /\ row'.status = "trialing" => plan' = "trial"
  BY <1>10
<1>14. StatusBacked'
  BY <1>1, <1>9, <1>12, <1>13 DEF StatusBacked, stripe
<1> QED  BY <1>6, <1>7, <1>14

LEMMA InvStripe ==
  ASSUME BillingInv, NEW s \in Subs, StripeMoves(s)
  PROVE  BillingInv'
<1>1. CASE Cancel(s)
  BY <1>1, InvIssue DEF Cancel, Standing
<1>2. ASSUME NEW st \in Standing, NEW p \in Prices, Checkout(s, st, p)
      PROVE  BillingInv'
  BY <1>2, InvIssue DEF Checkout
<1>3. ASSUME NEW st \in Standing, NEW p \in Prices, Change(s, st, p)
      PROVE  BillingInv'
  BY <1>3, InvIssue DEF Change
<1> QED  BY <1>1, <1>2, <1>3 DEF StripeMoves

LEMMA InvDeliver ==
  ASSUME BillingInv, NEW r \in Reqs, NEW e \in owed, Deliver(r, e)
  PROVE  BillingInv'
<1> DEFINE q == [Idle EXCEPT !.do = e.kind, !.event = e, !.row = row]
<1>1. e \in Event /\ row \in Row
  BY DEF BillingInv, BTypeOK
<1>2. q \in Requests
  BY <1>1 DEF Idle, Requests, Event, Unread
<1>3. q.do = e.kind /\ q.event = e /\ q.row = row
  BY DEF Idle
<1>4. Update(r, q) /\ inOrder' \in BOOLEAN
  BY Zenon DEF Deliver, BillingInv, BTypeOK
<1>5. /\ q.do = "upsert" => e.plan \in Prices /\ e.standing # "canceled"
                            /\ (Opens(e.standing) => granted # {})
      /\ q.do # "edit"
  BY <1>1, <1>3 DEF BillingInv, EventsBacked, Event
<1> QED  BY <1>1, <1>2, <1>3, <1>4, <1>5, InvUpdate

LEMMA InvRead ==
  ASSUME BillingInv, NEW r \in Reqs, ReadOrg(r) \/ ReadRow(r)
  PROVE  BillingInv'
<1> USE DEF BillingInv, BTypeOK
<1>1. CASE ReadOrg(r)
  <2> DEFINE q == [req[r] EXCEPT !.plan = plan]
  <2>1. q \in Requests
    BY DEF Requests
  <2>2. /\ q.do = req[r].do /\ q.event = req[r].event
        /\ q.row = req[r].row /\ q.set = req[r].set /\ q.plan = plan
    BY DEF Requests
  <2>3. Update(r, q) /\ inOrder' \in BOOLEAN
    BY <1>1 DEF ReadOrg
  <2> QED
    BY <2>1, <2>2, <2>3, InvUpdate DEF RequestsHold, EventsBacked, Pending
<1>2. CASE ReadRow(r)
  <2> DEFINE q == [req[r] EXCEPT !.row = row]
  <2>1. q \in Requests
    BY DEF Requests
  <2>2. /\ q.do = req[r].do /\ q.event = req[r].event
        /\ q.row = row /\ q.set = req[r].set /\ q.plan = req[r].plan
    BY DEF Requests
  <2>3. Update(r, q) /\ inOrder' \in BOOLEAN
    BY <1>2 DEF ReadRow
  <2> QED
    BY <2>1, <2>2, <2>3, InvUpdate DEF RequestsHold, EventsBacked, Pending
<1> QED  BY <1>1, <1>2

LEMMA InvEdit ==
  ASSUME BillingInv, NEW r \in Reqs, NEW p \in Edits, Edit(r, p)
  PROVE  BillingInv'
<1> DEFINE q == [Idle EXCEPT !.do = "edit", !.set = p, !.plan = plan]
<1>1. p \in OrgPlan
  BY DEF OrgPlan, SubscriptionPlan
<1>2. plan \in OrgPlan
  BY DEF BillingInv, BTypeOK
<1>3. q \in Requests
  BY <1>1, <1>2 DEF Idle, Requests
<1>4. q.do = "edit" /\ q.set = p /\ q.plan = plan /\ q.row = NoRow
  BY DEF Idle
<1>5. Update(r, q) /\ inOrder' \in BOOLEAN
  BY Zenon DEF Edit, BillingInv, BTypeOK
<1> QED  BY <1>1, <1>2, <1>3, <1>4, <1>5, InvUpdate

LEMMA InvInterrupt ==
  ASSUME BillingInv, NEW r \in Reqs, Interrupt(r)
  PROVE  BillingInv'
<1>1. Idle \in Requests
  BY DEF Idle, Requests, NoRow, NoEvent, Unread
<1>2. Idle.do = "idle" /\ Idle.row = NoRow
  BY DEF Idle
<1>3. Update(r, Idle) /\ inOrder' \in BOOLEAN
  BY DEF Interrupt, BillingInv, BTypeOK
<1> QED  BY <1>1, <1>2, <1>3, InvUpdate

\* What the three commits set, and what they acknowledge.
LEMMA InvCommits ==
  ASSUME BillingInv, NEW r \in Reqs, UpsertCommit(r) \/ DeletedCommit(r) \/ EditCommit(r)
  PROVE  BillingInv'
<1> USE DEF BillingInv, BTypeOK, RequestsHold, Pending
<1>1. CASE UpsertCommit(r)
  <2> DEFINE e == req[r].event
  <2>1. e \in Event /\ e.plan \in Prices /\ e.standing # "canceled"
    BY <1>1 DEF UpsertCommit
  <2>2. Mapped(e.standing) \in {"active", "trialing", "past_due"}
    BY <2>1 DEF Event, Standing, Mapped
  <2>3. Mapped(e.standing) \in {"active", "trialing"} => granted # {}
    BY <1>1 DEF UpsertCommit, EventsBacked, Opens, OpenStatus
  <2>4. /\ e.plan \in OrgPlan /\ e.plan \in SubscriptionPlan
        /\ Mapped(e.standing) \in SubscriptionStatus /\ e.sub \in Subs \cup {NoSub}
    BY <2>1, <2>2 DEF OrgPlan, SubscriptionPlan, SubscriptionStatus, Event
  <2>5. Commit(r, e.plan, e.plan, Mapped(e.standing), e.sub) /\ owed' \in SUBSET owed
    BY <1>1 DEF UpsertCommit, Acknowledge
  <2>6. edited' = edited
    BY <1>1 DEF UpsertCommit
  <2> HIDE DEF e
  <2> QED  BY <2>2, <2>3, <2>4, <2>5, <2>6, InvCommit
<1>2. CASE DeletedCommit(r)
  <2> DEFINE read == req[r].row
  <2>1. read \in Row
    BY <1>2 DEF DeletedCommit
  <2>2. /\ "free" \in OrgPlan /\ read.plan \in SubscriptionPlan
        /\ "canceled" \in SubscriptionStatus /\ read.sub \in Subs \cup {NoSub}
    BY <2>1 DEF OrgPlan, SubscriptionStatus, Row
  <2>3. Commit(r, "free", read.plan, "canceled", read.sub) /\ owed' \in SUBSET owed
    BY <1>2 DEF DeletedCommit, Acknowledge
  <2>4. edited' = edited
    BY <1>2 DEF DeletedCommit
  <2> HIDE DEF read
  <2> QED  BY <2>2, <2>3, <2>4, InvCommit
<1>3. CASE EditCommit(r)
  <2> DEFINE read == req[r].row
             p == req[r].set
             rp == IF p \in SubscriptionPlan THEN p ELSE read.plan
  <2>1. p \in OrgPlan
    BY <1>3 DEF EditCommit
  <2>2. read \in Row
    BY <1>3 DEF EditCommit, Commit, HasRead, Requests
  <2>3. /\ rp \in SubscriptionPlan
        /\ read.status \in SubscriptionStatus /\ read.sub \in Subs \cup {NoSub}
    BY <2>2 DEF Row
  <2>4. Commit(r, p, rp, read.status, read.sub) /\ edited' = TRUE /\ owed' = owed
    BY <1>3 DEF EditCommit
  <2>5. read.status = req[r].row.status
    OBVIOUS
  <2> HIDE DEF read, rp, p
  <2> QED  BY <2>1, <2>3, <2>4, <2>5, InvCommit
<1> QED  BY <1>1, <1>2, <1>3

LEMMA InvNext == BillingInv /\ [Next]_vars => BillingInv'
<1> SUFFICES ASSUME BillingInv, [Next]_vars PROVE BillingInv'
  OBVIOUS
<1>1. ASSUME NEW s \in Subs, StripeMoves(s) PROVE BillingInv'
  BY <1>1, InvStripe
<1>2. ASSUME NEW r \in Reqs, Serve(r) PROVE BillingInv'
  BY <1>2, InvDeliver, InvEdit, InvRead, InvCommits, InvInterrupt DEF Serve
<1>3. ASSUME NEW b \in BOOLEAN, SetTrial(b) PROVE BillingInv'
  BY <1>3 DEF SetTrial, stripe, BillingInv, BTypeOK, RequestsHold, EventsBacked, StatusBacked, Pending
<1>4. CASE UNCHANGED vars
  BY <1>4 DEF vars, app, stripe, BillingInv, BTypeOK, RequestsHold, EventsBacked, StatusBacked, Pending
<1> QED  BY <1>1, <1>2, <1>3, <1>4 DEF Next

THEOREM InvAlways == Spec => []BillingInv
BY InvInit, InvNext, PTL DEF Spec

\* Type correctness: plans, statuses, events and what requests have read.
THEOREM BillingTypes == Spec => []BTypeOK
<1>1. BillingInv => BTypeOK
  BY DEF BillingInv
<1> QED  BY <1>1, InvAlways, PTL

\* No order, loss, repetition or overlap of webhooks opens a paid plan before
\* Stripe has reported a subscription as active, as a trial of its own or with a
\* status that status_map takes for active.
THEOREM AccessIsBought == Spec => []AccessWasBought
<1>1. BillingInv => AccessWasBought
  BY DEF BillingInv, StatusBacked, AccessWasBought, Access, OpenStatus
<1> QED  BY <1>1, InvAlways, PTL

\* A commit over what was read leaves the two copies of the plan in agreement.
LEMMA FreshCommitPairs ==
  ASSUME BillingInv, NEW r \in Reqs, Fresh(r), Paired,
         UpsertCommit(r) \/ DeletedCommit(r) \/ EditCommit(r)
  PROVE  Paired'
<1> USE DEF Fresh, Paired, Commit, Written
<1>1. CASE UpsertCommit(r)
  BY <1>1 DEF UpsertCommit
<1>2. CASE DeletedCommit(r)
  BY <1>2 DEF DeletedCommit
<1>3. CASE EditCommit(r)
  BY <1>3 DEF EditCommit, BillingInv, RequestsHold, OrgPlan
<1> QED  BY <1>1, <1>2, <1>3

\* The two copies of the plan part only when a commit overwrites something
\* that changed after it was read.
THEOREM PlansTearByRace == Spec => TornOnlyByRace
<1> DEFINE Torn == Paired /\ ~Paired' =>
                     \E r \in Reqs : ~Pending(r, "idle") /\ ~Fresh(r) /\ req'[r] = Idle
<1>1. BillingInv /\ [Next]_vars => [Torn]_vars
  <2> SUFFICES ASSUME BillingInv, Next, Paired, ~Paired'
               PROVE  \E r \in Reqs : ~Pending(r, "idle") /\ ~Fresh(r) /\ req'[r] = Idle
    OBVIOUS
  <2>1. \A s \in Subs : ~StripeMoves(s)
    BY DEF StripeMoves, Checkout, Change, Cancel, Issue, app, Paired
  <2>2. \A b \in BOOLEAN : ~SetTrial(b)
    BY DEF SetTrial, Paired
  <2>3. PICK r \in Reqs : Serve(r)
    BY <2>1, <2>2 DEF Next
  <2>4. ~(UNCHANGED app)
    BY DEF app, Paired
  <2>5. UpsertCommit(r) \/ DeletedCommit(r) \/ EditCommit(r)
    BY <2>3, <2>4 DEF Serve, Deliver, Edit, ReadRow, ReadOrg, Interrupt, Update
  <2>6. ~Fresh(r)
    BY <2>5, FreshCommitPairs
  <2>7. ~Pending(r, "idle") /\ req'[r] = Idle
    BY <2>5 DEF UpsertCommit, DeletedCommit, EditCommit, Commit, Pending, BillingInv, BTypeOK
  <2> QED  BY <2>6, <2>7
<1> QED  BY <1>1, InvAlways, PTL DEF Spec, TornOnlyByRace

----------------------------------------------------------------------------
(* What deliveries in order buy *)

\* Stripe numbers its events as it issues them.
Numbered ==
  \A e \in owed :
    /\ e.n <= issued
    /\ e.kind = "deleted" => e.standing = "canceled"
    /\ \A d \in owed : d.n = e.n => d = e

Alone == \A r, q \in Reqs : Pending(r, "idle") \/ Pending(q, "idle") \/ r = q

\* The webhook at work has the oldest event, and what it read is still so.
HoldsOldest ==
  \A r \in Reqs : Pending(r, "upsert") \/ Pending(r, "deleted") =>
    /\ req[r].event \in owed /\ req[r].event.kind = req[r].do
    /\ \A d \in owed : req[r].event.n <= d.n
    /\ req[r].row = row
    /\ req[r].plan \in {Unread, plan}

\* The plan and its status are what the last word of Stripe about s made them.
Reflects(s) ==
  IF Opens(standing[s])
  THEN plan \in Prices /\ row.status \in OpenStatus
  ELSE plan = "free" \/ (plan \in Prices /\ row.status = "past_due")

\* The newest event is still owed, or nothing is and it took effect.
LastWord ==
  \/ latest = NoSub
  \/ \E e \in owed : e.n = issued /\ e.sub = latest /\ standing[latest] = e.standing
  \/ owed = {} /\ Reflects(latest)

InOrder == Alone /\ HoldsOldest /\ LastWord
OrderInv == Numbered /\ (inOrder /\ ~edited => InOrder)

LEMMA OrderInit == Init => OrderInv
BY DEF Init, OrderInv, Numbered, InOrder, Alone, HoldsOldest, LastWord, Pending, Idle

LEMMA OrderIssue ==
  ASSUME BillingInv, OrderInv, NEW s \in Subs, NEW kind \in {"upsert", "deleted"},
         NEW st \in Standing, NEW p \in Prices \cup {"none"},
         kind = "deleted" => st = "canceled",
         Issue(s, kind, st, p)
  PROVE  OrderInv'
<1> DEFINE e == [n |-> issued + 1, kind |-> kind, sub |-> s, plan |-> p, standing |-> st]
<1>1. /\ issued' = issued + 1 /\ owed' = owed \cup {e}
      /\ standing' = [standing EXCEPT ![s] = st] /\ latest' = s
      /\ UNCHANGED <<plan, row, req, edited, inOrder>>
  BY DEF Issue, app
<1>2. issued \in Nat /\ owed \in SUBSET Event /\ standing \in [Subs -> Standing \cup {"none"}]
  BY DEF BillingInv, BTypeOK
<1>3. \A d \in owed : d.n \in Nat /\ d.n <= issued
  BY <1>2 DEF OrderInv, Numbered, Event
<1>4. Numbered'
  BY <1>1, <1>2, <1>3 DEF OrderInv, Numbered
<1>5. ASSUME inOrder, ~edited PROVE InOrder'
  <2>1. Alone'
    BY <1>1, <1>5 DEF OrderInv, InOrder, Alone, Pending
  <2>2. HoldsOldest'
    <3> SUFFICES ASSUME NEW r \in Reqs, Pending(r, "upsert") \/ Pending(r, "deleted")
                 PROVE  /\ req[r].event \in owed /\ req[r].event.kind = req[r].do
                        /\ \A d \in owed' : req[r].event.n <= d.n
                        /\ req[r].row = row /\ req[r].plan \in {Unread, plan}
      BY <1>1 DEF HoldsOldest, Pending
    <3>1. /\ req[r].event \in owed /\ req[r].event.kind = req[r].do
          /\ \A d \in owed : req[r].event.n <= d.n
          /\ req[r].row = row /\ req[r].plan \in {Unread, plan}
      BY <1>5 DEF OrderInv, InOrder, HoldsOldest
    <3>2. req[r].event.n <= e.n
      BY <1>2, <1>3, <3>1
    <3> QED  BY <1>1, <3>1, <3>2
  <2>3. e \in owed' /\ e.n = issued' /\ e.sub = latest' /\ standing'[latest'] = e.standing
    BY <1>1, <1>2
  <2>4. LastWord'
    BY <2>3 DEF LastWord
  <2> QED  BY <2>1, <2>2, <2>4 DEF InOrder
<1> QED  BY <1>1, <1>4, <1>5 DEF OrderInv

\* A step by which request r reads, starts or stops, and nothing is written.
LEMMA OrderUpdate ==
  ASSUME BillingInv, OrderInv, NEW r \in Reqs, NEW q \in Requests, Update(r, q),
         inOrder' => inOrder /\ (Pending(r, "idle") /\ q.do # "idle" => Quiescent),
         inOrder' /\ inOrder /\ ~edited /\ q.do \in {"upsert", "deleted"} =>
           /\ q.event \in owed /\ q.event.kind = q.do /\ \A d \in owed : q.event.n <= d.n
           /\ q.row = row /\ q.plan \in {Unread, plan}
  PROVE  OrderInv'
<1>1. req' = [req EXCEPT ![r] = q] /\ UNCHANGED <<plan, row, standing, issued, latest, owed, edited>>
  BY DEF Update, app, stripe
<1>2. req \in [Reqs -> Requests]
  BY DEF BillingInv, BTypeOK
<1>3. Numbered'
  BY <1>1 DEF OrderInv, Numbered
<1>4. ASSUME inOrder', ~edited PROVE InOrder'
  <2>1. inOrder /\ Alone /\ HoldsOldest /\ LastWord
    BY <1>4 DEF OrderInv, InOrder
  <2>2. Alone'
    BY <1>1, <1>2, <1>4, <2>1 DEF Alone, Pending, Quiescent
  <2>3. HoldsOldest'
    BY <1>1, <1>2, <1>4, <2>1 DEF HoldsOldest, Pending
  <2>4. LastWord'
    BY <1>1, <2>1 DEF LastWord, Reflects
  <2> QED  BY <2>2, <2>3, <2>4 DEF InOrder
<1> QED  BY <1>1, <1>3, <1>4 DEF OrderInv

LEMMA OrderReads ==
  ASSUME BillingInv, OrderInv, NEW r \in Reqs,
         \/ \E e \in owed : Deliver(r, e)
         \/ \E p \in Edits : Edit(r, p)
         \/ ReadRow(r) \/ ReadOrg(r) \/ Interrupt(r)
  PROVE  OrderInv'
<1> USE DEF BillingInv, BTypeOK
<1>1. ASSUME NEW e \in owed, Deliver(r, e) PROVE OrderInv'
  <2> DEFINE q == [Idle EXCEPT !.do = e.kind, !.event = e, !.row = row]
  <2>1. e \in Event /\ row \in Row
    OBVIOUS
  <2>2. q \in Requests
    BY <2>1 DEF Idle, Requests, Event, Unread
  <2>3. q.do = e.kind /\ q.event = e /\ q.row = row /\ q.plan = Unread
    BY DEF Idle
  <2>4. Update(r, q) /\ inOrder' = (inOrder /\ Quiescent /\ \A d \in owed : e.n <= d.n)
    BY <1>1, Zenon DEF Deliver
  <2> HIDE DEF q
  <2> QED  BY <2>2, <2>3, <2>4, OrderUpdate
<1>2. ASSUME NEW p \in Edits, Edit(r, p) PROVE OrderInv'
  <2> DEFINE q == [Idle EXCEPT !.do = "edit", !.set = p, !.plan = plan]
  <2>1. p \in OrgPlan /\ plan \in OrgPlan
    BY DEF OrgPlan, SubscriptionPlan
  <2>2. q \in Requests /\ q.do = "edit"
    BY <2>1 DEF Idle, Requests
  <2>3. Update(r, q) /\ inOrder' = (inOrder /\ Quiescent)
    BY <1>2, Zenon DEF Edit
  <2> HIDE DEF q
  <2> QED  BY <2>2, <2>3, OrderUpdate
<1>3. CASE ReadRow(r)
  <2> DEFINE q == [req[r] EXCEPT !.row = row]
  <2>1. q \in Requests /\ q.do = "edit"
    BY <1>3 DEF Requests, ReadRow, Pending
  <2>2. Update(r, q) /\ inOrder' = inOrder /\ ~Pending(r, "idle")
    BY <1>3 DEF ReadRow, Pending
  <2> HIDE DEF q
  <2> QED  BY <2>1, <2>2, OrderUpdate
<1>4. CASE ReadOrg(r)
  <2> DEFINE q == [req[r] EXCEPT !.plan = plan]
  <2>1. q \in Requests /\ q.do = req[r].do /\ q.event = req[r].event /\ q.row = req[r].row /\ q.plan = plan
    BY DEF Requests
  <2>2. /\ Update(r, q) /\ inOrder' = inOrder
        /\ Pending(r, "upsert") \/ Pending(r, "deleted")
    BY <1>4 DEF ReadOrg
  <2> HIDE DEF q
  <2>3. ~Pending(r, "idle")
    BY <2>2 DEF Pending
  <2>4. inOrder /\ ~edited => q.event \in owed /\ q.event.kind = q.do /\ (\A d \in owed : q.event.n <= d.n) /\ q.row = row
    BY <2>1, <2>2 DEF OrderInv, InOrder, HoldsOldest
  <2> QED  BY <2>1, <2>2, <2>3, <2>4, OrderUpdate
<1>5. CASE Interrupt(r)
  <2>1. Idle \in Requests /\ Idle.do = "idle"
    BY DEF Idle, Requests, NoRow, NoEvent, Unread
  <2>2. Update(r, Idle) /\ inOrder' = inOrder
    BY <1>5 DEF Interrupt
  <2> QED  BY <2>1, <2>2, OrderUpdate
<1> QED  BY <1>1, <1>2, <1>3, <1>4, <1>5

\* The commit of a webhook: it writes what its event says, and either keeps the
\* event or acknowledges it.
LEMMA OrderWebhook ==
  ASSUME BillingInv, OrderInv, NEW r \in Reqs, UpsertCommit(r) \/ DeletedCommit(r)
  PROVE  OrderInv'
<1> DEFINE e == req[r].event
<1> USE DEF BillingInv, BTypeOK
<1>1. /\ req' = [req EXCEPT ![r] = Idle] /\ req \in [Reqs -> Requests] /\ Idle.do = "idle"
      /\ UNCHANGED <<issued, standing, latest, inOrder, edited>>
  BY DEF UpsertCommit, DeletedCommit, Commit, stripe, Idle
<1>2. (owed' = owed \/ owed' = owed \ {e}) /\ e \in Event
  BY DEF UpsertCommit, DeletedCommit, Acknowledge, RequestsHold, Pending
<1>3. Numbered'
  BY <1>1, <1>2 DEF OrderInv, Numbered
<1>4. ASSUME inOrder, ~edited PROVE InOrder'
  <2>1. Alone /\ HoldsOldest /\ LastWord
    BY <1>4 DEF OrderInv, InOrder
  <2>2. Pending(r, "upsert") \/ Pending(r, "deleted")
    BY DEF UpsertCommit, DeletedCommit
  <2>3. /\ e \in owed /\ e.kind = req[r].do /\ \A d \in owed : e.n <= d.n
        /\ req[r].row = row /\ req[r].plan = plan
    BY <2>1, <2>2 DEF HoldsOldest, UpsertCommit, DeletedCommit, Commit, HasRead
  <2>4. Alone' /\ HoldsOldest'
    BY <1>1, <2>1, <2>2 DEF Alone, HoldsOldest, Pending
  <2>5. \/ Opens(e.standing) /\ plan' \in Prices /\ row'.status \in OpenStatus
        \/ ~Opens(e.standing) /\ (plan' = "free" \/ (plan' \in Prices /\ row'.status = "past_due"))
    <3>1. CASE UpsertCommit(r)
      <4>1. e.plan \in Prices /\ e.standing # "canceled" /\ e.standing \in Standing
        BY <3>1, <1>2 DEF UpsertCommit, RequestsHold, Event
      <4>2. Mapped(e.standing) \in {"active", "trialing", "past_due"}
        BY <4>1 DEF Standing, Mapped
      <4>3. plan' = e.plan /\ row'.status = Mapped(e.standing)
        BY <2>3, <3>1 DEF UpsertCommit, Commit, Written
      <4> QED  BY <4>1, <4>2, <4>3 DEF Opens, OpenStatus
    <3>2. CASE DeletedCommit(r)
      <4>1. plan' = "free"
        BY <2>3, <3>2 DEF DeletedCommit, Commit, Written
      <4>2. e.kind = "deleted"
        BY <2>3, <3>2 DEF DeletedCommit, Pending
      <4>3. ~Opens(e.standing)
        BY <2>3, <4>2 DEF OrderInv, Numbered, Mapped, Opens, OpenStatus
      <4> QED  BY <4>1, <4>3
    <3> QED  BY <3>1, <3>2
  <2>6. LastWord'
    <3> DEFINE Newest(d) == d.n = issued /\ d.sub = latest /\ standing[latest] = d.standing
    <3>1. CASE latest = NoSub \/ \E d \in owed' : Newest(d)
      BY <1>1, <3>1 DEF LastWord
    <3>2. CASE latest # NoSub /\ ~ \E d \in owed' : Newest(d)
      <4>1. PICK d \in owed : Newest(d)
        BY <2>1, <2>3, <3>2 DEF LastWord
      <4>2. d = e /\ owed' = owed \ {e}
        BY <1>2, <3>2, <4>1
      <4>3. owed' = {}
        <5> SUFFICES ASSUME NEW c \in owed PROVE c = e
          BY <4>2
        <5>1. c.n \in Nat /\ c.n <= issued /\ issued \in Nat /\ e.n <= c.n /\ e.n = issued
          BY <2>3, <4>1, <4>2 DEF OrderInv, Numbered, Event
        <5> QED  BY <2>3, <5>1 DEF OrderInv, Numbered
      <4>4. Reflects(latest)'
        BY <1>1, <2>5, <4>1, <4>2 DEF Reflects
      <4> QED  BY <4>3, <4>4 DEF LastWord
    <3> QED  BY <3>1, <3>2
  <2> QED  BY <2>4, <2>6 DEF InOrder
<1> QED  BY <1>1, <1>3, <1>4 DEF OrderInv

LEMMA OrderNext == BillingInv /\ OrderInv /\ [Next]_vars => OrderInv'
<1> SUFFICES ASSUME BillingInv, OrderInv, [Next]_vars PROVE OrderInv'
  OBVIOUS
<1>1. ASSUME NEW s \in Subs, StripeMoves(s) PROVE OrderInv'
  <2>1. CASE Cancel(s)
    BY <2>1, OrderIssue DEF Cancel, Standing
  <2>2. ASSUME NEW st \in Standing, NEW p \in Prices, Checkout(s, st, p) \/ Change(s, st, p)
        PROVE  OrderInv'
    BY <2>2, OrderIssue DEF Checkout, Change
  <2> QED  BY <1>1, <2>1, <2>2 DEF StripeMoves
<1>2. ASSUME NEW r \in Reqs, Serve(r) PROVE OrderInv'
  <2>1. CASE EditCommit(r)
    BY <2>1 DEF EditCommit, Commit, stripe, OrderInv, Numbered
  <2> QED  BY <1>2, <2>1, OrderReads, OrderWebhook DEF Serve
<1>3. ASSUME NEW b \in BOOLEAN, SetTrial(b) PROVE OrderInv'
  BY <1>3 DEF SetTrial, stripe, OrderInv, Numbered, InOrder, Alone, HoldsOldest, LastWord,
              Reflects, Pending
<1>4. CASE UNCHANGED vars
  BY <1>4 DEF vars, app, stripe, OrderInv, Numbered, InOrder, Alone, HoldsOldest, LastWord,
              Reflects, Pending
<1> QED  BY <1>1, <1>2, <1>3, <1>4 DEF Next

\* Webhooks delivered in order leave the gate open exactly when the subscription
\* of which Stripe spoke last is active or in a trial (as status_map sees it),
\* beside any other subscriptions, and whatever is interrupted, repeated or left
\* unacknowledged on the way.
THEOREM OrderSettlesAccess == Spec => []SettledAccess
<1>1. BillingInv /\ OrderInv => SettledAccess
  <2> SUFFICES ASSUME OrderInv, owed = {}, inOrder, ~edited, latest # NoSub
               PROVE  Access <=> Opens(standing[latest])
    BY DEF SettledAccess, Quiet
  <2>1. Reflects(latest)
    BY DEF OrderInv, InOrder, LastWord
  <2>2. plan \in Prices => plan \notin {"trial", "free"}
    OBVIOUS
  <2> QED  BY <2>1, <2>2 DEF Reflects, Access, OpenStatus
<1> QED  BY <1>1, InvInit, InvNext, OrderInit, OrderNext, PTL DEF Spec
=============================================================================
