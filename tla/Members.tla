------------------------------- MODULE Members -------------------------------
(***************************************************************************)
(* The people of one organisation: invitations, accounts created from      *)
(* them, roles and removals (routers/organizations.py, auth.register).     *)
(* Every handler reads and checks in one step and its transaction commits  *)
(* in another (get_db, after the handler returned), and READ COMMITTED     *)
(* checks nothing in between.  An e-mail address stands for its user.      *)
(***************************************************************************)
EXTENDS Naturals, FiniteSets

CONSTANTS
  Users,       \* e-mail addresses that may get an account in the organisation
  Founder,     \* the owner that created the organisation
  Invites,     \* ids an invitation can get
  Reqs,        \* requests that can be in flight at the same time
  NoUser, NoInvite,
  Limit        \* _plan_limits(org.plan)["users"]

ASSUME MembersAssumption ==
  /\ IsFiniteSet(Users) /\ IsFiniteSet(Reqs)
  /\ Founder \in Users
  /\ NoUser \notin Users /\ NoInvite \notin Invites
  /\ Limit \in Nat

VARIABLES
  role,        \* role[u]: users.role, or "none" without an account
  active,      \* active[u]: users.is_active
  invite,      \* invite[i]: state of the invitation row
  offer,       \* offer[i]: the role it offers
  joined,      \* joined[i]: accounts created from it (history)
  req          \* req[r]: what request r has checked and is about to commit

vars == <<role, active, invite, offer, joined, req>>

\* analyst and viewer differ in nothing that is decided here.
UserRole == {"owner", "admin", "viewer"}
InviteState == {"none", "open", "expired", "accepted", "cancelled"}

Idle == [do |-> "idle", by |-> NoUser, user |-> NoUser, invite |-> NoInvite, role |-> "none"]
Requests ==
  [do     : {"idle", "invite", "join", "cancel", "role", "remove"},
   by     : Users \cup {NoUser},
   user   : Users \cup {NoUser},
   invite : Invites \cup {NoInvite},
   role   : UserRole \cup {"none"}]

Accounts == {u \in Users : role[u] # "none"}
Owners   == {u \in Users : role[u] = "owner"}
Managers == {u \in Users : role[u] \in {"owner", "admin"} /\ active[u]}
Rows     == {i \in Invites : invite[i] \notin {"none", "cancelled"}}

Init ==
  /\ role = [u \in Users |-> IF u = Founder THEN "owner" ELSE "none"]
  /\ active = [u \in Users |-> u = Founder]
  /\ invite = [i \in Invites |-> "none"]
  /\ offer = [i \in Invites |-> "none"]
  /\ joined = [i \in Invites |-> 0]
  /\ req = [r \in Reqs |-> Idle]

Pending(r, do) == req[r].do = do
Checked(r, q) ==
  /\ Pending(r, "idle")
  /\ req' = [req EXCEPT ![r] = q]
  /\ UNCHANGED <<role, active, invite, offer, joined>>
Done(r) == req' = [req EXCEPT ![r] = Idle]

----------------------------------------------------------------------------
(* invite_member, cancel_invitation *)

\* The plan limit is compared with all accounts, inactive ones too, and not
\* with the invitations that are open.  The address is not kept, for register
\* does not compare it: the 409 for a member's address only asks for another.
InviteCheck(r, a, i, g) ==
  /\ a \in Managers
  /\ Cardinality(Accounts) < Limit
  /\ invite[i] = "none" /\ \A q \in Reqs : req[q].invite # i
  /\ Checked(r, [Idle EXCEPT !.do = "invite", !.by = a, !.invite = i, !.role = g])

InviteCommit(r) ==
  /\ Pending(r, "invite")
  /\ invite' = [invite EXCEPT ![req[r].invite] = "open"]
  /\ offer' = [offer EXCEPT ![req[r].invite] = req[r].role]
  /\ Done(r)
  /\ UNCHANGED <<role, active, joined>>

CancelCheck(r, a, i) ==
  /\ a \in Managers
  /\ i \in Rows
  /\ Checked(r, [Idle EXCEPT !.do = "cancel", !.by = a, !.invite = i])

CancelCommit(r) ==
  /\ Pending(r, "cancel")
  /\ invite' = [invite EXCEPT ![req[r].invite] = "cancelled"]
  /\ Done(r)
  /\ UNCHANGED <<role, active, offer, joined>>

\* 48 hours have passed.
Expire(i) ==
  /\ invite[i] = "open"
  /\ invite' = [invite EXCEPT ![i] = "expired"]
  /\ UNCHANGED <<role, active, offer, joined, req>>

----------------------------------------------------------------------------
(* register with an invitation token *)

\* Slip: accepted_at not looked at.
JoinCheckReused(r, i, u) ==
  /\ role[u] = "none"
  /\ invite[i] \in {"open", "accepted"}
  /\ Checked(r, [Idle EXCEPT !.do = "join", !.user = u, !.invite = i])

JoinCheck(r, i, u) ==
  /\ role[u] = "none"
  /\ invite[i] = "open"
  /\ Checked(r, [Idle EXCEPT !.do = "join", !.user = u, !.invite = i])

\* Slip: the invitation marked by a bulk UPDATE that may match no row.
JoinCommitBlind(r) ==
  LET u == req[r].user  i == req[r].invite IN
  /\ Pending(r, "join")
  /\ IF role[u] = "none"
       THEN /\ role' = [role EXCEPT ![u] = offer[i]]
            /\ active' = [active EXCEPT ![u] = TRUE]
            /\ invite' = [invite EXCEPT ![i] = IF i \in Rows THEN "accepted" ELSE @]
            /\ joined' = [joined EXCEPT ![i] = @ + 1]
       ELSE UNCHANGED <<role, active, invite, joined>>
  /\ Done(r)
  /\ UNCHANGED offer

\* The address is unique in the database, and an UPDATE of a deleted
\* invitation matches no row: either raises and the account is rolled back.
JoinCommit(r) ==
  LET u == req[r].user  i == req[r].invite IN
  /\ Pending(r, "join")
  /\ IF role[u] = "none" /\ i \in Rows
       THEN /\ role' = [role EXCEPT ![u] = offer[i]]
            /\ active' = [active EXCEPT ![u] = TRUE]
            /\ invite' = [invite EXCEPT ![i] = "accepted"]
            /\ joined' = [joined EXCEPT ![i] = @ + 1]
       ELSE UNCHANGED <<role, active, invite, joined>>
  /\ Done(r)
  /\ UNCHANGED offer

----------------------------------------------------------------------------
(* update_member_role, remove_member, and the platform's administrator *)

\* A role the member has already is no write.
RoleCheck(r, a, u, g) ==
  /\ a \in Managers
  /\ u \in Accounts \ {a} /\ role[u] # g
  /\ Checked(r, [Idle EXCEPT !.do = "role", !.by = a, !.user = u, !.role = g])

\* Slip: the role taken from the invitation form, which may be empty.
RoleCommitEmpty(r) ==
  /\ Pending(r, "role")
  /\ role' = [role EXCEPT ![req[r].user] = "member"]
  /\ Done(r)
  /\ UNCHANGED <<active, invite, offer, joined>>

RoleCommit(r) ==
  /\ Pending(r, "role")
  /\ role' = [role EXCEPT ![req[r].user] = req[r].role]
  /\ Done(r)
  /\ UNCHANGED <<active, invite, offer, joined>>

\* Slip: members may remove themselves.
RemoveCheckSelf(r, a, u) ==
  /\ a \in Managers
  /\ u \in Accounts /\ active[u]
  /\ role[u] = "owner" => Cardinality(Owners) > 1
  /\ Checked(r, [Idle EXCEPT !.do = "remove", !.by = a, !.user = u])

\* The owners are counted with the inactive ones.  A member that is inactive
\* already is no write.
RemoveCheck(r, a, u) ==
  /\ a \in Managers
  /\ u \in Accounts \ {a} /\ active[u]
  /\ role[u] = "owner" => Cardinality(Owners) > 1
  /\ Checked(r, [Idle EXCEPT !.do = "remove", !.by = a, !.user = u])

RemoveCommit(r) ==
  /\ Pending(r, "remove")
  /\ active' = [active EXCEPT ![req[r].user] = FALSE]
  /\ Done(r)
  /\ UNCHANGED <<role, invite, offer, joined>>

\* admin_update_user_status knows neither owners nor limits.
AdminStatus(u) ==
  /\ u \in Accounts
  /\ active' = [active EXCEPT ![u] = ~@]
  /\ UNCHANGED <<role, invite, offer, joined, req>>

\* The request dies before its commit.
Fail(r) ==
  /\ ~Pending(r, "idle")
  /\ Done(r)
  /\ UNCHANGED <<role, active, invite, offer, joined>>

Check(r) ==
  \/ \E a \in Users, i \in Invites : CancelCheck(r, a, i) \/ \E g \in UserRole : InviteCheck(r, a, i, g)
  \/ \E i \in Invites, u \in Users : JoinCheck(r, i, u)
  \/ \E a, u \in Users : RemoveCheck(r, a, u) \/ \E g \in UserRole : RoleCheck(r, a, u, g)

Commit(r) == InviteCommit(r) \/ CancelCommit(r) \/ JoinCommit(r) \/ RoleCommit(r) \/ RemoveCommit(r)

Next ==
  \/ \E r \in Reqs : Check(r) \/ Commit(r) \/ Fail(r)
  \/ \E i \in Invites : Expire(i)
  \/ \E u \in Users : AdminStatus(u)

Spec == Init /\ [][Next]_vars

----------------------------------------------------------------------------
(* Properties *)

MTypeOK ==
  /\ role \in [Users -> UserRole \cup {"none"}]
  /\ active \in [Users -> BOOLEAN]
  /\ invite \in [Invites -> InviteState]
  /\ offer \in [Invites -> UserRole \cup {"none"}]
  /\ joined \in [Invites -> Nat]
  /\ req \in [Reqs -> Requests]

\* Registrations that found invitation i open and have not committed.
Joining(i) == {r \in Reqs : Pending(r, "join") /\ req[r].invite = i}

\* An invitation that several people use at once creates at most one account
\* per request in flight, and none once it was accepted before they looked.
InvitationBounded ==
  \A i \in Invites :
    /\ joined[i] + Cardinality(Joining(i)) <= Cardinality(Reqs)
    /\ invite[i] \in {"none", "open"} => joined[i] = 0

\* An invitation that was cancelled admits nobody any more, also when the
\* registration had already found it open.
CancelledAdmitsNobody ==
  [][\A i \in Invites : invite[i] = "cancelled" => invite'[i] = "cancelled" /\ joined'[i] = joined[i]]_vars

\* Only the platform's administrator or a request on behalf of somebody who
\* has lost that power meanwhile leaves an organisation without an active
\* owner or administrator: one request at a time cannot.
LastManagerLeavesByRace ==
  [][Managers # {} /\ Managers' = {} =>
       \/ \E u \in Users : AdminStatus(u)
       \/ \E r \in Reqs : req[r].do \in {"role", "remove"} /\ req'[r] = Idle /\ req[r].by \notin Managers]_vars

\* organizations.py:374: removal makes sure the last owner is not removed.
RemovalSparesLastOwner ==
  [][\A r \in Reqs, a, u \in Users :
       RemoveCheck(r, a, u) /\ role[u] = "owner" => Managers \cap Owners # {u}]_vars
=============================================================================
