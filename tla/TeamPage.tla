------------------------------ MODULE TeamPage ------------------------------
(***************************************************************************)
(* dashboard/team/page.tsx: members, invitations and custom roles of an    *)
(* organisation, as an owner or administrator works on them.               *)
(***************************************************************************)
EXTENDS DashboardPage, TLC

CONSTANTS
  People,     \* members other than the user, analysts and viewers
  RoleIds,    \* custom roles
  InviteIds,  \* invitations
  NoRole      \* the built-in role

ASSUME TeamAssumption == NoRole \notin RoleIds

Contents == {"plain", "edited"}  \* a role's name, description and permissions

\* The rows as the three lists answer them: a removed member stays listed, an
\* invitation is shown with the name of its role, a role with the number of its
\* active members.  "of" is custom_role_id, which no answer carries: MemberResponse
\* does not have it, and the page takes every member for one of the built-in role.
\* After a commit the keys of roles that are gone are null (ON DELETE SET NULL).
Joined(t) ==
  LET live == DOMAIN t.roles
      Key(r) == IF r \in live THEN r ELSE NoRole IN
  [t EXCEPT
     !.members     = [p \in DOMAIN @ |-> [active |-> @[p].active, of |-> Key(@[p].of)]],
     !.invitations = [i \in DOMAIN @ |-> [of |-> Key(@[i].of), name |-> IF @[i].of \in live THEN t.roles[@[i].of].form
                                                                                            ELSE "built-in"]],
     !.roles       = [r \in live |-> [form |-> @[r].form,
                                      members |-> Cardinality({p \in DOMAIN t.members :
                                                                 t.members[p].active /\ t.members[p].of = r})]]]

TeamInit(roles) ==
  PageInit(
    [members |-> [p \in People |-> [active |-> TRUE, of |-> NoRole]],
     invitations |-> [i \in {} |-> [of |-> NoRole, name |-> "built-in"]],
     roles |-> [r \in roles |-> [form |-> "plain", members |-> 0]]],
    [inviting |-> FALSE, showRoleEditor |-> FALSE, editingRole |-> NoRole,
     form |-> "plain", formOf |-> NoRole, savingRole |-> FALSE, assigningMember |-> NoRole])

\* What is gone is answered 404; an invitation whose role is gone gets the built-in one.
TeamAllowed(q) ==
  /\ q.op \in {"put", "deleteRole", "assign"} => q.role \in DOMAIN server.roles
  /\ q.op = "cancel" => q.id \in DOMAIN server.invitations

WithRow(f, k, row) == [x \in DOMAIN f \cup {k} |-> IF x = k THEN row ELSE f[x]]
WithoutRow(f, k) == [x \in DOMAIN f \ {k} |-> f[x]]

\* The endpoints of organizations.py and custom_roles.py.
TeamEffect(q) == Joined(
  CASE q.op = "invite" ->
         [server EXCEPT !.invitations = WithRow(@, q.id, [of |-> q.role, name |-> "built-in"])]
    [] q.op = "cancel" -> [server EXCEPT !.invitations = WithoutRow(@, q.id)]
    [] q.op = "remove" -> [server EXCEPT !.members[q.who].active = FALSE]
    [] q.op = "assign" -> [server EXCEPT !.members[q.who].of = q.role]
    [] q.op \in {"put", "post"} ->
         [server EXCEPT !.roles = WithRow(@, q.role, [form |-> q.form, members |-> 0])]
    [] OTHER -> [server EXCEPT !.roles = WithoutRow(@, q.role)])

\* The lists a handler asks for again; none when it was refused.  The invitations
\* are not asked for when the role they show is renamed or deleted, the roles not
\* when their members change.
TeamAsks(q) ==
  CASE q.op \in {"invite", "cancel"} -> {"invitations"}
    [] q.op \in {"remove", "assign"} -> {"members"}
    [] q.op \in {"put", "post"} -> {"roles"}
    [] OTHER -> {"roles", "members"}

\* Slip: the deletion of a role asks only for the members it sends back.
TeamStaleMembers(q, ok) ==
  IF ~ok THEN {} ELSE IF q.op = "deleteRole" THEN {"members"} ELSE TeamAsks(q)
TeamStale(q, ok) == IF ~ok THEN {} ELSE TeamAsks(q)

\* The rest of each handler: closing the editor, clearing the busy flag.
TeamFields(q, ok) ==
  CASE q.op = "invite" -> [ui EXCEPT !.inviting = FALSE]
    [] q.op \in {"put", "post"} ->
         [ui EXCEPT !.savingRole = FALSE, !.showRoleEditor = @ /\ ~ok,
                    !.editingRole = IF ok THEN NoRole ELSE @]
    [] q.op = "assign" -> [ui EXCEPT !.assigningMember = NoRole]
    [] OTHER -> ui

----------------------------------------------------------------------------

\* handleSubmit ignores a second submit only through the disabled button.
OnInvite(i, role) ==
  /\ ~ui.inviting /\ i \notin DOMAIN server.invitations
  /\ role \in DOMAIN shown.roles \cup {NoRole}
  /\ Send([op |-> "invite", id |-> i, role |-> role], [ui EXCEPT !.inviting = TRUE])

CancelInvite(i) ==
  i \in DOMAIN shown.invitations /\ Send([op |-> "cancel", id |-> i], ui)

RemoveMember(p) == p \in DOMAIN shown.members /\ Send([op |-> "remove", who |-> p], ui)

\* The editor takes its values from the role when it mounts, and mounts only
\* when it was closed: it has no key.
OpenRoleEditor(r) ==
  /\ r \in DOMAIN shown.roles \/ (r = NoRole /\ ~ui.showRoleEditor)
  /\ Click([ui EXCEPT !.showRoleEditor = TRUE, !.editingRole = r,
              !.form   = IF ui.showRoleEditor THEN @ ELSE IF r = NoRole THEN "plain" ELSE shown.roles[r].form,
              !.formOf = IF ui.showRoleEditor THEN @ ELSE r])

EditRole == ui.showRoleEditor /\ \E c \in Contents : c # ui.form /\ Click([ui EXCEPT !.form = c])
CloseRoleEditor == ui.showRoleEditor /\ Click([ui EXCEPT !.showRoleEditor = FALSE, !.editingRole = NoRole])

\* PUT to the role whose name the heading shows, POST when there is none.
SaveRole ==
  /\ ui.showRoleEditor /\ ~ui.savingRole
  /\ IF ui.editingRole # NoRole
     THEN Send([op |-> "put", role |-> ui.editingRole, form |-> ui.form],
               [ui EXCEPT !.savingRole = TRUE])
     ELSE \E r \in RoleIds \ DOMAIN server.roles :
            Send([op |-> "post", role |-> r, form |-> ui.form], [ui EXCEPT !.savingRole = TRUE])

DeleteRole(r) == r \in DOMAIN shown.roles /\ Send([op |-> "deleteRole", role |-> r], ui)

\* The select of a member; it is disabled while this member is the one being
\* assigned, and only one member is remembered.  The select has no value to take
\* away (custom_role_id never arrives), so removeCustomRole is not reached.
AssignRole(p, r) ==
  /\ p \in DOMAIN shown.members /\ r \in DOMAIN shown.roles
  /\ ui.assigningMember # p
  /\ Send([op |-> "assign", who |-> p, role |-> r], [ui EXCEPT !.assigningMember = p])

TeamNext ==
  \/ \E i \in InviteIds : CancelInvite(i) \/ \E r \in RoleIds \cup {NoRole} : OnInvite(i, r)
  \/ \E p \in People : RemoveMember(p) \/ \E r \in RoleIds : AssignRole(p, r)
  \/ \E r \in RoleIds \cup {NoRole} : OpenRoleEditor(r)
  \/ \E r \in RoleIds : DeleteRole(r)
  \/ EditRole \/ CloseRoleEditor \/ SaveRole
  \/ ServeAllowed(TeamAllowed, TeamEffect) \/ Answered(TeamFields, TeamStale)
  \/ \E t \in Tables : FetchRead(t) \/ FetchShown(t, NoEffect)

----------------------------------------------------------------------------
(* Properties *)

\* At rest the page lists the members, invitations and roles there are, members as
\* active as they are and roles with the contents they have.  The name of a role
\* beside an invitation and the count beside a role may be old.
Tells(t, x) ==
  CASE t = "members" -> DOMAIN x = DOMAIN server[t] /\ \A p \in DOMAIN x : x[p].active = server[t][p].active
    [] t = "roles" -> DOMAIN x = DOMAIN server[t] /\ \A r \in DOMAIN x : x[r].form = server[t][r].form
    [] OTHER -> DOMAIN x = DOMAIN server[t]
TeamSettles == Quiet => \A t \in Tables : Tells(t, shown[t])

\* An invitation is shown with its role (page.tsx:725).
InvitationShowsRole ==
  Quiet => \A i \in DOMAIN shown.invitations : shown.invitations[i].name = server.invitations[i].name

\* "{role.member_count} membros" (page.tsx:588).
RoleCountsMembers ==
  Quiet => \A r \in DOMAIN shown.roles : shown.roles[r].members = server.roles[r].members

\* A busy flag of the page stands only while some handler waits.
TeamBusyReturns ==
  ui.inviting \/ ui.savingRole \/ ui.assigningMember # NoRole => writes # <<>>

\* The heading of the editor names the role it edits (page.tsx:536): what is
\* saved to a role was filled in from that role.
EditorShowsRole == ui.showRoleEditor => ui.formOf = ui.editingRole
=============================================================================
