--------------------------- MODULE Members_proofs ---------------------------
(***************************************************************************)
(* Proofs about Members for any number of people, invitations and requests.*)
(***************************************************************************)
EXTENDS Members, FiniteSetTheorems, TLAPS

\* An invitation being created is known to its request only, and nobody acts
\* on himself.
RequestShape ==
  /\ \A r \in Reqs : Pending(r, "invite") =>
       /\ req[r].invite \in Invites /\ invite[req[r].invite] = "none"
       /\ \A q \in Reqs \ {r} : req[q].invite # req[r].invite
  /\ \A r \in Reqs : Pending(r, "join") => req[r].invite \in Invites /\ req[r].user \in Users
  /\ \A r \in Reqs : Pending(r, "cancel") =>
       req[r].invite \in Invites /\ invite[req[r].invite] # "none"
  /\ \A r \in Reqs : req[r].do \in {"role", "remove"} =>
       req[r].by \in Users /\ req[r].user \in Users \ {req[r].by}
  /\ \A r \in Reqs : req[r].do \in {"invite", "role"} => req[r].role \in UserRole
  /\ \A r \in Reqs : Pending(r, "join") => invite[req[r].invite] # "none"
MembersInv == MTypeOK /\ RequestShape

LEMMA InvInit == Init => MembersInv
<1> SUFFICES ASSUME Init PROVE MembersInv
  OBVIOUS
<1> USE MembersAssumption DEF Init, UserRole, InviteState
<1>1. /\ role \in [Users -> UserRole \cup {"none"}] /\ invite \in [Invites -> InviteState]
      /\ offer \in [Invites -> UserRole \cup {"none"}] /\ joined \in [Invites -> Nat]
  OBVIOUS
<1>2. active \in [Users -> BOOLEAN]
  BY Zenon
<1>3. Idle \in Requests
  BY DEF Idle, Requests
<1>4. req \in [Reqs -> Requests]
  BY <1>3
<1>5. RequestShape
  BY DEF RequestShape, Pending, Idle
<1> QED  BY <1>1, <1>2, <1>4, <1>5 DEF MembersInv, MTypeOK

LEMMA InvCheck ==
  ASSUME MembersInv, NEW r \in Reqs, Check(r)
  PROVE  MembersInv' /\ UNCHANGED <<role, active, invite, offer, joined>>
<1> USE MembersAssumption DEF MembersInv, MTypeOK, RequestShape, Pending, Checked, Managers, Accounts, Rows
<1>1. ASSUME NEW a \in Users, NEW i \in Invites, CancelCheck(r, a, i)
      PROVE  MembersInv' /\ UNCHANGED <<role, active, invite, offer, joined>>
  <2>1. req' = [req EXCEPT ![r] = [Idle EXCEPT !.do = "cancel", !.by = a, !.invite = i]]
    BY <1>1 DEF CancelCheck
  <2>2. req' \in [Reqs -> Requests]
    BY <2>1 DEF Idle, Requests
  <2>3. RequestShape'
    BY <1>1, <2>1 DEF CancelCheck, Idle
  <2> QED  BY <1>1, <2>2, <2>3 DEF CancelCheck
<1>2. ASSUME NEW a \in Users, NEW i \in Invites, NEW g \in UserRole, InviteCheck(r, a, i, g)
      PROVE  MembersInv' /\ UNCHANGED <<role, active, invite, offer, joined>>
  <2>1. req' = [req EXCEPT ![r] = [Idle EXCEPT !.do = "invite", !.by = a, !.invite = i, !.role = g]]
    BY <1>2 DEF InviteCheck
  <2>2. req' \in [Reqs -> Requests]
    BY <2>1 DEF Idle, Requests
  <2>3. RequestShape'
    BY <1>2, <2>1 DEF InviteCheck, Idle
  <2> QED  BY <1>2, <2>2, <2>3 DEF InviteCheck
<1>3. ASSUME NEW i \in Invites, NEW u \in Users, JoinCheck(r, i, u)
      PROVE  MembersInv' /\ UNCHANGED <<role, active, invite, offer, joined>>
  <2>1. req' = [req EXCEPT ![r] = [Idle EXCEPT !.do = "join", !.user = u, !.invite = i]]
    BY <1>3 DEF JoinCheck
  <2>2. req' \in [Reqs -> Requests]
    BY <2>1 DEF Idle, Requests
  <2>3. RequestShape'
    BY <1>3, <2>1 DEF JoinCheck, Idle
  <2> QED  BY <1>3, <2>2, <2>3 DEF JoinCheck
<1>4. ASSUME NEW a \in Users, NEW u \in Users, RemoveCheck(r, a, u)
      PROVE  MembersInv' /\ UNCHANGED <<role, active, invite, offer, joined>>
  <2>1. req' = [req EXCEPT ![r] = [Idle EXCEPT !.do = "remove", !.by = a, !.user = u]]
    BY <1>4 DEF RemoveCheck
  <2>2. req' \in [Reqs -> Requests]
    BY <2>1 DEF Idle, Requests
  <2>3. RequestShape'
    BY <1>4, <2>1 DEF RemoveCheck, Idle
  <2> QED  BY <1>4, <2>2, <2>3 DEF RemoveCheck
<1>5. ASSUME NEW a \in Users, NEW u \in Users, NEW g \in UserRole, RoleCheck(r, a, u, g)
      PROVE  MembersInv' /\ UNCHANGED <<role, active, invite, offer, joined>>
  <2>1. req' = [req EXCEPT ![r] = [Idle EXCEPT !.do = "role", !.by = a, !.user = u, !.role = g]]
    BY <1>5 DEF RoleCheck
  <2>2. req' \in [Reqs -> Requests]
    BY <2>1 DEF Idle, Requests
  <2>3. RequestShape'
    BY <1>5, <2>1 DEF RoleCheck, Idle
  <2> QED  BY <1>5, <2>2, <2>3 DEF RoleCheck
<1> QED  BY <1>1, <1>2, <1>3, <1>4, <1>5 DEF Check

LEMMA InvCommit ==
  ASSUME MembersInv, NEW r \in Reqs, Commit(r) \/ Fail(r)
  PROVE  MembersInv'
<1> USE MembersAssumption DEF MembersInv, MTypeOK, RequestShape, Pending, Done, Rows, UserRole, InviteState
<1>0. Idle \in Requests /\ Idle.do = "idle" /\ Idle.invite = NoInvite
  BY DEF Idle, Requests
<1>1. ASSUME Done(r)
      PROVE  req' \in [Reqs -> Requests] /\ \A q \in Reqs : req'[q] = req[q] \/ req'[q] = Idle
  BY <1>0, <1>1
<1>2. CASE InviteCommit(r)
  <2>1. req' \in [Reqs -> Requests] /\ \A q \in Reqs : req'[q] = req[q] \/ req'[q] = Idle
    BY <1>1, <1>2 DEF InviteCommit
  <2>2. invite' \in [Invites -> InviteState] /\ offer' \in [Invites -> UserRole \cup {"none"}]
    BY <1>2 DEF InviteCommit
  <2>3. RequestShape'
    BY <1>0, <1>2, <2>1 DEF InviteCommit
  <2> QED  BY <1>2, <2>1, <2>2, <2>3 DEF InviteCommit
<1>3. CASE CancelCommit(r)
  <2>1. req' \in [Reqs -> Requests] /\ \A q \in Reqs : req'[q] = req[q] \/ req'[q] = Idle
    BY <1>1, <1>3 DEF CancelCommit
  <2>2. RequestShape'
    BY <1>0, <1>3, <2>1 DEF CancelCommit
  <2> QED  BY <1>3, <2>1, <2>2 DEF CancelCommit
<1>4. CASE JoinCommit(r)
  <2>1. req' \in [Reqs -> Requests] /\ \A q \in Reqs : req'[q] = req[q] \/ req'[q] = Idle
    BY <1>1, <1>4 DEF JoinCommit
  <2>2. RequestShape'
    BY <1>0, <1>4, <2>1 DEF JoinCommit
  <2>3. /\ role' \in [Users -> UserRole \cup {"none"}] /\ active' \in [Users -> BOOLEAN]
    BY <1>4, ZenonT(30) DEF JoinCommit
  <2>4. invite' \in [Invites -> InviteState] /\ joined' \in [Invites -> Nat] /\ offer' = offer
    BY <1>4 DEF JoinCommit
  <2> QED  BY <2>1, <2>2, <2>3, <2>4
<1>5. CASE RoleCommit(r)
  <2>1. req' \in [Reqs -> Requests] /\ \A q \in Reqs : req'[q] = req[q] \/ req'[q] = Idle
    BY <1>1, <1>5 DEF RoleCommit
  <2>2. RequestShape'
    BY <1>0, <1>5, <2>1 DEF RoleCommit
  <2> QED  BY <1>5, <2>1, <2>2 DEF RoleCommit
<1>6. CASE RemoveCommit(r)
  <2>1. req' \in [Reqs -> Requests] /\ \A q \in Reqs : req'[q] = req[q] \/ req'[q] = Idle
    BY <1>1, <1>6 DEF RemoveCommit
  <2>2. RequestShape'
    BY <1>0, <1>6, <2>1 DEF RemoveCommit
  <2>3. active' \in [Users -> BOOLEAN]
    BY <1>6 DEF RemoveCommit
  <2> QED  BY <1>6, <2>1, <2>2, <2>3 DEF RemoveCommit
<1>7. CASE Fail(r)
  <2>1. req' \in [Reqs -> Requests] /\ \A q \in Reqs : req'[q] = req[q] \/ req'[q] = Idle
    BY <1>1, <1>7 DEF Fail
  <2>2. RequestShape'
    BY <1>0, <1>7, <2>1 DEF Fail
  <2> QED  BY <1>7, <2>1, <2>2 DEF Fail
<1> QED  BY <1>2, <1>3, <1>4, <1>5, <1>6, <1>7 DEF Commit

LEMMA InvNext == MembersInv /\ [Next]_vars => MembersInv'
<1> SUFFICES ASSUME MembersInv, [Next]_vars PROVE MembersInv'
  OBVIOUS
<1>1. ASSUME NEW i \in Invites, Expire(i)
      PROVE  MembersInv'
  BY <1>1 DEF Expire, MembersInv, MTypeOK, RequestShape, Pending, InviteState
<1>2. ASSUME NEW u \in Users, AdminStatus(u)
      PROVE  MembersInv'
  <2>1. active' \in [Users -> BOOLEAN]
    BY <1>2, Zenon DEF AdminStatus, MembersInv, MTypeOK
  <2> QED  BY <1>2, <2>1 DEF AdminStatus, MembersInv, MTypeOK, RequestShape, Pending
<1>3. CASE UNCHANGED vars
  BY <1>3 DEF vars, MembersInv, MTypeOK, RequestShape, Pending
<1> QED  BY <1>1, <1>2, <1>3, InvCheck, InvCommit DEF Next

\* The shape of users, invitations and requests survives every handler.
THEOREM MembersTypes == Spec => []MTypeOK
<1>1. MembersInv => MTypeOK
  BY DEF MembersInv
<1>2. QED  BY <1>1, InvInit, InvNext, PTL DEF Spec

----------------------------------------------------------------------------
(* Invitations *)

LEMMA JoiningFinite ==
  ASSUME NEW i
  PROVE  /\ IsFiniteSet(Joining(i)) /\ Cardinality(Joining(i)) \in Nat
         /\ IsFiniteSet(Joining(i)') /\ Cardinality(Joining(i)') \in Nat
         /\ Cardinality(Joining(i)') <= Cardinality(Reqs) /\ Cardinality(Reqs) \in Nat
<1>1. Joining(i) \in SUBSET Reqs /\ Joining(i)' \in SUBSET Reqs /\ IsFiniteSet(Reqs)
  BY MembersAssumption DEF Joining
<1>2. /\ IsFiniteSet(Joining(i)) /\ IsFiniteSet(Joining(i)')
      /\ Cardinality(Joining(i)') <= Cardinality(Reqs)
  BY <1>1, FS_Subset
<1> QED  BY <1>1, <1>2, FS_CardinalityType

\* A step that adds no registration and accepts nothing.
LEMMA JoiningQuiet ==
  ASSUME MembersInv, NEW i \in Invites, InvitationBounded,
         Joining(i)' \subseteq Joining(i), joined'[i] = joined[i]
  PROVE  joined'[i] + Cardinality(Joining(i)') <= Cardinality(Reqs)
<1>1. Cardinality(Joining(i)') <= Cardinality(Joining(i))
  BY JoiningFinite, FS_Subset
<1>2. joined[i] \in Nat /\ joined[i] + Cardinality(Joining(i)) <= Cardinality(Reqs)
  BY DEF MembersInv, MTypeOK, InvitationBounded
<1> QED  BY <1>1, <1>2, JoiningFinite

LEMMA BoundedCheck ==
  ASSUME MembersInv, NEW r \in Reqs, Check(r), InvitationBounded
  PROVE  InvitationBounded'
<1> SUFFICES ASSUME NEW i \in Invites
             PROVE  /\ joined'[i] + Cardinality(Joining(i)') <= Cardinality(Reqs)
                    /\ invite'[i] \in {"none", "open"} => joined'[i] = 0
  BY DEF InvitationBounded
<1>1. invite' = invite /\ joined' = joined
  BY InvCheck
<1>2. CASE \E u \in Users : JoinCheck(r, i, u)
  <2>1. invite[i] = "open" /\ joined[i] = 0
    BY <1>2 DEF JoinCheck, InvitationBounded
  <2> QED  BY <1>1, <2>1, JoiningFinite
<1>3. CASE ~\E u \in Users : JoinCheck(r, i, u)
  <2>1. Joining(i)' \subseteq Joining(i)
    <3> USE DEF MembersInv, MTypeOK, Checked, Pending, Idle
    <3>1. ASSUME NEW a \in Users, NEW j \in Invites, CancelCheck(r, a, j)
          PROVE  req'[r].do # "join" /\ \A q \in Reqs \ {r} : req'[q] = req[q]
      BY <3>1 DEF CancelCheck
    <3>2. ASSUME NEW a \in Users, NEW j \in Invites, NEW g \in UserRole, InviteCheck(r, a, j, g)
          PROVE  req'[r].do # "join" /\ \A q \in Reqs \ {r} : req'[q] = req[q]
      BY <3>2 DEF InviteCheck
    <3>3. ASSUME NEW j \in Invites, NEW u \in Users, JoinCheck(r, j, u)
          PROVE  req'[r].invite # i /\ \A q \in Reqs \ {r} : req'[q] = req[q]
      BY <1>3, <3>3 DEF JoinCheck
    <3>4. ASSUME NEW a \in Users, NEW u \in Users, RemoveCheck(r, a, u)
          PROVE  req'[r].do # "join" /\ \A q \in Reqs \ {r} : req'[q] = req[q]
      BY <3>4 DEF RemoveCheck
    <3>5. ASSUME NEW a \in Users, NEW u \in Users, NEW g \in UserRole, RoleCheck(r, a, u, g)
          PROVE  req'[r].do # "join" /\ \A q \in Reqs \ {r} : req'[q] = req[q]
      BY <3>5 DEF RoleCheck
    <3>6. (req'[r].do # "join" \/ req'[r].invite # i) /\ \A q \in Reqs \ {r} : req'[q] = req[q]
      BY <3>1, <3>2, <3>3, <3>4, <3>5 DEF Check
    <3> QED  BY <3>6 DEF Joining
  <2> QED  BY <1>1, <2>1, JoiningQuiet DEF InvitationBounded
<1> QED  BY <1>2, <1>3

LEMMA BoundedCommit ==
  ASSUME MembersInv, NEW r \in Reqs, Commit(r) \/ Fail(r), InvitationBounded
  PROVE  InvitationBounded'
<1> SUFFICES ASSUME NEW i \in Invites
             PROVE  /\ joined'[i] + Cardinality(Joining(i)') <= Cardinality(Reqs)
                    /\ invite'[i] \in {"none", "open"} => joined'[i] = 0
  BY DEF InvitationBounded
<1>0. Idle.do = "idle"
  BY DEF Idle
<1> USE DEF MembersInv, MTypeOK, RequestShape, Pending, Done
<1>1. Done(r)
  BY DEF Commit, InviteCommit, CancelCommit, JoinCommit, RoleCommit, RemoveCommit, Fail
<1>2. Joining(i)' \subseteq Joining(i) \ {r}
  BY <1>0, <1>1 DEF Joining
<1>3. CASE JoinCommit(r) /\ joined' # joined /\ req[r].invite = i
  <2>1. joined'[i] = joined[i] + 1 /\ invite'[i] = "accepted"
    BY <1>3 DEF JoinCommit
  <2>2. r \in Joining(i)
    BY <1>3 DEF JoinCommit, Joining
  <2>3. Cardinality(Joining(i) \ {r}) = Cardinality(Joining(i)) - 1
    BY <2>2, JoiningFinite, FS_RemoveElement
  <2>4. Cardinality(Joining(i)') <= Cardinality(Joining(i) \ {r})
    <3>1. IsFiniteSet(Joining(i) \ {r})
      BY JoiningFinite, FS_RemoveElement
    <3> QED  BY <1>2, <3>1, FS_Subset
  <2>5. joined[i] \in Nat /\ joined[i] + Cardinality(Joining(i)) <= Cardinality(Reqs)
    BY DEF InvitationBounded
  <2> QED  BY <2>1, <2>3, <2>4, <2>5, JoiningFinite
<1>4. CASE ~(JoinCommit(r) /\ joined' # joined /\ req[r].invite = i)
  <2>1. joined'[i] = joined[i]
    BY <1>4 DEF Commit, InviteCommit, CancelCommit, JoinCommit, RoleCommit, RemoveCommit, Fail
  <2>2. invite'[i] \in {"none", "open"} => invite[i] \in {"none", "open"}
    BY DEF Commit, InviteCommit, CancelCommit, JoinCommit, RoleCommit, RemoveCommit, Fail
  <2> QED  BY <1>2, <2>1, <2>2, JoiningQuiet DEF InvitationBounded
<1> QED  BY <1>3, <1>4

LEMMA BoundedNext == MembersInv /\ InvitationBounded /\ [Next]_vars => InvitationBounded'
<1> SUFFICES ASSUME MembersInv, InvitationBounded, [Next]_vars PROVE InvitationBounded'
  OBVIOUS
<1>1. ASSUME req' = req, joined' = joined,
             \A i \in Invites : invite'[i] \in {"none", "open"} => invite[i] \in {"none", "open"}
      PROVE  InvitationBounded'
  <2>1. \A i : Joining(i)' = Joining(i)
    BY <1>1 DEF Joining, Pending
  <2> QED  BY <1>1, <2>1 DEF InvitationBounded
<1>2. ASSUME NEW i \in Invites, Expire(i)
      PROVE  InvitationBounded'
  BY <1>1, <1>2 DEF Expire, MembersInv, MTypeOK
<1>3. ASSUME NEW u \in Users, AdminStatus(u)
      PROVE  InvitationBounded'
  BY <1>1, <1>3 DEF AdminStatus
<1>4. CASE UNCHANGED vars
  BY <1>1, <1>4 DEF vars
<1> QED  BY <1>2, <1>3, <1>4, BoundedCheck, BoundedCommit DEF Next

\* Racing registrations make at most one account each out of an invitation,
\* and an invitation that nobody has accepted has made none.
THEOREM InvitationIsBounded == Spec => []InvitationBounded
<1>1. Init => InvitationBounded
  <2> SUFFICES ASSUME Init, NEW i \in Invites
               PROVE  joined[i] + Cardinality(Joining(i)) <= Cardinality(Reqs) /\ joined[i] = 0
    BY DEF InvitationBounded
  <2>1. Joining(i) = {} /\ joined[i] = 0
    BY DEF Init, Joining, Pending, Idle
  <2> QED  BY <2>1, FS_EmptySet, JoiningFinite
<1>2. QED  BY <1>1, InvInit, InvNext, BoundedNext, PTL DEF Spec

\* A cancelled invitation stays cancelled and makes no account any more, also
\* for registrations that had found it open.
THEOREM CancelledIsFinal == Spec => CancelledAdmitsNobody
<1>1. MembersInv /\ [Next]_vars =>
        [\A i \in Invites : invite[i] = "cancelled" => invite'[i] = "cancelled" /\ joined'[i] = joined[i]]_vars
  <2> SUFFICES ASSUME MembersInv, Next, NEW i \in Invites, invite[i] = "cancelled"
               PROVE  invite'[i] = "cancelled" /\ joined'[i] = joined[i]
    BY DEF vars
  <2> USE DEF MembersInv, MTypeOK, RequestShape, Pending
  <2>1. ASSUME NEW r \in Reqs, Check(r)
        PROVE  invite'[i] = "cancelled" /\ joined'[i] = joined[i]
    BY <2>1, InvCheck
  <2>2. ASSUME NEW r \in Reqs, Commit(r) \/ Fail(r)
        PROVE  invite'[i] = "cancelled" /\ joined'[i] = joined[i]
    BY <2>2 DEF Commit, InviteCommit, CancelCommit, JoinCommit, RoleCommit, RemoveCommit, Fail, Rows
  <2>3. ASSUME NEW j \in Invites, Expire(j)
        PROVE  invite'[i] = "cancelled" /\ joined'[i] = joined[i]
    BY <2>3 DEF Expire
  <2>4. ASSUME NEW u \in Users, AdminStatus(u)
        PROVE  invite'[i] = "cancelled" /\ joined'[i] = joined[i]
    BY <2>4 DEF AdminStatus
  <2> QED  BY <2>1, <2>2, <2>3, <2>4 DEF Next
<1>2. QED  BY <1>1, InvInit, InvNext, PTL DEF Spec, CancelledAdmitsNobody

----------------------------------------------------------------------------
(* Managers *)

LEMMA ManagerStep ==
  ASSUME MembersInv, Next, Managers # {}, Managers' = {}
  PROVE  \/ \E u \in Users : AdminStatus(u)
         \/ \E r \in Reqs : req[r].do \in {"role", "remove"} /\ req'[r] = Idle /\ req[r].by \notin Managers
<1> USE DEF MembersInv, MTypeOK, RequestShape, Pending
<1>1. ASSUME NEW r \in Reqs, Check(r) \/ Fail(r) \/ InviteCommit(r) \/ CancelCommit(r)
      PROVE  FALSE
  <2>1. role' = role /\ active' = active
    BY <1>1, InvCheck DEF Fail, InviteCommit, CancelCommit
  <2> QED  BY <2>1 DEF Managers
<1>2. ASSUME NEW r \in Reqs, JoinCommit(r)
      PROVE  FALSE
  <2>1. \A u \in Users : role[u] # "none" => role'[u] = role[u] /\ active'[u] = active[u]
    BY <1>2 DEF JoinCommit
  <2> QED  BY <2>1 DEF Managers
<1>3. ASSUME NEW r \in Reqs, RoleCommit(r) \/ RemoveCommit(r)
      PROVE  req[r].do \in {"role", "remove"} /\ req'[r] = Idle /\ req[r].by \notin Managers
  <2>1. /\ req[r].do \in {"role", "remove"} /\ req'[r] = Idle
        /\ req[r].by \in Users /\ req[r].user # req[r].by
    BY <1>3 DEF RoleCommit, RemoveCommit, Done
  <2>2. role'[req[r].by] = role[req[r].by] /\ active'[req[r].by] = active[req[r].by]
    BY <1>3, <2>1 DEF RoleCommit, RemoveCommit
  <2> QED  BY <2>1, <2>2 DEF Managers
<1>4. ASSUME NEW i \in Invites, Expire(i)
      PROVE  FALSE
  BY <1>4 DEF Expire, Managers
<1> QED  BY <1>1, <1>2, <1>3, <1>4 DEF Next, Commit

\* One request at a time never takes the last active owner or administrator
\* from an organisation; it takes a race of two, or the platform.
THEOREM ManagersLeaveByRace == Spec => LastManagerLeavesByRace
<1>1. MembersInv /\ [Next]_vars =>
        [Managers # {} /\ Managers' = {} =>
           \/ \E u \in Users : AdminStatus(u)
           \/ \E r \in Reqs : req[r].do \in {"role", "remove"} /\ req'[r] = Idle /\ req[r].by \notin Managers]_vars
  BY ManagerStep
<1>2. QED  BY <1>1, InvInit, InvNext, PTL DEF Spec, LastManagerLeavesByRace
=============================================================================
