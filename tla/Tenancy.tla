------------------------------- MODULE Tenancy -------------------------------
(***************************************************************************)
(* Tenants, memberships and invitations: who belongs to an organization,   *)
(* with which role, and how one gets in and out.                           *)
(*                                                                         *)
(* The rows of Accounts get two more tables: a tenant under its slug, and  *)
(* a membership under <<tenant, user>>, unique in the database.  The       *)
(* handlers check roles, limits and statuses when a request begins and     *)
(* write when it ends; accepting an invitation is a transaction, and locks *)
(* neither the invitation nor the account.                                 *)
(***************************************************************************)
EXTENDS Accounts

CONSTANTS
    Tenants,
    EmailOf,      \* the address of each account, lowercased
    Platform      \* the actor of a call by platform staff

TenantRole == {"owner", "coordinator", "manager", "viewer"}
Governance == {"owner", "coordinator"}
InvitationStatus == {"pending", "accepted", "cancelled"}

(* The columns of the three tables.                                          *)
UserRow == [active : BOOLEAN, password : Nat]
TenantRow == [active : BOOLEAN, max : Nat]
MemberRow == [active : BOOLEAN, role : TenantRole, id : Nat]

(* What the database guarantees of its rows: columns have their types, a      *)
(* password hash has been made (below n), and foreign keys have their rows.   *)
WellFormed(rows, n) ==
    /\ rows \in [Keys -> UserRow \cup TenantRow \cup MemberRow \cup {NoRow}]
    /\ \A u \in Users : rows[u] # NoRow => rows[u] \in UserRow /\ rows[u].password < n
    /\ \A t \in Tenants : rows[t] # NoRow => rows[t] \in TenantRow
    /\ \A t \in Tenants, u \in Users : rows[<<t, u>>] # NoRow =>
          rows[<<t, u>>] \in MemberRow /\ rows[t] # NoRow /\ rows[u] # NoRow

(* A call by platform staff may name no user; those of members do.            *)
CallColumns ==
    [kind : STRING, by : Users \cup {Platform}, tenant : Tenants, user : Users,
     role : TenantRole, on : BOOLEAN]

ASSUME TenancyAssumption ==
    /\ OtherRows = Tenants \cup (Tenants \X Users)
    /\ Users \cap OtherRows = {} /\ Tenants \cap (Tenants \X Users) = {}
    /\ Platform \notin Users
    /\ NoRow \notin UserRow \cup TenantRow \cup MemberRow
    /\ Calls \subseteq CallColumns
    /\ \A c \in Calls : c.by = Platform =>
          c.kind \notin {"invite", "change_role", "change_active", "change_member",
                         "remove_member", "settings"}
    /\ WellFormed(Opening, 1)

VARIABLES
    invite,       \* the invitations, in the order they were made
    rank,         \* the role each request's actor held when it began
    outcomes,     \* outcomes[i]: the statuses requests have given invitation i
    contested     \* invitations decided again by a request that read them before

inviteVars == <<invite, outcomes, contested>>
vars == <<accountVars, inviteVars, rank>>

Init ==
    /\ AccountsInit
    /\ invite = <<>>
    /\ rank = [r \in Requests |-> NoRow]
    /\ outcomes = <<>>
    /\ contested = {}

-----------------------------------------------------------------------------
(* Access.                                                                   *)

Member(t, u) == ActiveRow(<<t, u>>)

(* The tenant a request is served for: the one its header names if the user  *)
(* is an active member of it and it is active, else the default, or any.     *)
Accessible(u) == {t \in Tenants : ActiveRow(t) /\ Member(t, u)}
Resolved(u, asked) == IF asked \in Accessible(u) THEN {asked} ELSE Accessible(u)

RoleOf(t, u) == IF Member(t, u) THEN row[<<t, u>>].role ELSE NoRow

(* c's actor is signed in, is served for tenant t, and holds one of roles.   *)
Allowed(c, t, roles) ==
    /\ ActiveRow(c.by)
    /\ t \in Resolved(c.by, c.tenant)
    /\ RoleOf(t, c.by) \in roles

(* Faulty: anyone who may manage members may name an owner. *)
AnyGovernor(c, t) == TRUE

MayGiveRole(c, t) == c.role = "owner" => RoleOf(t, c.by) = "owner"

UserCount(t) == Cardinality({u \in Users : Member(t, u)})
IsWithinUserLimit(t) == UserCount(t) < row[t].max

-----------------------------------------------------------------------------
(* Invitations.                                                              *)

Live(i) == invite[i].status = "pending" /\ ~invite[i].expired

NewInvitation(t, email, role, by) ==
    [tenant |-> t, email |-> email, role |-> role, status |-> "pending",
     expired |-> FALSE, rank |-> by]

AddInvitation(i) == invite' = Append(invite, i) /\ outcomes' = Append(outcomes, <<>>)

(* InvitationListCreateView.post: the serializer's checks, *)
StartInvite(r, c) ==
    \E t \in Tenants :
        /\ c.kind = "invite" /\ Allowed(c, t, Governance) /\ MayGiveRole(c, t)
        /\ \A u \in Users : EmailOf[u] = EmailOf[c.user] => ~Member(t, u)
        /\ \A i \in DOMAIN invite :
              ~(Live(i) /\ invite[i].tenant = t /\ invite[i].email = EmailOf[c.user])
        /\ IsWithinUserLimit(t)
        /\ Start(r, [c EXCEPT !.tenant = t], NoRow)
        /\ rank' = [rank EXCEPT ![r] = RoleOf(t, c.by)]
        /\ UNCHANGED <<tableVars, linkVars, inviteVars>>

(* then the row. *)
Invite(r) ==
    /\ Busy(r, "invite")
    /\ AddInvitation(NewInvitation(call[r].tenant, EmailOf[call[r].user], call[r].role, rank[r]))
    /\ Answer(r)
    /\ UNCHANGED <<tableVars, linkVars, rank, contested>>

(* An invitation is cancelled by its tenant's governance or the platform.    *)
StartCancel(r, c) ==
    \E i \in DOMAIN invite :
        /\ c.kind = "cancel"
        /\ c.by # Platform => Allowed(c, invite[i].tenant, Governance)
        /\ invite[i].status = "pending"
        /\ Start(r, c, [i |-> i, status |-> invite[i].status, account |-> FALSE])
        /\ UNCHANGED <<tableVars, linkVars, inviteVars, rank>>

(* save(update_fields=["status"]), whatever the status has become.           *)
Resolve(r, status) ==
    LET i == seen[r].i IN
    /\ invite' = [invite EXCEPT ![i].status = status]
    /\ outcomes' = [outcomes EXCEPT ![i] = Append(@, status)]
    /\ contested' = IF invite[i].status = seen[r].status THEN contested ELSE contested \cup {i}

Cancel(r) ==
    /\ Busy(r, "cancel")
    /\ Resolve(r, "cancelled")
    /\ Answer(r)
    /\ UNCHANGED <<tableVars, linkVars, rank>>

(* Faulty: only the expiry is tested. *)
NotExpired(i) == ~invite[i].expired

(* AcceptInvitationSerializer.validate_token *)
Acceptable(i) == Live(i)

(* An account with the address is the one that joins (its password given);    *)
(* without one, a new account takes a username that is free.                 *)
StartAccept(r, c) ==
    \E i \in DOMAIN invite :
        /\ c.kind = "accept" /\ invite[i].email = EmailOf[c.user] /\ Acceptable(i)
        /\ Exists(c.user) \/ \A u \in Users : EmailOf[u] = EmailOf[c.user] => ~Exists(u)
        /\ Start(r, c, [i |-> i, status |-> invite[i].status, account |-> Exists(c.user)])
        /\ UNCHANGED <<tableVars, linkVars, inviteVars, rank>>

NewUser == [active |-> TRUE, password |-> next]

(* update_or_create on memberships: the row is locked and updated, or made.  *)
Upsert(t, u, role) ==
    [active |-> TRUE, role |-> role, id |-> IF Exists(<<t, u>>) THEN row[<<t, u>>].id ELSE next]

Accept(r) ==
    LET u == call[r].user
        i == seen[r].i
        k == <<invite[i].tenant, u>>
        account == IF seen[r].account THEN <<>> ELSE RowAt(u, NewUser)
        taken == ~seen[r].account /\ Exists(u)
    IN
    /\ Busy(r, "accept")
    /\ Insert(r, Over(RowAt(k, Upsert(k[1], u, invite[i].role)), account), taken)
    /\ IF taken THEN UNCHANGED inviteVars
       ELSE Resolve(r, "accepted")
    /\ UNCHANGED <<linkVars, rank>>

Expire(i) ==
    /\ Live(i)
    /\ invite' = [invite EXCEPT ![i].expired = TRUE]
    /\ UNCHANGED <<accountVars, rank, outcomes, contested>>

-----------------------------------------------------------------------------
(* Memberships.                                                              *)

(* TenantMemberDetailView: governance changes or deletes a row of its tenant. *)
StartMember(r, c) ==
    /\ \/ /\ c.kind \in {"change_role", "change_active", "change_member", "remove_member"}
          /\ Allowed(c, c.tenant, Governance)
          /\ c.kind \in {"change_role", "change_member"} => MayGiveRole(c, c.tenant)
       \/ c.kind = "remove_membership"
    /\ Exists(<<c.tenant, c.user>>)
    /\ Start(r, c, row[<<c.tenant, c.user>>])
    /\ rank' = [rank EXCEPT ![r] = IF c.by = Platform THEN Platform ELSE RoleOf(c.tenant, c.by)]
    /\ UNCHANGED <<tableVars, linkVars, inviteVars>>

(* Another row has taken the place of the one read: it is unique.            *)
Replaced(r, k) == Exists(k) /\ row[k].id # seen[r].id

(* A PATCH carries a role, or whether the member is active, or both.         *)
Patch(c) ==
    CASE c.kind = "change_role" -> [role |-> c.role]
      [] c.kind = "change_active" -> [active |-> c.on]
      [] OTHER -> [role |-> c.role, active |-> c.on]

ChangeMember(r) ==
    LET k == <<call[r].tenant, call[r].user>> IN
    /\ Busy(r, "change_role") \/ Busy(r, "change_active") \/ Busy(r, "change_member")
    /\ IF Replaced(r, k) THEN Refused(r) ELSE Save(r, k, Patch(call[r]))
    /\ UNCHANGED <<next, linkVars, inviteVars, rank>>

RemoveMember(r) ==
    LET k == <<call[r].tenant, call[r].user>> IN
    /\ Busy(r, "remove_member")
    /\ IF Replaced(r, k) THEN Refused(r)
       ELSE /\ row' = [row EXCEPT ![k] = NoRow]
            /\ UNCHANGED trampled
            /\ Answer(r)
    /\ UNCHANGED <<next, linkVars, inviteVars, rank>>

(* Platform staff deactivate a membership, and keep it. *)
RemoveMembership(r) ==
    LET k == <<call[r].tenant, call[r].user>> IN
    /\ Busy(r, "remove_membership")
    /\ IF Replaced(r, k) THEN Refused(r) ELSE SaveFields(r, k, [active |-> FALSE])
    /\ UNCHANGED <<next, linkVars, inviteVars, rank>>

(* assign_tenant *)
AssignTenant(r) ==
    LET c == call[r]
        k == <<c.tenant, c.user>>
    IN
    /\ Busy(r, "assign_tenant")
    /\ Insert(r, RowAt(k, Upsert(c.tenant, c.user, c.role)), FALSE)
    /\ UNCHANGED <<linkVars, inviteVars, rank>>

-----------------------------------------------------------------------------
(* Tenants and new accounts.                                                 *)

NewTenant(max) == [active |-> TRUE, max |-> max]
NoAccount(u) == \A v \in Users : v = u \/ EmailOf[v] = EmailOf[u] => ~Exists(v)

MayAssign(c) == c.kind = "assign_tenant" /\ Exists(c.user) /\ ActiveRow(c.tenant)
MayCreateUser(c) == c.kind = "create_user" /\ NoAccount(c.user) /\ ActiveRow(c.tenant)
MayRegister(c) == c.kind = "register" /\ NoAccount(c.user) /\ ~Exists(c.tenant)
MayCreateTenant(c) == c.kind = "create_tenant" /\ ~Exists(c.tenant)
MaySuspend(c) ==
    \/ c.kind = "suspend" /\ ActiveRow(c.tenant)
    \/ c.kind = "reactivate" /\ Exists(c.tenant) /\ ~row[c.tenant].active
MayBill(c) == c.kind = "billing" /\ Exists(c.tenant)

StartPlatform(r, c) ==
    /\ \/ MayAssign(c) \/ MayCreateUser(c) \/ MayRegister(c)
       \/ MayCreateTenant(c) \/ MaySuspend(c) \/ MayBill(c)
    /\ Start(r, c, IF c.tenant \in Tenants THEN row[c.tenant] ELSE NoRow)
    /\ UNCHANGED <<tableVars, linkVars, inviteVars, rank>>

(* CurrentTenantView.patch *)
StartSettings(r, c) ==
    \E t \in Tenants :
        /\ c.kind = "settings" /\ Allowed(c, t, Governance \cup {"manager"})
        /\ Start(r, [c EXCEPT !.tenant = t], row[t])
        /\ UNCHANGED <<tableVars, linkVars, inviteVars, rank>>

(* PlatformUserViewSet.create: the account and its membership. *)
CreateUser(r) ==
    LET c == call[r] IN
    /\ Busy(r, "create_user")
    /\ Insert(r, Over(RowAt(c.user, NewUser),
                      RowAt(<<c.tenant, c.user>>, Upsert(c.tenant, c.user, c.role))),
              Exists(c.user))
    /\ UNCHANGED <<linkVars, inviteVars, rank>>

(* RegisterTenantView: tenant, account and ownership, all or none. *)
Register(r) ==
    LET c == call[r] IN
    /\ Busy(r, "register")
    /\ Insert(r, Over(RowAt(c.tenant, NewTenant(1)),
                      Over(RowAt(c.user, NewUser),
                           RowAt(<<c.tenant, c.user>>, Upsert(c.tenant, c.user, "owner")))),
              Exists(c.user) \/ Exists(c.tenant))
    /\ UNCHANGED <<linkVars, inviteVars, rank>>

(* Faulty: the owner to be invited gets the membership at once. *)
CreateTenantOwned(r) ==
    LET c == call[r]
        owned == RowAt(<<c.tenant, c.user>>, Upsert(c.tenant, c.user, "owner"))
        owner == CASE Exists(c.user) -> owned
                   [] ~Exists(c.user) /\ c.on -> owned
                   [] OTHER -> Over(RowAt(c.user, NewUser), owned)
    IN
    /\ Busy(r, "create_tenant")
    /\ Insert(r, Over(RowAt(c.tenant, NewTenant(1)), owner), Exists(c.tenant))
    /\ IF ~Exists(c.tenant) /\ ~Exists(c.user) /\ c.on
       THEN AddInvitation(NewInvitation(c.tenant, EmailOf[c.user], "owner", Platform))
       ELSE UNCHANGED <<invite, outcomes>>
    /\ UNCHANGED <<linkVars, contested, rank>>

(* create_tenant_with_owner: the named account if there is one, else a new    *)
(* one, or an invitation to own the tenant.                                  *)
CreateTenant(r) ==
    LET c == call[r]
        owned == RowAt(<<c.tenant, c.user>>, Upsert(c.tenant, c.user, "owner"))
        owner == CASE Exists(c.user) -> owned
                   [] ~Exists(c.user) /\ c.on -> <<>>
                   [] OTHER -> Over(RowAt(c.user, NewUser), owned)
    IN
    /\ Busy(r, "create_tenant")
    /\ Insert(r, Over(RowAt(c.tenant, NewTenant(1)), owner), Exists(c.tenant))
    /\ IF ~Exists(c.tenant) /\ ~Exists(c.user) /\ c.on
       THEN AddInvitation(NewInvitation(c.tenant, EmailOf[c.user], "owner", Platform))
       ELSE UNCHANGED <<invite, outcomes>>
    /\ UNCHANGED <<linkVars, contested, rank>>

(* Suspension writes is_active; the other two write the whole row.           *)
Suspend(r) ==
    /\ Busy(r, "suspend") \/ Busy(r, "reactivate")
    /\ SaveFields(r, call[r].tenant, [active |-> call[r].kind = "reactivate"])
    /\ UNCHANGED <<next, linkVars, inviteVars, rank>>

Billing(r) ==
    /\ Busy(r, "billing")
    /\ Save(r, call[r].tenant, [max |-> 1])
    /\ UNCHANGED <<next, linkVars, inviteVars, rank>>

Settings(r) ==
    /\ Busy(r, "settings")
    /\ Save(r, call[r].tenant, <<>>)
    /\ UNCHANGED <<next, linkVars, inviteVars, rank>>

-----------------------------------------------------------------------------
Begin(r, c) ==
    \/ StartInvite(r, c) \/ StartCancel(r, c) \/ StartAccept(r, c)
    \/ StartMember(r, c) \/ StartPlatform(r, c) \/ StartSettings(r, c)
    \/ /\ StartAccountCall(r, c) \/ RequestReset(r, c) \/ StartReset(r, c)
       /\ UNCHANGED <<inviteVars, rank>>

Finish(r) ==
    \/ Invite(r) \/ Cancel(r) \/ Accept(r)
    \/ ChangeMember(r) \/ RemoveMember(r) \/ RemoveMembership(r) \/ AssignTenant(r)
    \/ CreateUser(r) \/ Register(r) \/ CreateTenant(r)
    \/ Suspend(r) \/ Billing(r) \/ Settings(r)
    \/ AccountStep(r) /\ UNCHANGED <<inviteVars, rank>>

Next ==
    \/ \E r \in Requests : Finish(r) \/ \E c \in Calls : Begin(r, c)
    \/ \E i \in DOMAIN invite : Expire(i)

Spec == Init /\ [][Next]_vars

-----------------------------------------------------------------------------
(* Properties.                                                               *)

TenancyTypeOK ==
    /\ \A u \in Users : Exists(u) => row[u].active \in BOOLEAN /\ row[u].password < next
    /\ \A t \in Tenants : Exists(t) => row[t].active \in BOOLEAN /\ row[t].max \in Nat
    /\ \A t \in Tenants, u \in Users : Exists(<<t, u>>) =>
          /\ row[<<t, u>>].active \in BOOLEAN
          /\ row[<<t, u>>].role \in TenantRole
          /\ Exists(t) /\ Exists(u)
    /\ \A i \in DOMAIN invite :
          /\ invite[i].tenant \in Tenants /\ Exists(invite[i].tenant)
          /\ invite[i].role \in TenantRole
          /\ invite[i].status \in InvitationStatus
    /\ outcomes \in [DOMAIN invite -> Seq(InvitationStatus)]
    /\ contested \subseteq DOMAIN invite
    /\ pc \in [Requests -> {"idle", "busy", "done"}]

(* An invitation is settled once: it makes one member or is cancelled, and    *)
(* keeps that status, unless two requests had both found it pending.         *)
InvitationSettlesOnce ==
    \A i \in DOMAIN invite \ contested :
        outcomes[i] = IF invite[i].status = "pending" THEN <<>> ELSE <<invite[i].status>>

(* What each kind of call is there to change in the row it writes, which     *)
(* row that is, and which rows it may make.                                  *)
Purpose(kind) ==
    CASE kind \in {"password", "reset_password", "confirm_reset"} -> {"password"}
      [] kind \in {"edit_user", "disable_user", "suspend", "reactivate",
                   "change_active", "remove_membership"} -> {"active"}
      [] kind = "change_role" -> {"role"}
      [] kind \in {"change_member", "accept", "assign_tenant"} -> {"role", "active"}
      [] kind = "billing" -> {"max"}
      [] OTHER -> {}

Membership(r) ==
    <<IF call[r].kind = "accept" THEN invite[seen[r].i].tenant ELSE call[r].tenant, call[r].user>>

Target(r) ==
    CASE call[r].kind \in {"profile", "password", "reset_password", "edit_user",
                           "disable_user", "confirm_reset"} -> call[r].user
      [] call[r].kind \in {"suspend", "reactivate", "billing", "settings"} -> call[r].tenant
      [] OTHER -> Membership(r)

MayMake(r) ==
    CASE call[r].kind = "assign_tenant" -> {Membership(r)}
      [] call[r].kind \in {"accept", "create_user"} -> {call[r].user, Membership(r)}
      [] call[r].kind \in {"register", "create_tenant"} ->
            {call[r].tenant, call[r].user, Membership(r)}
      [] OTHER -> {}

(* The calls that write the whole row they read.                             *)
SavesWhole ==
    {"profile", "password", "reset_password", "edit_user", "confirm_reset",
     "change_role", "change_active", "change_member", "settings", "billing"}

Asked(r, k) ==
    \/ row[k] = NoRow /\ k \in MayMake(r)
    \/ row'[k] = NoRow /\ call[r].kind = "remove_member" /\ k = Target(r)
    \/ /\ row'[k] # NoRow /\ k = Target(r)
       /\ \A col \in DOMAIN row'[k] :
             \/ Exists(k) /\ row'[k][col] = row[k][col]
             \/ col \in Purpose(call[r].kind)
             \/ call[r].kind \in SavesWhole /\ row'[k][col] = seen[r][col]

(* A suspension, a removal, a limit, a role or a password stays in force     *)
(* until a call made to change it: a request changes the columns of its      *)
(* purpose in the row it is for, and besides them puts back at most what it  *)
(* had read, so nothing undoes what was there when the undoing request       *)
(* began; and only the ten kinds that save the whole row put anything back.  *)
(* Suspensions, deactivations and removals are not among those.              *)
ChangesAreAsked ==
    [][\A k \in Keys : row'[k] # row[k] =>
          \E r \in Requests : pc[r] = "busy" /\ pc'[r] = "done" /\ Asked(r, k)]_vars

(* Ownership of a tenant is given by an owner or by the platform, through    *)
(* whatever steps (an invitation, a role change), or put back with the rest  *)
(* of the row by a call that had read the member as an owner.                *)
GivesOwnership(r) ==
    \/ call[r].kind \in {"assign_tenant", "create_user", "register", "create_tenant"}
    \/ call[r].kind \in {"change_role", "change_member"} /\ rank[r] = "owner"
    \/ call[r].kind = "accept" /\ invite[seen[r].i].rank \in {"owner", Platform}

PutsOwnerBack(r, t, u) ==
    /\ call[r].kind = "change_active"
    /\ <<t, u>> = <<call[r].tenant, call[r].user>> /\ seen[r].role = "owner"

OwnersComeFromOwners ==
    [][\A t \in Tenants, u \in Users :
          ~(Exists(<<t, u>>) /\ row[<<t, u>>].role = "owner")
            /\ (row'[<<t, u>>] # NoRow /\ row'[<<t, u>>].role = "owner")
          => \E r \in Requests :
                /\ pc[r] = "busy" /\ pc'[r] = "done"
                /\ GivesOwnership(r) \/ PutsOwnerBack(r, t, u)]_vars
=============================================================================
