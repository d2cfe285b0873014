----------------------------- MODULE TenancyProofs -----------------------------
(***************************************************************************)
(* Proofs about Accounts and Tenancy, for any number of users, tenants and *)
(* requests, whatever calls the requests make in whatever order: a request *)
(* changes what it was made to change, a reset link works once, an         *)
(* invitation is settled once, and owners are made by owners, but for the  *)
(* writes the properties name.                                             *)
(*                                                                         *)
(* What a request read when it began binds nobody (nothing is locked), so  *)
(* the invariant says of it only what no other request can undo (CallInv): *)
(* accounts, tenants and invitations never vanish, and passwords are never *)
(* made twice.                                                             *)
(***************************************************************************)
EXTENDS Tenancy, TLAPS

-----------------------------------------------------------------------------
(* The inductive invariant.                                                  *)

AnyRow == UserRow \cup TenantRow \cup MemberRow
Rank == TenantRole \cup {Platform, NoRow}
Invitation ==
    [tenant : Tenants, email : {EmailOf[u] : u \in Users}, role : TenantRole,
     status : InvitationStatus, expired : BOOLEAN, rank : Rank]

UserKinds == {"profile", "password", "reset_password", "edit_user", "disable_user", "confirm_reset"}
TenantKinds == {"billing", "settings", "suspend", "reactivate"}
MemberKinds ==
    {"change_role", "change_active", "change_member", "remove_member", "remove_membership"}

RequestsInv ==
    /\ pc \in [Requests -> {"idle", "busy", "done"}]
    /\ call = [r \in Requests |-> call[r]]
    /\ seen = [r \in Requests |-> seen[r]]
    /\ opened = [r \in Requests |-> opened[r]]
    /\ rank \in [Requests -> Rank]

RowsInv ==
    /\ WellFormed(row, next)
    /\ next \in Nat

(* What a request may rely on until it writes. *)
CallInv(r) ==
    LET c == call[r] IN
    pc[r] = "busy" =>
        /\ c \in CallColumns
        /\ c.kind \in UserKinds =>
              Exists(c.user) /\ seen[r] \in UserRow /\ seen[r].password < next
        /\ c.kind \in TenantKinds => Exists(c.tenant) /\ seen[r] \in TenantRow
        /\ c.kind \in MemberKinds =>
              Exists(c.tenant) /\ Exists(c.user) /\ seen[r] \in MemberRow
        /\ c.kind \in {"change_role", "change_member"} /\ c.role = "owner" => rank[r] = "owner"
        /\ c.kind = "assign_tenant" => Exists(c.tenant) /\ Exists(c.user)
        /\ c.kind = "create_user" => Exists(c.tenant)
        /\ c.kind = "invite" =>
              Exists(c.tenant) /\ (c.role = "owner" => rank[r] = "owner")
        /\ c.kind \in {"cancel", "accept"} =>
              seen[r].i \in DOMAIN invite /\ seen[r].status = "pending"
        /\ c.kind = "accept" /\ seen[r].account => Exists(c.user)

InvitationsInv ==
    /\ invite \in Seq(Invitation)
    /\ \A i \in DOMAIN invite :
          /\ Exists(invite[i].tenant)
          /\ invite[i].role = "owner" => invite[i].rank \in {"owner", Platform}
    /\ outcomes \in Seq(Seq(InvitationStatus))
    /\ Len(outcomes) = Len(invite)
    /\ contested \subseteq DOMAIN invite
    /\ InvitationSettlesOnce

(* A link set a password already: the account has another one now, or was    *)
(* written back.                                                             *)
Spent(link) == link[1] \in trampled \/ row[link[1]].password # link[2]

(* A request that has come with no link has opened none. *)
OpenedInv(r) ==
    /\ opened[r] # NoRow => opened[r] \in links
    /\ pc[r] = "idle" => opened[r] = NoRow
    /\ pc[r] = "busy" =>
          opened[r] = IF call[r].kind = "confirm_reset"
                      THEN <<call[r].user, seen[r].password>> ELSE NoRow
    /\ pc[r] = "done" /\ opened[r] # NoRow => Spent(opened[r])

LinksInv ==
    /\ links \subseteq Users \X Nat
    /\ \A link \in links : Exists(link[1]) /\ link[2] < next
    /\ \A r \in Requests : OpenedInv(r)
    /\ LinkWorksOnce

TenancyInv ==
    /\ RequestsInv
    /\ RowsInv
    /\ \A r \in Requests : CallInv(r)
    /\ InvitationsInv
    /\ LinksInv

-----------------------------------------------------------------------------
(* Columns put over a row.                                                   *)

LEMMA NoColumns ==
    ASSUME NEW f, f = [x \in DOMAIN f |-> f[x]]
    PROVE  Over(<<>>, f) = f
<1>1. DOMAIN <<>> = {}
    OBVIOUS
<1> QED BY <1>1 DEF Over

LEMMA UserColumns ==
    ASSUME NEW f \in UserRow, NEW b \in BOOLEAN, NEW n \in Nat
    PROVE  /\ Over(<<>>, f) = f
           /\ Over([active |-> b], f) \in UserRow
           /\ Over([active |-> b], f).password = f.password
           /\ Over([password |-> n], f) \in UserRow
           /\ Over([password |-> n], f).password = n
<1>1. f = [x \in DOMAIN f |-> f[x]] /\ DOMAIN f = {"active", "password"}
    BY DEF UserRow
<1>2. Over(<<>>, f) = f
    BY <1>1, NoColumns
<1>3. DOMAIN [active |-> b] = {"active"} /\ DOMAIN [password |-> n] = {"password"}
    OBVIOUS
<1>4. /\ Over([active |-> b], f) = [active |-> b, password |-> f.password]
      /\ Over([password |-> n], f) = [active |-> f.active, password |-> n]
    BY <1>1, <1>3 DEF Over
<1> QED BY <1>2, <1>4 DEF UserRow

LEMMA TenantColumns ==
    ASSUME NEW f \in TenantRow, NEW b \in BOOLEAN, NEW n \in Nat
    PROVE  /\ Over(<<>>, f) = f
           /\ Over([active |-> b], f) \in TenantRow
           /\ Over([max |-> n], f) \in TenantRow
<1>1. f = [x \in DOMAIN f |-> f[x]] /\ DOMAIN f = {"active", "max"}
    BY DEF TenantRow
<1>2. Over(<<>>, f) = f
    BY <1>1, NoColumns
<1>3. DOMAIN [active |-> b] = {"active"} /\ DOMAIN [max |-> n] = {"max"}
    OBVIOUS
<1>4. /\ Over([active |-> b], f) = [active |-> b, max |-> f.max]
      /\ Over([max |-> n], f) = [active |-> f.active, max |-> n]
    BY <1>1, <1>3 DEF Over
<1> QED BY <1>2, <1>4 DEF TenantRow

LEMMA MemberColumns ==
    ASSUME NEW f \in MemberRow, NEW b \in BOOLEAN, NEW x \in TenantRole
    PROVE  /\ Over([active |-> b], f) \in MemberRow
           /\ Over([active |-> b], f).role = f.role
           /\ Over([role |-> x], f) \in MemberRow
           /\ Over([role |-> x], f).role = x
           /\ Over([role |-> x, active |-> b], f) \in MemberRow
           /\ Over([role |-> x, active |-> b], f).role = x
<1>1. f = [y \in DOMAIN f |-> f[y]] /\ DOMAIN f = {"active", "role", "id"}
    BY DEF MemberRow
<1>2. /\ DOMAIN [active |-> b] = {"active"} /\ DOMAIN [role |-> x] = {"role"}
      /\ DOMAIN [role |-> x, active |-> b] = {"role", "active"}
    OBVIOUS
<1>3. /\ Over([active |-> b], f) = [active |-> b, role |-> f.role, id |-> f.id]
      /\ Over([role |-> x], f) = [active |-> f.active, role |-> x, id |-> f.id]
      /\ Over([role |-> x, active |-> b], f) = [active |-> b, role |-> x, id |-> f.id]
    BY <1>1, <1>2 DEF Over
<1> QED BY <1>3 DEF MemberRow

-----------------------------------------------------------------------------
(* Rows written: the tables stay well formed, and keep what the requests     *)
(* rely on.                                                                  *)

Kept ==
    /\ next' \in Nat /\ next <= next'
    /\ trampled \subseteq trampled'
    /\ \A k \in Users \cup Tenants : Exists(k) => row'[k] # NoRow
    /\ \A u \in Users : Exists(u) =>
          \/ u \in trampled'
          \/ row'[u].password = row[u].password
          \/ row'[u].password >= next

LEMMA KeyKinds ==
    /\ \A k \in Users \cup Tenants : k \in Keys
    /\ \A t \in Tenants, u \in Users : <<t, u>> \in Keys /\ t # u
    /\ \A t \in Tenants, u \in Users, k \in Users \cup Tenants : <<t, u>> # k
    /\ \A k \in Keys : k \in Users \/ k \in Tenants \/ \E t \in Tenants, u \in Users : k = <<t, u>>
<1>1. /\ OtherRows = Tenants \cup (Tenants \X Users)
      /\ Users \cap OtherRows = {} /\ Tenants \cap (Tenants \X Users) = {}
    BY TenancyAssumption
<1> QED BY <1>1 DEF Keys

LEMMA NoRowKinds ==
    /\ NoRow \notin UserRow
    /\ NoRow \notin TenantRow
    /\ NoRow \notin MemberRow
BY TenancyAssumption

LEMMA RowFacts ==
    ASSUME RowsInv
    PROVE  /\ row \in [Keys -> AnyRow \cup {NoRow}]
           /\ next \in Nat
           /\ \A u \in Users : Exists(u) =>
                 row[u] \in UserRow /\ row[u].password \in Nat /\ row[u].password < next
           /\ \A t \in Tenants : Exists(t) => row[t] \in TenantRow
           /\ \A t \in Tenants, u \in Users : Exists(<<t, u>>) =>
                 row[<<t, u>>] \in MemberRow /\ Exists(t) /\ Exists(u)
BY DEF RowsInv, WellFormed, AnyRow, Exists, UserRow

LEMMA PutUser ==
    ASSUME RowsInv, NEW u \in Users, NEW v \in UserRow,
           next' \in Nat, next <= next', v.password < next',
           trampled \subseteq trampled',
           u \in trampled' \/ v.password = row[u].password \/ v.password >= next,
           row' = [row EXCEPT ![u] = v]
    PROVE  WellFormed(row', next') /\ Kept
<1>1. /\ row' \in [Keys -> AnyRow \cup {NoRow}]
      /\ row'[u] = v /\ v # NoRow
      /\ \A k \in Keys : k # u => row'[k] = row[k]
    BY RowFacts, KeyKinds, NoRowKinds DEF AnyRow
<1>2. \A w \in Users : row'[w] # NoRow => row'[w] \in UserRow /\ row'[w].password < next'
    <2> TAKE w \in Users
    <2>1. CASE w = u
        BY <1>1, <2>1
    <2>2. CASE w # u
        BY <1>1, <2>2, RowFacts, KeyKinds DEF Exists
    <2> QED BY <2>1, <2>2
<1>3. \A t \in Tenants : row'[t] = row[t]
    BY <1>1, KeyKinds
<1>4. \A t \in Tenants, w \in Users : row'[<<t, w>>] = row[<<t, w>>]
    BY <1>1, KeyKinds
<1>5. \A k \in Users \cup Tenants : Exists(k) => row'[k] # NoRow
    BY <1>1, KeyKinds DEF Exists
<1>6. WellFormed(row', next')
    BY <1>1, <1>2, <1>3, <1>4, <1>5, RowFacts DEF WellFormed, AnyRow, Exists
<1>7. Kept
    BY <1>1, <1>5, KeyKinds DEF Kept
<1> QED BY <1>6, <1>7

LEMMA PutTenant ==
    ASSUME RowsInv, NEW t \in Tenants, NEW v \in TenantRow,
           next' = next, trampled \subseteq trampled',
           row' = [row EXCEPT ![t] = v]
    PROVE  WellFormed(row', next') /\ Kept
<1>1. /\ row' \in [Keys -> AnyRow \cup {NoRow}]
      /\ row'[t] = v /\ v # NoRow
      /\ \A k \in Keys : k # t => row'[k] = row[k]
    BY RowFacts, KeyKinds, NoRowKinds DEF AnyRow
<1>2. \A s \in Tenants : row'[s] # NoRow => row'[s] \in TenantRow
    BY <1>1, RowFacts, KeyKinds DEF Exists
<1>3. \A u \in Users : row'[u] = row[u]
    BY <1>1, KeyKinds
<1>4. \A s \in Tenants, u \in Users : row'[<<s, u>>] = row[<<s, u>>]
    BY <1>1, KeyKinds
<1>5. \A k \in Users \cup Tenants : Exists(k) => row'[k] # NoRow
    BY <1>1, KeyKinds DEF Exists
<1>6. WellFormed(row', next')
    BY <1>1, <1>2, <1>3, <1>4, <1>5, RowFacts DEF WellFormed, AnyRow, Exists
<1>7. Kept
    BY <1>3, <1>5, RowFacts DEF Kept
<1> QED BY <1>6, <1>7

LEMMA PutMember ==
    ASSUME RowsInv, NEW t \in Tenants, NEW u \in Users, NEW v \in MemberRow \cup {NoRow},
           Exists(t), Exists(u),
           next' = next, trampled \subseteq trampled',
           row' = [row EXCEPT ![<<t, u>>] = v]
    PROVE  WellFormed(row', next') /\ Kept
<1>1. /\ row' \in [Keys -> AnyRow \cup {NoRow}]
      /\ row'[<<t, u>>] = v
      /\ \A k \in Keys : k # <<t, u>> => row'[k] = row[k]
    BY RowFacts, KeyKinds DEF AnyRow
<1>2. \A k \in Users \cup Tenants : row'[k] = row[k]
    BY <1>1, KeyKinds
<1>3. \A s \in Tenants, w \in Users : row'[<<s, w>>] # NoRow =>
          row'[<<s, w>>] \in MemberRow /\ Exists(s) /\ Exists(w)
    BY <1>1, RowFacts, KeyKinds DEF Exists
<1>4. WellFormed(row', next')
    BY <1>1, <1>2, <1>3, RowFacts DEF WellFormed, AnyRow, Exists
<1>5. Kept
    BY <1>2, RowFacts DEF Kept, Exists
<1> QED BY <1>4, <1>5

LEMMA PutRows ==
    ASSUME RowsInv, NEW rows, DOMAIN rows \subseteq Keys,
           row' = Over(rows, row), next' = next + 1, trampled' = trampled,
           \A u \in Users : u \in DOMAIN rows =>
               rows[u] \in UserRow /\ rows[u].password = next /\ ~Exists(u),
           \A t \in Tenants : t \in DOMAIN rows => rows[t] \in TenantRow,
           \A t \in Tenants, u \in Users : <<t, u>> \in DOMAIN rows =>
               rows[<<t, u>>] \in MemberRow /\ row'[t] # NoRow /\ row'[u] # NoRow
    PROVE  WellFormed(row', next') /\ Kept
<1>1. /\ row' = [k \in Keys |-> IF k \in DOMAIN rows THEN rows[k] ELSE row[k]]
      /\ next \in Nat
    BY RowFacts DEF Over
<1>2. \A k \in Keys : k \in DOMAIN rows => rows[k] \in AnyRow /\ rows[k] # NoRow
    BY KeyKinds, NoRowKinds DEF AnyRow
<1>3. row' \in [Keys -> AnyRow \cup {NoRow}]
    BY <1>1, <1>2, RowFacts
<1>4. \A k \in Users \cup Tenants : Exists(k) => row'[k] # NoRow
    BY <1>1, <1>2, KeyKinds DEF Exists
<1>5. \A u \in Users : row'[u] # NoRow => row'[u] \in UserRow /\ row'[u].password < next'
    <2> SUFFICES ASSUME NEW u \in Users, row'[u] # NoRow
                 PROVE  row'[u] \in UserRow /\ row'[u].password < next'
        OBVIOUS
    <2>1. CASE u \in DOMAIN rows
        BY <1>1, <2>1, KeyKinds
    <2>2. CASE u \notin DOMAIN rows
        BY <1>1, <2>2, KeyKinds, RowFacts DEF Exists
    <2> QED BY <2>1, <2>2
<1>6. \A t \in Tenants : row'[t] # NoRow => row'[t] \in TenantRow
    BY <1>1, KeyKinds, RowFacts DEF Exists
<1>7. \A t \in Tenants, u \in Users : row'[<<t, u>>] # NoRow =>
          row'[<<t, u>>] \in MemberRow /\ row'[t] # NoRow /\ row'[u] # NoRow
    <2> SUFFICES ASSUME NEW t \in Tenants, NEW u \in Users, row'[<<t, u>>] # NoRow
                 PROVE  row'[<<t, u>>] \in MemberRow /\ row'[t] # NoRow /\ row'[u] # NoRow
        OBVIOUS
    <2>1. CASE <<t, u>> \in DOMAIN rows
        BY <1>1, <2>1, KeyKinds
    <2>2. CASE <<t, u>> \notin DOMAIN rows
        BY <1>1, <1>4, <2>2, KeyKinds, RowFacts DEF Exists
    <2> QED BY <2>1, <2>2
<1>8. WellFormed(row', next')
    BY <1>3, <1>5, <1>6, <1>7 DEF WellFormed, AnyRow
<1>9. \A u \in Users : Exists(u) => row'[u] = row[u]
    BY <1>1, KeyKinds
<1>10. Kept
    BY <1>1, <1>4, <1>9 DEF Kept
<1> QED BY <1>8, <1>10

-----------------------------------------------------------------------------
(* The ways of writing.                                                      *)

LEMMA Saved ==
    ASSUME RowsInv, NEW r \in Requests, NEW k, NEW columns, Save(r, k, columns)
    PROVE  /\ row' = [row EXCEPT ![k] = Over(columns, seen[r])]
           /\ trampled \subseteq trampled'
           /\ k \in trampled' \/ row[k] = seen[r]
BY DEF Save

LEMMA FieldsSaved ==
    ASSUME RowsInv, NEW r \in Requests, NEW k, NEW columns, SaveFields(r, k, columns)
    PROVE  /\ row' = [row EXCEPT ![k] = IF Exists(k) THEN Over(columns, row[k]) ELSE NoRow]
           /\ trampled' = trampled
BY DEF SaveFields, Exists

LEMMA NothingWritten ==
    ASSUME RowsInv, UNCHANGED tableVars
    PROVE  RowsInv' /\ Kept
<1>1. RowsInv'
    BY DEF RowsInv, WellFormed, tableVars
<1>2. Kept
    BY RowFacts DEF Kept, tableVars, Exists
<1> QED BY <1>1, <1>2

LEMMA RowsParts ==
    ASSUME WellFormed(row', next'), Kept
    PROVE  RowsInv' /\ Kept
BY DEF RowsInv, Kept

-----------------------------------------------------------------------------
(* Each way of writing, on each table.                                       *)

LEMMA SaveUser ==
    ASSUME RowsInv, NEW r \in Requests, NEW u \in Users, NEW columns,
           seen[r] \in UserRow, seen[r].password < next,
           NEW v \in UserRow, v = Over(columns, seen[r]),
           Save(r, u, columns),
           \/ v.password = seen[r].password /\ next' = next
           \/ v.password = next /\ next' = next + 1
    PROVE  /\ RowsInv' /\ Kept
           /\ row' = [row EXCEPT ![u] = v]
           /\ u \in trampled' \/ row[u] = seen[r]
<1>1. u \in Keys /\ seen[r] # NoRow
    BY KeyKinds, NoRowKinds
<1>2. /\ row' = [row EXCEPT ![u] = v]
      /\ trampled \subseteq trampled'
      /\ u \in trampled' \/ row[u] = seen[r]
    BY <1>1, Saved
<1>3. /\ next' \in Nat /\ next <= next' /\ v.password < next'
      /\ u \in trampled' \/ v.password = row[u].password \/ v.password >= next
    BY <1>2, RowFacts
<1>4. WellFormed(row', next') /\ Kept
    BY <1>2, <1>3, PutUser
<1> QED BY <1>2, <1>4, RowsParts

LEMMA SaveTenant ==
    ASSUME RowsInv, NEW r \in Requests, NEW t \in Tenants, NEW columns,
           seen[r] \in TenantRow, Over(columns, seen[r]) \in TenantRow,
           Save(r, t, columns), next' = next
    PROVE  /\ RowsInv' /\ Kept
           /\ row' = [row EXCEPT ![t] = Over(columns, seen[r])]
<1>1. t \in Keys /\ seen[r] # NoRow
    BY KeyKinds, NoRowKinds
<1>2. /\ row' = [row EXCEPT ![t] = Over(columns, seen[r])]
      /\ trampled \subseteq trampled'
    BY <1>1, Saved
<1>3. WellFormed(row', next') /\ Kept
    BY <1>2, PutTenant
<1> QED BY <1>2, <1>3, RowsParts

LEMMA SaveMember ==
    ASSUME RowsInv, NEW r \in Requests, NEW t \in Tenants, NEW u \in Users, NEW columns,
           Exists(t), Exists(u),
           seen[r] \in MemberRow, Over(columns, seen[r]) \in MemberRow,
           Save(r, <<t, u>>, columns), next' = next
    PROVE  /\ RowsInv' /\ Kept
           /\ row' = [row EXCEPT ![<<t, u>>] = Over(columns, seen[r])]
           /\ <<t, u>> \in trampled' \/ row[<<t, u>>] = seen[r]
<1>1. <<t, u>> \in Keys /\ seen[r] # NoRow
    BY KeyKinds, NoRowKinds
<1>2. /\ row' = [row EXCEPT ![<<t, u>>] = Over(columns, seen[r])]
      /\ trampled \subseteq trampled'
      /\ <<t, u>> \in trampled' \/ row[<<t, u>>] = seen[r]
    BY <1>1, Saved
<1>3. WellFormed(row', next') /\ Kept
    BY <1>2, PutMember
<1> QED BY <1>2, <1>3, RowsParts

LEMMA FieldsUser ==
    ASSUME RowsInv, NEW r \in Requests, NEW u \in Users, NEW b \in BOOLEAN, Exists(u),
           SaveFields(r, u, [active |-> b]), next' = next
    PROVE  /\ RowsInv' /\ Kept
           /\ row' = [row EXCEPT ![u] = Over([active |-> b], row[u])]
<1> DEFINE v == Over([active |-> b], row[u])
<1>1. u \in Keys
    BY KeyKinds
<1>2. /\ row' = [row EXCEPT ![u] = v]
      /\ trampled \subseteq trampled'
    BY <1>1, FieldsSaved
<1>3. row[u] \in UserRow /\ row[u].password < next /\ next \in Nat
    BY RowFacts
<1>4. v \in UserRow /\ v.password = row[u].password
    BY <1>3, UserColumns
<1>5. WellFormed(row', next') /\ Kept
    <2> HIDE DEF v
    <2>1. next' \in Nat /\ next <= next' /\ v.password < next'
        BY <1>3, <1>4
    <2> QED BY <1>2, <1>4, <2>1, PutUser
<1> QED BY <1>2, <1>5, RowsParts

LEMMA FieldsTenant ==
    ASSUME RowsInv, NEW r \in Requests, NEW t \in Tenants, NEW b \in BOOLEAN, Exists(t),
           SaveFields(r, t, [active |-> b]), next' = next
    PROVE  /\ RowsInv' /\ Kept
           /\ row' = [row EXCEPT ![t] = Over([active |-> b], row[t])]
<1>1. t \in Keys
    BY KeyKinds
<1>2. /\ row' = [row EXCEPT ![t] = Over([active |-> b], row[t])]
      /\ trampled \subseteq trampled'
    BY <1>1, FieldsSaved
<1>3. row[t] \in TenantRow
    BY RowFacts
<1>4. Over([active |-> b], row[t]) \in TenantRow
    BY <1>3, TenantColumns
<1>5. WellFormed(row', next') /\ Kept
    BY <1>2, <1>4, PutTenant
<1> QED BY <1>2, <1>5, RowsParts

LEMMA FieldsMember ==
    ASSUME RowsInv, NEW r \in Requests, NEW t \in Tenants, NEW u \in Users, NEW b \in BOOLEAN,
           Exists(t), Exists(u),
           SaveFields(r, <<t, u>>, [active |-> b]), next' = next
    PROVE  /\ RowsInv' /\ Kept
           /\ row' = [row EXCEPT ![<<t, u>>] =
                          IF Exists(<<t, u>>) THEN Over([active |-> b], row[<<t, u>>]) ELSE NoRow]
<1> DEFINE v == IF Exists(<<t, u>>) THEN Over([active |-> b], row[<<t, u>>]) ELSE NoRow
<1>1. <<t, u>> \in Keys
    BY KeyKinds
<1>2. /\ row' = [row EXCEPT ![<<t, u>>] = v]
      /\ trampled \subseteq trampled'
    BY <1>1, FieldsSaved
<1>3. v \in MemberRow \cup {NoRow}
    <2>1. "viewer" \in TenantRole
        BY DEF TenantRole
    <2> QED BY <2>1, RowFacts, MemberColumns
<1>4. WellFormed(row', next') /\ Kept
    <2> HIDE DEF v
    <2> QED BY <1>2, <1>3, PutMember
<1> QED BY <1>2, <1>4, RowsParts

-----------------------------------------------------------------------------
(* A step of one request, or of none, as the others see it.                  *)

Untouched(s) ==
    /\ pc'[s] = pc[s] /\ call'[s] = call[s] /\ seen'[s] = seen[s]
    /\ opened'[s] = opened[s] /\ rank'[s] = rank[s]

LEMMA InvParts ==
    TenancyInv => /\ RequestsInv /\ RowsInv /\ InvitationsInv /\ LinksInv
                  /\ \A r \in Requests : CallInv(r) /\ OpenedInv(r)
BY DEF TenancyInv, LinksInv

LEMMA CallKept ==
    ASSUME TenancyInv, Kept, DOMAIN invite \subseteq DOMAIN invite',
           NEW s \in Requests, Untouched(s)
    PROVE  CallInv(s)'
<1>1. CallInv(s) /\ RowsInv
    BY InvParts
<1> USE DEF Untouched
<1>2. SUFFICES ASSUME pc[s] = "busy"
               PROVE  CallInv(s)'
    BY DEF CallInv
<1>3. call[s].user \in Users /\ call[s].tenant \in Tenants
    BY <1>1, <1>2 DEF CallInv, CallColumns
<1>4. /\ Exists(call[s].user) => row'[call[s].user] # NoRow
      /\ Exists(call[s].tenant) => row'[call[s].tenant] # NoRow
    BY <1>3 DEF Kept
<1>5. seen[s] \in UserRow /\ seen[s].password < next => seen[s].password < next'
    BY <1>1, RowFacts DEF Kept, UserRow
<1> QED BY <1>1, <1>2, <1>4, <1>5 DEF CallInv, Exists

LEMMA SpentKept ==
    ASSUME TenancyInv, Kept, NEW link \in links, Spent(link)
    PROVE  Spent(link)'
<1>1. link \in Users \X Nat /\ Exists(link[1]) /\ link[2] < next /\ RowsInv
    BY InvParts DEF LinksInv
<1>2. link[1] \in Users /\ link[2] \in Nat
    BY <1>1
<1>3. row[link[1]] \in UserRow /\ row[link[1]].password \in Nat /\ next \in Nat
    BY <1>1, <1>2, RowFacts
<1>4. CASE link[1] \in trampled
    BY <1>4 DEF Spent, Kept
<1>5. CASE row[link[1]].password # link[2]
    <2>1. \/ link[1] \in trampled'
          \/ row'[link[1]].password = row[link[1]].password
          \/ row'[link[1]].password >= next
        BY <1>1, <1>2 DEF Kept
    <2>2. row'[link[1]].password >= next => row'[link[1]].password # link[2]
        <3>1. next > link[2]
            BY <1>1, <1>2, <1>3
        <3>2. ~(link[2] >= next)
            BY <3>1, <1>2, <1>3
        <3> QED BY <3>2
    <2> QED BY <2>1, <2>2, <1>5 DEF Spent
<1> QED BY <1>4, <1>5 DEF Spent

LEMMA OpenedKept ==
    ASSUME TenancyInv, Kept, links \subseteq links',
           NEW s \in Requests, Untouched(s)
    PROVE  OpenedInv(s)'
<1>1. OpenedInv(s)
    BY InvParts
<1>2. ASSUME pc[s] = "done", opened[s] # NoRow
      PROVE  opened'[s][1] \in trampled' \/ row'[opened'[s][1]].password # opened'[s][2]
    <2>1. PICK link \in links : link = opened[s]
        BY <1>1, <1>2 DEF OpenedInv
    <2>2. Spent(link)
        BY <1>1, <1>2, <2>1 DEF OpenedInv
    <2>3. Spent(link)'
        BY <2>2, SpentKept
    <2>4. link[1] \in trampled' \/ row'[link[1]].password # link[2]
        BY <2>3 DEF Spent
    <2>5. opened'[s] = link
        BY <2>1 DEF Untouched
    <2> QED BY <2>4, <2>5
<1> QED BY <1>1, <1>2 DEF OpenedInv, Untouched, Spent

LEMMA LinkRowsKept ==
    ASSUME TenancyInv, Kept, NEW link \in links
    PROVE  row'[link[1]] # NoRow /\ link[2] < next'
<1>1. link \in Users \X Nat /\ Exists(link[1]) /\ link[2] < next /\ RowsInv
    BY InvParts DEF LinksInv
<1>2. link[1] \in Users /\ link[2] \in Nat /\ next \in Nat
    BY <1>1, RowFacts
<1> QED BY <1>1, <1>2 DEF Kept

(* Nothing the invitations rely on is undone by a step that leaves them.     *)
LEMMA InvitationsKept ==
    ASSUME TenancyInv, Kept, UNCHANGED inviteVars
    PROVE  InvitationsInv'
<1>1. InvitationsInv
    BY InvParts
<1>2. \A i \in DOMAIN invite : row'[invite[i].tenant] # NoRow
    <2>1. \A i \in DOMAIN invite : invite[i].tenant \in Tenants /\ Exists(invite[i].tenant)
        <3>1. \A i \in DOMAIN invite : invite[i] \in Invitation
            BY <1>1 DEF InvitationsInv
        <3> QED BY <3>1, <1>1 DEF InvitationsInv, Invitation
    <2> QED BY <2>1 DEF Kept
<1> QED BY <1>1, <1>2 DEF InvitationsInv, InvitationSettlesOnce, inviteVars, Exists

-----------------------------------------------------------------------------
(* A request begins, or has written and answers: what is left to show of     *)
(* each handler.                                                             *)

LEMMA BeginInv ==
    ASSUME TenancyInv, NEW r \in Requests, NEW c, NEW saw,
           Start(r, c, saw), UNCHANGED <<tableVars, inviteVars, links>>,
           rank' \in [Requests -> Rank],
           \A s \in Requests : s # r => rank'[s] = rank[s],
           CallInv(r)',
           \/ c.kind # "confirm_reset" /\ opened' = opened
           \/ /\ c.kind = "confirm_reset"
              /\ \E link \in links :
                    link = <<c.user, saw.password>> /\ opened' = [opened EXCEPT ![r] = link]
    PROVE  TenancyInv'
<1>1. /\ RequestsInv /\ RowsInv /\ InvitationsInv /\ LinksInv
      /\ \A s \in Requests : CallInv(s) /\ OpenedInv(s)
    BY InvParts
<1>2. RowsInv' /\ Kept
    BY <1>1, NothingWritten
<1>3. InvitationsInv'
    BY <1>2, InvitationsKept
<1>4. /\ pc[r] = "idle" /\ pc'[r] = "busy" /\ call'[r] = c /\ seen'[r] = saw
      /\ \A s \in Requests : s # r => pc'[s] = pc[s] /\ call'[s] = call[s] /\ seen'[s] = seen[s]
      /\ \A s \in Requests : s # r => opened'[s] = opened[s]
      /\ opened' = [s \in Requests |-> opened'[s]]
    BY <1>1 DEF RequestsInv, Start
<1>5. RequestsInv'
    BY <1>1, <1>4 DEF RequestsInv, Start
<1>6. \A s \in Requests : s # r => CallInv(s)' /\ OpenedInv(s)'
    <2> SUFFICES ASSUME NEW s \in Requests, s # r
                 PROVE  CallInv(s)' /\ OpenedInv(s)'
        OBVIOUS
    <2>1. Untouched(s)
        BY <1>4 DEF Untouched
    <2>2. DOMAIN invite \subseteq DOMAIN invite' /\ links \subseteq links'
        BY DEF inviteVars
    <2> QED BY <1>2, <2>1, <2>2, CallKept, OpenedKept
<1>7. OpenedInv(r)'
    <2>1. opened[r] = NoRow
        BY <1>1, <1>4 DEF OpenedInv
    <2>2. CASE c.kind # "confirm_reset" /\ opened' = opened
        BY <1>4, <2>1, <2>2 DEF OpenedInv
    <2>3. CASE /\ c.kind = "confirm_reset"
               /\ \E link \in links :
                     link = <<c.user, saw.password>> /\ opened' = [opened EXCEPT ![r] = link]
        <3>1. PICK link \in links :
                  link = <<c.user, saw.password>> /\ opened' = [opened EXCEPT ![r] = link]
            BY <2>3
        <3>2. opened'[r] = link
            BY <1>1, <3>1 DEF RequestsInv
        <3> QED BY <1>4, <2>3, <3>1, <3>2 DEF OpenedInv
    <2> QED BY <2>2, <2>3
<1>8. LinkWorksOnce'
    BY <1>1, <1>4 DEF LinksInv, LinkWorksOnce, tableVars
<1>9. LinksInv'
    BY <1>1, <1>2, <1>6, <1>7, <1>8, LinkRowsKept DEF LinksInv, Exists
<1> QED BY <1>2, <1>3, <1>5, <1>6, <1>9 DEF TenancyInv

LEMMA FinishInv ==
    ASSUME TenancyInv, NEW r \in Requests, pc[r] = "busy", Answer(r),
           UNCHANGED <<linkVars, rank>>,
           RowsInv', Kept, InvitationsInv', DOMAIN invite \subseteq DOMAIN invite',
           opened[r] # NoRow =>
               /\ opened[r][1] \in trampled' \/ row'[opened[r][1]].password # opened[r][2]
               /\ \A s \in Requests : pc[s] = "done" /\ opened[s] = opened[r] =>
                      opened[r][1] \in trampled'
    PROVE  TenancyInv'
<1>1. /\ RequestsInv /\ RowsInv /\ InvitationsInv /\ LinksInv
      /\ \A s \in Requests : CallInv(s) /\ OpenedInv(s)
    BY InvParts
<1>2. /\ pc'[r] = "done"
      /\ \A s \in Requests : s # r => pc'[s] = pc[s]
      /\ links' = links /\ opened' = opened /\ call' = call /\ seen' = seen /\ rank' = rank
    BY <1>1 DEF RequestsInv, Answer, linkVars
<1>3. RequestsInv'
    BY <1>1, <1>2 DEF RequestsInv, Answer
<1>4. \A s \in Requests : s # r => CallInv(s)' /\ OpenedInv(s)'
    <2> SUFFICES ASSUME NEW s \in Requests, s # r
                 PROVE  CallInv(s)' /\ OpenedInv(s)'
        OBVIOUS
    <2>1. Untouched(s) /\ links \subseteq links'
        BY <1>2 DEF Untouched
    <2> QED BY <2>1, CallKept, OpenedKept
<1>5. CallInv(r)'
    BY <1>2 DEF CallInv
<1>6. OpenedInv(r)'
    BY <1>1, <1>2 DEF OpenedInv, Spent
<1>7. LinkWorksOnce'
    <2> SUFFICES ASSUME NEW s \in Requests, NEW w \in Requests,
                        s # w, pc'[s] = "done", pc'[w] = "done",
                        opened[s] = opened[w], opened[s] # NoRow
                 PROVE  opened[s][1] \in trampled'
        BY <1>2 DEF LinkWorksOnce
    <2>1. CASE s = r \/ w = r
        BY <1>2, <2>1
    <2>2. CASE s # r /\ w # r
        BY <1>1, <1>2, <2>2 DEF LinksInv, LinkWorksOnce, Kept
    <2> QED BY <2>1, <2>2
<1>8. LinksInv'
    BY <1>1, <1>2, <1>4, <1>6, <1>7, LinkRowsKept DEF LinksInv, Exists
<1> QED BY <1>3, <1>4, <1>5, <1>8 DEF TenancyInv

(* A handler that was sent no reset link. *)
LEMMA AnswerInv ==
    ASSUME TenancyInv, NEW r \in Requests,
           pc[r] = "busy", call[r].kind # "confirm_reset", Answer(r),
           UNCHANGED <<linkVars, rank>>,
           RowsInv', Kept, InvitationsInv', DOMAIN invite \subseteq DOMAIN invite'
    PROVE  TenancyInv'
<1>1. opened[r] = NoRow
    BY InvParts DEF OpenedInv
<1> QED BY <1>1, FinishInv

LEMMA WriteInv ==
    ASSUME TenancyInv, NEW r \in Requests,
           pc[r] = "busy", call[r].kind # "confirm_reset", Answer(r),
           UNCHANGED <<linkVars, rank, inviteVars>>, RowsInv', Kept
    PROVE  TenancyInv'
<1>1. InvitationsInv'
    BY InvitationsKept
<1>2. DOMAIN invite \subseteq DOMAIN invite'
    BY DEF inviteVars
<1> QED BY <1>1, <1>2, AnswerInv

LEMMA RefusedInv ==
    ASSUME TenancyInv, NEW r \in Requests,
           pc[r] = "busy", call[r].kind # "confirm_reset", Refused(r),
           UNCHANGED <<linkVars, rank, inviteVars>>
    PROVE  TenancyInv'
<1>1. Answer(r) /\ UNCHANGED tableVars
    BY DEF Refused
<1>2. RowsInv' /\ Kept
    BY <1>1, InvParts, NothingWritten
<1> QED BY <1>1, <1>2, WriteInv

-----------------------------------------------------------------------------
(* The account calls.                                                        *)

LEMMA BusyCall ==
    ASSUME TenancyInv, NEW r \in Requests, pc[r] = "busy"
    PROVE  /\ RowsInv /\ CallInv(r) /\ next \in Nat
           /\ call[r].user \in Users /\ call[r].tenant \in Tenants
           /\ call[r].role \in TenantRole /\ call[r].on \in BOOLEAN
           /\ call[r].kind \in UserKinds =>
                 Exists(call[r].user) /\ seen[r] \in UserRow /\ seen[r].password < next
           /\ call[r].kind \in TenantKinds => Exists(call[r].tenant) /\ seen[r] \in TenantRow
           /\ call[r].kind \in MemberKinds =>
                 Exists(call[r].tenant) /\ Exists(call[r].user) /\ seen[r] \in MemberRow
BY InvParts, RowFacts DEF CallInv, CallColumns

LEMMA EditProfileInv ==
    ASSUME TenancyInv, NEW r \in Requests, EditProfile(r), UNCHANGED <<inviteVars, rank>>
    PROVE  TenancyInv'
<1>1. pc[r] = "busy" /\ call[r].kind = "profile" /\ Save(r, call[r].user, <<>>)
      /\ UNCHANGED <<next, linkVars>>
    BY DEF EditProfile, Busy
<1>2. PICK u \in Users : u = call[r].user
    BY <1>1, BusyCall
<1>3. RowsInv /\ seen[r] \in UserRow /\ seen[r].password < next /\ Save(r, u, <<>>)
    BY <1>1, <1>2, BusyCall DEF UserKinds
<1>4. Over(<<>>, seen[r]) = seen[r]
    BY <1>3, NoColumns DEF UserRow
<1>5. RowsInv' /\ Kept
    BY <1>1, <1>3, <1>4, SaveUser
<1> QED BY <1>1, <1>5, WriteInv DEF Save

LEMMA PasswordSaved ==
    ASSUME TenancyInv, NEW r \in Requests, pc[r] = "busy", call[r].kind \in UserKinds,
           Save(r, call[r].user, [password |-> next]), next' = next + 1
    PROVE  /\ RowsInv' /\ Kept
           /\ row'[call[r].user].password = next
           /\ call[r].user \in trampled' \/ row[call[r].user] = seen[r]
<1>1. PICK u \in Users : u = call[r].user
    BY BusyCall
<1>2. PICK n \in Nat : n = next
    BY BusyCall
<1>3. RowsInv /\ seen[r] \in UserRow /\ seen[r].password < next
    BY BusyCall
<1> DEFINE v == Over([password |-> n], seen[r])
<1>4. v \in UserRow /\ v.password = n
    BY <1>3, UserColumns
<1>5. Save(r, u, [password |-> n])
    BY <1>1, <1>2
<1>6. /\ RowsInv' /\ Kept
      /\ row' = [row EXCEPT ![u] = v]
      /\ u \in trampled' \/ row[u] = seen[r]
    <2> DEFINE columns == [password |-> n]
    <2>1. v = Over(columns, seen[r]) /\ Save(r, u, columns)
        BY <1>5
    <2>2. \/ v.password = seen[r].password /\ next' = next
          \/ v.password = next /\ next' = next + 1
        BY <1>2, <1>4
    <2> HIDE DEF v, columns
    <2> QED BY <1>3, <1>4, <2>1, <2>2, SaveUser
<1>7. row'[u] = v
    BY <1>3, <1>6, RowFacts, KeyKinds
<1> QED BY <1>1, <1>2, <1>4, <1>6, <1>7

LEMMA SetPasswordInv ==
    ASSUME TenancyInv, NEW r \in Requests, SetPassword(r), UNCHANGED <<inviteVars, rank>>
    PROVE  TenancyInv'
<1>1. /\ pc[r] = "busy" /\ call[r].kind \in {"password", "reset_password"}
      /\ Save(r, call[r].user, [password |-> next])
      /\ next' = next + 1 /\ UNCHANGED linkVars
    BY DEF SetPassword, Busy
<1>2. RowsInv' /\ Kept
    BY <1>1, PasswordSaved DEF UserKinds
<1> QED BY <1>1, <1>2, WriteInv DEF Save

LEMMA EditUserInv ==
    ASSUME TenancyInv, NEW r \in Requests, EditUser(r), UNCHANGED <<inviteVars, rank>>
    PROVE  TenancyInv'
<1>1. /\ pc[r] = "busy" /\ call[r].kind = "edit_user"
      /\ Save(r, call[r].user, [active |-> call[r].on])
      /\ UNCHANGED <<next, linkVars>>
    BY DEF EditUser, Busy
<1>2. PICK u \in Users, b \in BOOLEAN : u = call[r].user /\ b = call[r].on
    BY <1>1, BusyCall
<1>3. RowsInv /\ seen[r] \in UserRow /\ seen[r].password < next /\ next \in Nat
    BY <1>1, BusyCall DEF UserKinds
<1> DEFINE columns == [active |-> b]
           v == Over(columns, seen[r])
<1>4. v \in UserRow /\ v.password = seen[r].password /\ Save(r, u, columns)
    BY <1>1, <1>2, <1>3, UserColumns
<1>5. RowsInv' /\ Kept
    <2>1. v = Over(columns, seen[r])
        OBVIOUS
    <2> HIDE DEF v, columns
    <2> QED BY <1>1, <1>3, <1>4, <2>1, SaveUser
<1> QED BY <1>1, <1>5, WriteInv DEF Save

LEMMA DisableUserInv ==
    ASSUME TenancyInv, NEW r \in Requests, DisableUser(r), UNCHANGED <<inviteVars, rank>>
    PROVE  TenancyInv'
<1>1. /\ pc[r] = "busy" /\ call[r].kind = "disable_user"
      /\ SaveFields(r, call[r].user, [active |-> FALSE])
      /\ UNCHANGED <<next, linkVars>>
    BY DEF DisableUser, Busy
<1>2. PICK u \in Users : u = call[r].user
    BY <1>1, BusyCall
<1>3. RowsInv /\ Exists(u)
    BY <1>1, <1>2, BusyCall DEF UserKinds
<1>4. PICK b \in BOOLEAN : b = FALSE
    OBVIOUS
<1>5. RowsInv' /\ Kept
    BY <1>1, <1>2, <1>3, <1>4, FieldsUser
<1> QED BY <1>1, <1>5, WriteInv DEF SaveFields

(* A link that was opened when it was valid: whoever else opened it has set  *)
(* another password by now, and this request's read of the account is old.   *)
LEMMA ConfirmResetInv ==
    ASSUME TenancyInv, NEW r \in Requests, ConfirmReset(r), UNCHANGED <<inviteVars, rank>>
    PROVE  TenancyInv'
<1>1. /\ pc[r] = "busy" /\ call[r].kind = "confirm_reset"
      /\ Save(r, call[r].user, [password |-> next])
      /\ next' = next + 1 /\ UNCHANGED linkVars
    BY DEF ConfirmReset, Busy
<1>2. PICK u \in Users : u = call[r].user
    BY <1>1, BusyCall
<1>3. /\ RowsInv' /\ Kept
      /\ row'[u].password = next
      /\ u \in trampled' \/ row[u] = seen[r]
    BY <1>1, <1>2, PasswordSaved DEF UserKinds
<1>4. /\ opened[r] = <<u, seen[r].password>>
      /\ seen[r] \in UserRow /\ seen[r].password < next /\ next \in Nat
    BY <1>1, <1>2, InvParts, BusyCall DEF OpenedInv, UserKinds
<1>5. row'[u].password # seen[r].password
    BY <1>3, <1>4 DEF UserRow
<1>6. ASSUME NEW s \in Requests, pc[s] = "done", opened[s] = opened[r], opened[r] # NoRow
      PROVE  u \in trampled'
    <2>1. Spent(opened[s])
        BY <1>6, InvParts DEF OpenedInv
    <2>2. u \in trampled \/ row[u].password # seen[r].password
        BY <1>4, <1>6, <2>1 DEF Spent
    <2> QED BY <1>3, <2>2 DEF Kept
<1>7. opened[r] # NoRow =>
          /\ opened[r][1] \in trampled' \/ row'[opened[r][1]].password # opened[r][2]
          /\ \A s \in Requests : pc[s] = "done" /\ opened[s] = opened[r] =>
                 opened[r][1] \in trampled'
    BY <1>4, <1>5, <1>6
<1>8. InvitationsInv' /\ DOMAIN invite \subseteq DOMAIN invite'
    BY <1>3, InvitationsKept DEF inviteVars
<1> QED BY <1>1, <1>3, <1>7, <1>8, FinishInv DEF Save

-----------------------------------------------------------------------------
(* Memberships and tenants written back.                                     *)

LEMMA ChangeMemberInv ==
    ASSUME TenancyInv, NEW r \in Requests, ChangeMember(r)
    PROVE  TenancyInv'
<1>1. /\ pc[r] = "busy" /\ call[r].kind \in {"change_role", "change_active", "change_member"}
      /\ UNCHANGED <<next, linkVars, inviteVars, rank>>
    BY DEF ChangeMember, Busy
<1>2. PICK t \in Tenants, u \in Users, x \in TenantRole, b \in BOOLEAN :
          t = call[r].tenant /\ u = call[r].user /\ x = call[r].role /\ b = call[r].on
    BY <1>1, BusyCall
<1>3. RowsInv /\ Exists(t) /\ Exists(u) /\ seen[r] \in MemberRow
    BY <1>1, <1>2, BusyCall DEF MemberKinds
<1>4. CASE Replaced(r, <<t, u>>)
    <2>1. Refused(r)
        BY <1>2, <1>4 DEF ChangeMember
    <2> QED BY <1>1, <2>1, RefusedInv
<1>5. CASE ~Replaced(r, <<t, u>>)
    <2>1. \/ Save(r, <<t, u>>, [role |-> x])
          \/ Save(r, <<t, u>>, [active |-> b])
          \/ Save(r, <<t, u>>, [role |-> x, active |-> b])
        BY <1>2, <1>5 DEF ChangeMember, Patch
    <2>2. /\ Over([role |-> x], seen[r]) \in MemberRow
          /\ Over([active |-> b], seen[r]) \in MemberRow
          /\ Over([role |-> x, active |-> b], seen[r]) \in MemberRow
        BY <1>3, MemberColumns
    <2>3. RowsInv' /\ Kept
        BY <1>1, <1>3, <2>1, <2>2, SaveMember
    <2> QED BY <1>1, <2>1, <2>3, WriteInv DEF Save
<1> QED BY <1>4, <1>5

LEMMA RemoveMemberInv ==
    ASSUME TenancyInv, NEW r \in Requests, RemoveMember(r)
    PROVE  TenancyInv'
<1>1. /\ pc[r] = "busy" /\ call[r].kind = "remove_member"
      /\ UNCHANGED <<next, linkVars, inviteVars, rank>>
    BY DEF RemoveMember, Busy
<1>2. PICK t \in Tenants, u \in Users : t = call[r].tenant /\ u = call[r].user
    BY <1>1, BusyCall
<1>3. RowsInv /\ Exists(t) /\ Exists(u) /\ <<t, u>> \in Keys
    BY <1>1, <1>2, BusyCall, KeyKinds DEF MemberKinds
<1>4. CASE Replaced(r, <<t, u>>)
    <2>1. Refused(r)
        BY <1>2, <1>4 DEF RemoveMember
    <2> QED BY <1>1, <2>1, RefusedInv
<1>5. CASE ~Replaced(r, <<t, u>>)
    <2>1. /\ row' = [row EXCEPT ![<<t, u>>] = NoRow]
          /\ trampled' = trampled /\ Answer(r)
        BY <1>2, <1>5 DEF RemoveMember
    <2>2. WellFormed(row', next') /\ Kept
        BY <1>1, <1>3, <2>1, PutMember
    <2>3. RowsInv' /\ Kept
        BY <2>2, RowsParts
    <2> QED BY <1>1, <2>1, <2>3, WriteInv
<1> QED BY <1>4, <1>5

LEMMA RemoveMembershipInv ==
    ASSUME TenancyInv, NEW r \in Requests, RemoveMembership(r)
    PROVE  TenancyInv'
<1>1. /\ pc[r] = "busy" /\ call[r].kind = "remove_membership"
      /\ UNCHANGED <<next, linkVars, inviteVars, rank>>
    BY DEF RemoveMembership, Busy
<1>2. PICK t \in Tenants, u \in Users : t = call[r].tenant /\ u = call[r].user
    BY <1>1, BusyCall
<1>3. RowsInv /\ Exists(t) /\ Exists(u)
    BY <1>1, <1>2, BusyCall DEF MemberKinds
<1>4. CASE Replaced(r, <<t, u>>)
    <2>1. Refused(r)
        BY <1>2, <1>4 DEF RemoveMembership
    <2> QED BY <1>1, <2>1, RefusedInv
<1>5. CASE ~Replaced(r, <<t, u>>)
    <2>1. PICK b \in BOOLEAN : b = FALSE
        OBVIOUS
    <2>2. SaveFields(r, <<t, u>>, [active |-> b])
        BY <1>2, <1>5, <2>1 DEF RemoveMembership
    <2>3. RowsInv' /\ Kept
        BY <1>1, <1>3, <2>2, FieldsMember
    <2> QED BY <1>1, <2>2, <2>3, WriteInv DEF SaveFields
<1> QED BY <1>4, <1>5

LEMMA SuspendInv ==
    ASSUME TenancyInv, NEW r \in Requests, Suspend(r)
    PROVE  TenancyInv'
<1>1. /\ pc[r] = "busy" /\ call[r].kind \in {"suspend", "reactivate"}
      /\ SaveFields(r, call[r].tenant, [active |-> call[r].kind = "reactivate"])
      /\ UNCHANGED <<next, linkVars, inviteVars, rank>>
    BY DEF Suspend, Busy
<1>2. PICK t \in Tenants : t = call[r].tenant
    BY <1>1, BusyCall
<1>3. PICK b \in BOOLEAN : b = (call[r].kind = "reactivate")
    OBVIOUS
<1>4. RowsInv /\ Exists(t)
    BY <1>1, <1>2, BusyCall DEF TenantKinds
<1>5. SaveFields(r, t, [active |-> b])
    BY <1>1, <1>2, <1>3
<1>6. RowsInv' /\ Kept
    BY <1>1, <1>4, <1>5, FieldsTenant
<1> QED BY <1>1, <1>6, WriteInv DEF SaveFields

LEMMA BillingInv ==
    ASSUME TenancyInv, NEW r \in Requests, Billing(r)
    PROVE  TenancyInv'
<1>1. /\ pc[r] = "busy" /\ call[r].kind = "billing"
      /\ Save(r, call[r].tenant, [max |-> 1])
      /\ UNCHANGED <<next, linkVars, inviteVars, rank>>
    BY DEF Billing, Busy
<1>2. PICK t \in Tenants : t = call[r].tenant
    BY <1>1, BusyCall
<1>3. RowsInv /\ seen[r] \in TenantRow
    BY <1>1, <1>2, BusyCall DEF TenantKinds
<1>4. PICK n \in Nat : n = 1
    OBVIOUS
<1>5. Over([max |-> n], seen[r]) \in TenantRow
    BY <1>3, TenantColumns
<1>6. Save(r, t, [max |-> n])
    BY <1>1, <1>2, <1>4
<1>7. RowsInv' /\ Kept
    BY <1>1, <1>3, <1>5, <1>6, SaveTenant
<1> QED BY <1>1, <1>7, WriteInv DEF Save

LEMMA SettingsInv ==
    ASSUME TenancyInv, NEW r \in Requests, Settings(r)
    PROVE  TenancyInv'
<1>1. /\ pc[r] = "busy" /\ call[r].kind = "settings"
      /\ Save(r, call[r].tenant, <<>>)
      /\ UNCHANGED <<next, linkVars, inviteVars, rank>>
    BY DEF Settings, Busy
<1>2. PICK t \in Tenants : t = call[r].tenant
    BY <1>1, BusyCall
<1>3. RowsInv /\ seen[r] \in TenantRow
    BY <1>1, <1>2, BusyCall DEF TenantKinds
<1>4. Over(<<>>, seen[r]) \in TenantRow
    BY <1>3, NoColumns DEF TenantRow
<1>5. RowsInv' /\ Kept
    BY <1>1, <1>2, <1>3, <1>4, SaveTenant
<1> QED BY <1>1, <1>5, WriteInv DEF Save

-----------------------------------------------------------------------------
(* Rows inserted: a tenant, an account, the membership that joins them.      *)

Joined(t, u, rows) ==
    /\ DOMAIN rows \subseteq {t, u, <<t, u>>}
    /\ u \in DOMAIN rows => rows[u] = NewUser /\ ~Exists(u)
    /\ t \in DOMAIN rows => rows[t] \in TenantRow
    /\ <<t, u>> \in DOMAIN rows =>
          /\ rows[<<t, u>>] \in MemberRow
          /\ t \in DOMAIN rows \/ Exists(t)
          /\ u \in DOMAIN rows \/ Exists(u)

LEMMA JoinedInv ==
    ASSUME RowsInv, NEW r \in Requests, NEW t \in Tenants, NEW u \in Users,
           NEW rows, NEW taken, Joined(t, u, rows), Insert(r, rows, taken), ~taken
    PROVE  RowsInv' /\ Kept /\ Answer(r)
<1>1. /\ row' = Over(rows, row)
      /\ next' = next + 1 /\ trampled' = trampled /\ Answer(r)
    BY DEF Insert
<1>2. DOMAIN rows \subseteq Keys /\ next \in Nat
    BY KeyKinds, RowFacts DEF Joined
<1>3. NewUser \in UserRow /\ NewUser.password = next
    BY <1>2 DEF NewUser, UserRow
<1>4. \A v \in Users : v \in DOMAIN rows =>
          v = u /\ rows[v] \in UserRow /\ rows[v].password = next /\ ~Exists(v)
    BY <1>3, KeyKinds DEF Joined
<1>5. \A s \in Tenants : s \in DOMAIN rows => s = t /\ rows[s] \in TenantRow
    BY KeyKinds DEF Joined
<1>6. row' = [k \in Keys |-> IF k \in DOMAIN rows THEN rows[k] ELSE row[k]]
    BY <1>1, <1>2, RowFacts DEF Over
<1>7. \A s \in Tenants, v \in Users : <<s, v>> \in DOMAIN rows =>
          /\ s = t /\ v = u /\ rows[<<s, v>>] \in MemberRow
          /\ row'[s] # NoRow /\ row'[v] # NoRow
    <2> SUFFICES ASSUME NEW s \in Tenants, NEW v \in Users, <<s, v>> \in DOMAIN rows
                 PROVE  /\ s = t /\ v = u /\ rows[<<s, v>>] \in MemberRow
                        /\ row'[s] # NoRow /\ row'[v] # NoRow
        OBVIOUS
    <2>1. s = t /\ v = u
        BY KeyKinds DEF Joined
    <2>2. row'[t] # NoRow
        BY <1>5, <1>6, <2>1, KeyKinds, NoRowKinds DEF Joined, Exists
    <2>3. row'[u] # NoRow
        BY <1>4, <1>6, <2>1, KeyKinds, NoRowKinds DEF Joined, Exists
    <2> QED BY <2>1, <2>2, <2>3 DEF Joined
<1>8. WellFormed(row', next') /\ Kept
    BY <1>1, <1>2, <1>4, <1>5, <1>7, PutRows
<1> QED BY <1>1, <1>8, RowsParts

LEMMA UpsertRow ==
    ASSUME RowsInv, NEW t \in Tenants, NEW u \in Users, NEW x \in TenantRole
    PROVE  Upsert(t, u, x) \in MemberRow /\ Upsert(t, u, x).role = x
<1>1. Exists(<<t, u>>) => row[<<t, u>>].id \in Nat
    BY RowFacts DEF MemberRow
<1> QED BY <1>1, RowFacts DEF Upsert, MemberRow

LEMMA OneRow ==
    ASSUME NEW k, NEW v
    PROVE  DOMAIN RowAt(k, v) = {k} /\ RowAt(k, v)[k] = v
BY DEF RowAt

(* The rows the handlers insert.                                             *)
LEMMA JoinMember ==
    ASSUME NEW t \in Tenants, NEW u \in Users, NEW m \in MemberRow, Exists(t), Exists(u)
    PROVE  Joined(t, u, RowAt(<<t, u>>, m))
<1> DEFINE rows == RowAt(<<t, u>>, m)
<1>1. DOMAIN rows = {<<t, u>>} /\ rows[<<t, u>>] = m
    BY OneRow
<1> HIDE DEF rows
<1>2. Joined(t, u, rows)
    BY <1>1, KeyKinds DEF Joined
<1> QED BY <1>2 DEF rows

LEMMA JoinAccount ==
    ASSUME NEW t \in Tenants, NEW u \in Users, NEW m \in MemberRow, Exists(t), ~Exists(u)
    PROVE  /\ Joined(t, u, Over(RowAt(u, NewUser), RowAt(<<t, u>>, m)))
           /\ Joined(t, u, Over(RowAt(<<t, u>>, m), RowAt(u, NewUser)))
<1>1. PICK k, n : k = <<t, u>> /\ n = NewUser
    OBVIOUS
<1>2. u # k /\ k # u /\ k # t
    BY <1>1, KeyKinds
<1> DEFINE f == RowAt(u, n)
           g == RowAt(k, m)
           a == Over(f, g)
           b == Over(g, f)
<1>3. /\ DOMAIN a = {u, k} /\ a[u] = n /\ a[k] = m
      /\ DOMAIN b = {k, u} /\ b[u] = n /\ b[k] = m
    <2>1. DOMAIN f = {u} /\ f[u] = n /\ DOMAIN g = {k} /\ g[k] = m
        BY OneRow
    <2> HIDE DEF f, g
    <2> QED BY <1>2, <2>1 DEF Over
<1> HIDE DEF a, b
<1>4. Joined(t, u, a) /\ Joined(t, u, b)
    BY <1>1, <1>2, <1>3, KeyKinds DEF Joined
<1> QED BY <1>1, <1>4 DEF a, b

LEMMA JoinTenant ==
    ASSUME NEW t \in Tenants, NEW u \in Users, NEW m \in MemberRow, NEW v \in TenantRow
    PROVE  /\ Exists(u) => Joined(t, u, Over(RowAt(t, v), RowAt(<<t, u>>, m)))
           /\ ~Exists(u) => Joined(t, u, Over(RowAt(t, v),
                                Over(RowAt(u, NewUser), RowAt(<<t, u>>, m))))
           /\ Joined(t, u, Over(RowAt(t, v), <<>>))
<1>1. PICK k, n : k = <<t, u>> /\ n = NewUser
    OBVIOUS
<1>2. u # k /\ t # k /\ t # u
    BY <1>1, KeyKinds
<1> DEFINE f == RowAt(t, v)
           g == RowAt(k, m)
           h == RowAt(u, n)
           a == Over(f, g)
           b == Over(h, g)
           c == Over(f, b)
           d == Over(f, <<>>)
<1>3. /\ DOMAIN f = {t} /\ f[t] = v
      /\ DOMAIN g = {k} /\ g[k] = m
      /\ DOMAIN h = {u} /\ h[u] = n
    BY OneRow
<1>4. DOMAIN a = {t, k} /\ a[t] = v /\ a[k] = m
    <2> HIDE DEF f, g
    <2> QED BY <1>2, <1>3 DEF Over
<1>5. DOMAIN b = {u, k} /\ b[u] = n /\ b[k] = m
    <2> HIDE DEF g, h
    <2> QED BY <1>2, <1>3 DEF Over
<1>6. DOMAIN c = {t, u, k} /\ c[t] = v /\ c[u] = n /\ c[k] = m
    <2> HIDE DEF b, f
    <2> QED BY <1>2, <1>3, <1>5 DEF Over
<1>7. DOMAIN d = {t} /\ d[t] = v
    <2>1. DOMAIN <<>> = {}
        OBVIOUS
    <2> HIDE DEF f
    <2> QED BY <1>3, <2>1 DEF Over
<1> HIDE DEF a, c, d
<1>8. /\ Exists(u) => Joined(t, u, a)
      /\ ~Exists(u) => Joined(t, u, c)
      /\ Joined(t, u, d)
    BY <1>1, <1>2, <1>4, <1>6, <1>7 DEF Joined
<1> QED BY <1>1, <1>8 DEF a, c, d

LEMMA AssignTenantInv ==
    ASSUME TenancyInv, NEW r \in Requests, AssignTenant(r)
    PROVE  TenancyInv'
<1>1. /\ pc[r] = "busy" /\ call[r].kind = "assign_tenant"
      /\ UNCHANGED <<linkVars, inviteVars, rank>>
    BY DEF AssignTenant, Busy
<1>2. PICK t \in Tenants, u \in Users, x \in TenantRole :
          t = call[r].tenant /\ u = call[r].user /\ x = call[r].role
    BY <1>1, BusyCall
<1>3. RowsInv /\ Exists(t) /\ Exists(u)
    BY <1>1, <1>2, BusyCall DEF CallInv
<1>4. PICK m \in MemberRow : m = Upsert(t, u, x)
    BY <1>3, UpsertRow
<1> DEFINE rows == RowAt(<<t, u>>, m)
<1>5. Insert(r, rows, FALSE) /\ Joined(t, u, rows)
    BY <1>2, <1>3, <1>4, JoinMember DEF AssignTenant
<1>6. RowsInv' /\ Kept /\ Answer(r)
    <2> HIDE DEF rows
    <2> QED BY <1>3, <1>5, JoinedInv
<1> QED BY <1>1, <1>6, WriteInv

LEMMA CreateUserInv ==
    ASSUME TenancyInv, NEW r \in Requests, CreateUser(r)
    PROVE  TenancyInv'
<1>1. /\ pc[r] = "busy" /\ call[r].kind = "create_user"
      /\ UNCHANGED <<linkVars, inviteVars, rank>>
    BY DEF CreateUser, Busy
<1>2. PICK t \in Tenants, u \in Users, x \in TenantRole :
          t = call[r].tenant /\ u = call[r].user /\ x = call[r].role
    BY <1>1, BusyCall
<1>3. RowsInv /\ Exists(t)
    BY <1>1, <1>2, BusyCall DEF CallInv
<1>4. PICK m \in MemberRow : m = Upsert(t, u, x)
    BY <1>3, UpsertRow
<1> DEFINE rows == Over(RowAt(u, NewUser), RowAt(<<t, u>>, m))
<1>5. Insert(r, rows, Exists(u))
    BY <1>2, <1>4 DEF CreateUser
<1>6. CASE Exists(u)
    <2>1. Refused(r)
        BY <1>5, <1>6 DEF Insert
    <2> QED BY <1>1, <2>1, RefusedInv
<1>7. CASE ~Exists(u)
    <2>1. Joined(t, u, rows)
        BY <1>3, <1>7, JoinAccount
    <2>2. RowsInv' /\ Kept /\ Answer(r)
        <3> HIDE DEF rows
        <3> QED BY <1>3, <1>5, <1>7, <2>1, JoinedInv
    <2> QED BY <1>1, <2>2, WriteInv
<1> QED BY <1>6, <1>7

LEMMA RegisterInv ==
    ASSUME TenancyInv, NEW r \in Requests, Register(r)
    PROVE  TenancyInv'
<1>1. /\ pc[r] = "busy" /\ call[r].kind = "register"
      /\ UNCHANGED <<linkVars, inviteVars, rank>>
    BY DEF Register, Busy
<1>2. PICK t \in Tenants, u \in Users : t = call[r].tenant /\ u = call[r].user
    BY <1>1, BusyCall
<1>3. RowsInv
    BY InvParts
<1>4. PICK m \in MemberRow : m = Upsert(t, u, "owner")
    BY <1>3, UpsertRow DEF TenantRole
<1>5. PICK v \in TenantRow : v = NewTenant(1)
    BY DEF NewTenant, TenantRow
<1> DEFINE rows == Over(RowAt(t, v), Over(RowAt(u, NewUser), RowAt(<<t, u>>, m)))
           taken == Exists(u) \/ Exists(t)
<1>6. Insert(r, rows, taken)
    BY <1>2, <1>4, <1>5 DEF Register
<1>7. CASE taken
    <2>1. Refused(r)
        BY <1>6, <1>7 DEF Insert
    <2> QED BY <1>1, <2>1, RefusedInv
<1>8. CASE ~taken
    <2>1. Joined(t, u, rows)
        BY <1>8, JoinTenant
    <2>2. RowsInv' /\ Kept /\ Answer(r)
        <3> HIDE DEF rows, taken
        <3> QED BY <1>3, <1>6, <1>8, <2>1, JoinedInv
    <2> QED BY <1>1, <2>2, WriteInv
<1> QED BY <1>7, <1>8

-----------------------------------------------------------------------------
(* Invitations made and settled.                                             *)

LEMMA SeqAt ==
    ASSUME NEW S, NEW s \in Seq(S)
    PROVE  /\ DOMAIN s = 1..Len(s) /\ Len(s) \in Nat
           /\ \A i \in DOMAIN s : s[i] \in S
OBVIOUS

LEMMA SeqAppend ==
    ASSUME NEW S, NEW s \in Seq(S), NEW x \in S
    PROVE  /\ Append(s, x) \in Seq(S)
           /\ Len(Append(s, x)) = Len(s) + 1
           /\ DOMAIN Append(s, x) = 1..(Len(s) + 1)
           /\ \A i \in 1..Len(s) : Append(s, x)[i] = s[i]
           /\ Append(s, x)[Len(s) + 1] = x
OBVIOUS

LEMMA SeqUpdate ==
    ASSUME NEW S, NEW s \in Seq(S), NEW i \in DOMAIN s, NEW x \in S
    PROVE  /\ [s EXCEPT ![i] = x] \in Seq(S)
           /\ Len([s EXCEPT ![i] = x]) = Len(s)
           /\ DOMAIN [s EXCEPT ![i] = x] = DOMAIN s
           /\ [s EXCEPT ![i] = x][i] = x
           /\ \A j \in DOMAIN s : j # i => [s EXCEPT ![i] = x][j] = s[j]
OBVIOUS

LEMMA InviteFacts ==
    ASSUME InvitationsInv
    PROVE  /\ DOMAIN invite = 1..Len(invite) /\ Len(invite) \in Nat
           /\ DOMAIN outcomes = DOMAIN invite
           /\ \A i \in DOMAIN invite :
                 /\ invite[i] \in Invitation
                 /\ invite[i].tenant \in Tenants /\ Exists(invite[i].tenant)
                 /\ invite[i].role \in TenantRole
                 /\ invite[i].role = "owner" => invite[i].rank \in {"owner", Platform}
                 /\ outcomes[i] \in Seq(InvitationStatus)
<1>1. /\ DOMAIN invite = 1..Len(invite) /\ Len(invite) \in Nat
      /\ \A i \in DOMAIN invite : invite[i] \in Invitation
    BY SeqAt DEF InvitationsInv
<1>2. /\ DOMAIN outcomes = 1..Len(outcomes)
      /\ \A i \in DOMAIN outcomes : outcomes[i] \in Seq(InvitationStatus)
    BY SeqAt DEF InvitationsInv
<1>3. \A x \in Invitation : x.tenant \in Tenants /\ x.role \in TenantRole
    BY DEF Invitation
<1> QED BY <1>1, <1>2, <1>3 DEF InvitationsInv

LEMMA InvitationAdded ==
    ASSUME InvitationsInv, Kept, NEW v \in Invitation,
           v.status = "pending", row'[v.tenant] # NoRow,
           v.role = "owner" => v.rank \in {"owner", Platform},
           AddInvitation(v), contested' = contested
    PROVE  InvitationsInv' /\ DOMAIN invite \subseteq DOMAIN invite'
<1> DEFINE n == Len(invite) + 1
<1>1. /\ invite \in Seq(Invitation) /\ outcomes \in Seq(Seq(InvitationStatus))
      /\ Len(outcomes) = Len(invite) /\ contested \subseteq DOMAIN invite
      /\ InvitationSettlesOnce
    BY DEF InvitationsInv
<1>2. /\ invite' = Append(invite, v) /\ outcomes' = Append(outcomes, <<>>)
      /\ <<>> \in Seq(InvitationStatus)
    BY DEF AddInvitation
<1>3. /\ invite' \in Seq(Invitation) /\ Len(invite') = Len(invite) + 1
      /\ DOMAIN invite' = 1..(Len(invite) + 1)
      /\ \A i \in 1..Len(invite) : invite'[i] = invite[i]
      /\ invite'[Len(invite) + 1] = v
    BY <1>1, <1>2, SeqAppend
<1>4. /\ outcomes' \in Seq(Seq(InvitationStatus)) /\ Len(outcomes') = Len(outcomes) + 1
      /\ \A i \in 1..Len(outcomes) : outcomes'[i] = outcomes[i]
      /\ outcomes'[Len(outcomes) + 1] = <<>>
    BY <1>1, <1>2, SeqAppend
<1>5. /\ DOMAIN invite = 1..Len(invite) /\ Len(invite) \in Nat
      /\ \A i \in DOMAIN invite :
            /\ row'[invite[i].tenant] # NoRow
            /\ invite[i].role = "owner" => invite[i].rank \in {"owner", Platform}
    BY InviteFacts DEF Kept
<1>6. \A i \in DOMAIN invite' : i \in DOMAIN invite \/ i = n
    BY <1>3, <1>5
<1>7. \A i \in DOMAIN invite' :
          /\ row'[invite'[i].tenant] # NoRow
          /\ invite'[i].role = "owner" => invite'[i].rank \in {"owner", Platform}
    BY <1>3, <1>5, <1>6
<1>8. \A i \in DOMAIN invite' \ contested' :
          outcomes'[i] = IF invite'[i].status = "pending" THEN <<>> ELSE <<invite'[i].status>>
    <2> SUFFICES ASSUME NEW i \in DOMAIN invite', i \notin contested
                 PROVE  outcomes'[i] = IF invite'[i].status = "pending" THEN <<>>
                                       ELSE <<invite'[i].status>>
        OBVIOUS
    <2>1. CASE i \in DOMAIN invite
        BY <1>1, <1>3, <1>4, <1>5, <2>1 DEF InvitationSettlesOnce
    <2>2. CASE i = n
        BY <1>1, <1>3, <1>4, <2>2
    <2> QED BY <1>6, <2>1, <2>2
<1>9. DOMAIN invite \subseteq DOMAIN invite'
    BY <1>3, <1>5
<1>10. Len(outcomes') = Len(invite') /\ contested' \subseteq DOMAIN invite'
    BY <1>1, <1>3, <1>4, <1>9
<1> QED BY <1>3, <1>4, <1>7, <1>8, <1>9, <1>10
        DEF InvitationsInv, InvitationSettlesOnce, Exists

LEMMA InvitationResolved ==
    ASSUME InvitationsInv, Kept, NEW r \in Requests, NEW status \in {"accepted", "cancelled"},
           seen[r].i \in DOMAIN invite, seen[r].status = "pending", Resolve(r, status)
    PROVE  InvitationsInv' /\ DOMAIN invite \subseteq DOMAIN invite'
<1>1. PICK i \in DOMAIN invite : i = seen[r].i
    OBVIOUS
<1> DEFINE v == [invite[i] EXCEPT !.status = status]
           o == Append(outcomes[i], status)
<1>2. /\ invite' = [invite EXCEPT ![i] = v]
      /\ outcomes' = [outcomes EXCEPT ![i] = o]
      /\ contested' = IF invite[i].status = "pending" THEN contested ELSE contested \cup {i}
    BY <1>1 DEF Resolve
<1>3. invite[i] \in Invitation /\ outcomes[i] \in Seq(InvitationStatus)
    BY InviteFacts
<1>4. /\ v \in Invitation /\ v.tenant = invite[i].tenant /\ v.role = invite[i].role
      /\ v.rank = invite[i].rank /\ v.status = status
    BY <1>3 DEF Invitation, InvitationStatus
<1>5. o \in Seq(InvitationStatus) /\ (outcomes[i] = <<>> => o = <<status>>)
    <2>1. PICK s \in Seq(InvitationStatus) : s = outcomes[i]
        BY <1>3
    <2>2. status \in InvitationStatus
        BY DEF InvitationStatus
    <2>3. Append(s, status) \in Seq(InvitationStatus)
        BY <2>2
    <2>4. Append(<<>>, status) = <<status>>
        OBVIOUS
    <2> QED BY <2>1, <2>3, <2>4
<1>6. /\ invite \in Seq(Invitation) /\ outcomes \in Seq(Seq(InvitationStatus))
      /\ Len(outcomes) = Len(invite) /\ contested \subseteq DOMAIN invite
      /\ InvitationSettlesOnce
    BY DEF InvitationsInv
<1>7. DOMAIN outcomes = DOMAIN invite
    BY InviteFacts
<1> HIDE DEF v, o
<1>8. /\ invite' \in Seq(Invitation) /\ Len(invite') = Len(invite)
      /\ DOMAIN invite' = DOMAIN invite /\ invite'[i] = v
      /\ \A j \in DOMAIN invite : j # i => invite'[j] = invite[j]
    BY <1>2, <1>4, <1>6, SeqUpdate
<1>9. /\ outcomes' \in Seq(Seq(InvitationStatus)) /\ Len(outcomes') = Len(outcomes)
      /\ outcomes'[i] = o
      /\ \A j \in DOMAIN invite : j # i => outcomes'[j] = outcomes[j]
    BY <1>2, <1>5, <1>6, <1>7, SeqUpdate
<1>10. \A j \in DOMAIN invite :
           /\ row'[invite[j].tenant] # NoRow
           /\ invite[j].role = "owner" => invite[j].rank \in {"owner", Platform}
    BY InviteFacts DEF Kept
<1>11. \A j \in DOMAIN invite' :
           /\ row'[invite'[j].tenant] # NoRow
           /\ invite'[j].role = "owner" => invite'[j].rank \in {"owner", Platform}
    BY <1>4, <1>8, <1>10
<1>12. \A j \in DOMAIN invite' \ contested' :
           outcomes'[j] = IF invite'[j].status = "pending" THEN <<>> ELSE <<invite'[j].status>>
    <2> SUFFICES ASSUME NEW j \in DOMAIN invite, j \notin contested'
                 PROVE  outcomes'[j] = IF invite'[j].status = "pending" THEN <<>>
                                       ELSE <<invite'[j].status>>
        BY <1>8
    <2>1. j \notin contested
        BY <1>2
    <2>2. CASE j # i
        BY <1>6, <1>8, <1>9, <2>1, <2>2 DEF InvitationSettlesOnce
    <2>3. CASE j = i
        <3>1. invite[i].status = "pending" /\ outcomes[i] = <<>>
            BY <1>2, <1>6, <2>1, <2>3 DEF InvitationSettlesOnce
        <3> QED BY <1>4, <1>5, <1>8, <1>9, <2>3, <3>1
    <2> QED BY <2>2, <2>3
<1>13. contested' \subseteq DOMAIN invite'
    BY <1>2, <1>6, <1>8
<1> QED BY <1>6, <1>8, <1>9, <1>11, <1>12, <1>13
        DEF InvitationsInv, InvitationSettlesOnce, Exists

LEMMA InviteInv ==
    ASSUME TenancyInv, NEW r \in Requests, Invite(r)
    PROVE  TenancyInv'
<1>1. /\ pc[r] = "busy" /\ call[r].kind = "invite" /\ Answer(r)
      /\ UNCHANGED <<tableVars, linkVars, rank, contested>>
    BY DEF Invite, Busy
<1>2. PICK t \in Tenants, u \in Users, x \in TenantRole :
          t = call[r].tenant /\ u = call[r].user /\ x = call[r].role
    BY <1>1, BusyCall
<1>3. RowsInv' /\ Kept
    BY <1>1, InvParts, NothingWritten
<1>4. Exists(t) /\ (x = "owner" => rank[r] = "owner")
    BY <1>1, <1>2, BusyCall DEF CallInv
<1>5. rank[r] \in Rank
    BY InvParts DEF RequestsInv
<1> DEFINE v == NewInvitation(t, EmailOf[u], x, rank[r])
<1>6. /\ v \in Invitation /\ v.status = "pending" /\ v.tenant = t
      /\ v.role = "owner" => v.rank \in {"owner", Platform}
    BY <1>4, <1>5 DEF NewInvitation, Invitation, InvitationStatus
<1>7. AddInvitation(v)
    BY <1>2 DEF Invite
<1>8. row'[v.tenant] # NoRow
    BY <1>3, <1>4, <1>6 DEF Kept
<1>9. InvitationsInv' /\ DOMAIN invite \subseteq DOMAIN invite'
    <2> HIDE DEF v
    <2> QED BY <1>1, <1>3, <1>6, <1>7, <1>8, InvParts, InvitationAdded
<1> QED BY <1>1, <1>3, <1>9, AnswerInv

LEMMA CancelInv ==
    ASSUME TenancyInv, NEW r \in Requests, Cancel(r)
    PROVE  TenancyInv'
<1>1. /\ pc[r] = "busy" /\ call[r].kind = "cancel" /\ Answer(r)
      /\ Resolve(r, "cancelled")
      /\ UNCHANGED <<tableVars, linkVars, rank>>
    BY DEF Cancel, Busy
<1>2. RowsInv' /\ Kept
    BY <1>1, InvParts, NothingWritten
<1>3. seen[r].i \in DOMAIN invite /\ seen[r].status = "pending"
    BY <1>1, InvParts DEF CallInv
<1>4. InvitationsInv' /\ DOMAIN invite \subseteq DOMAIN invite'
    BY <1>1, <1>2, <1>3, InvParts, InvitationResolved
<1> QED BY <1>1, <1>2, <1>4, AnswerInv

LEMMA AcceptedRows ==
    ASSUME NEW t \in Tenants, NEW u \in Users, NEW m \in MemberRow, NEW account,
           Exists(t), account <=> Exists(u)
    PROVE  Joined(t, u, Over(RowAt(<<t, u>>, m), IF account THEN <<>> ELSE RowAt(u, NewUser)))
<1>1. CASE account
    <2> DEFINE f == RowAt(<<t, u>>, m)
    <2>1. f = [k \in DOMAIN f |-> f[k]] /\ DOMAIN <<>> = {}
        BY DEF RowAt
    <2>2. Joined(t, u, f)
        BY <1>1, JoinMember
    <2>3. Over(f, <<>>) = f
        <3> HIDE DEF f
        <3> QED BY <2>1 DEF Over
    <2> QED BY <1>1, <2>2, <2>3
<1>2. CASE ~account
    BY <1>2, JoinAccount
<1> QED BY <1>1, <1>2

(* An invitation that was pending when it was read makes a member, whatever  *)
(* has become of it, unless the new account's name was taken meanwhile.      *)
LEMMA AcceptInv ==
    ASSUME TenancyInv, NEW r \in Requests, Accept(r)
    PROVE  TenancyInv'
<1>1. /\ pc[r] = "busy" /\ call[r].kind = "accept" /\ UNCHANGED <<linkVars, rank>>
    BY DEF Accept, Busy
<1>2. seen[r].i \in DOMAIN invite /\ seen[r].status = "pending"
    BY <1>1, InvParts DEF CallInv
<1>3. PICK i \in DOMAIN invite : i = seen[r].i
    BY <1>2
<1>4. invite[i].tenant \in Tenants /\ invite[i].role \in TenantRole /\ Exists(invite[i].tenant)
    BY InvParts, InviteFacts
<1>5. PICK t \in Tenants, u \in Users, x \in TenantRole :
          t = invite[i].tenant /\ u = call[r].user /\ x = invite[i].role
    BY <1>1, <1>4, BusyCall
<1>6. RowsInv /\ Exists(t) /\ (seen[r].account => Exists(u))
    BY <1>1, <1>4, <1>5, BusyCall DEF CallInv
<1>7. PICK m \in MemberRow : m = Upsert(t, u, x)
    BY <1>6, UpsertRow
<1> DEFINE account == IF seen[r].account THEN <<>> ELSE RowAt(u, NewUser)
           rows == Over(RowAt(<<t, u>>, m), account)
           taken == ~seen[r].account /\ Exists(u)
<1>8. Insert(r, rows, taken) /\ IF taken THEN UNCHANGED inviteVars ELSE Resolve(r, "accepted")
    BY <1>3, <1>5, <1>7 DEF Accept
<1>9. CASE taken
    <2> HIDE DEF rows, taken
    <2>1. Refused(r) /\ UNCHANGED inviteVars
        BY <1>8, <1>9 DEF Insert
    <2> QED BY <1>1, <2>1, RefusedInv
<1>10. CASE ~taken
    <2>1. Joined(t, u, rows)
        BY <1>6, <1>10, AcceptedRows
    <2> HIDE DEF rows, taken
    <2>2. RowsInv' /\ Kept /\ Answer(r)
        BY <1>6, <1>8, <1>10, <2>1, JoinedInv
    <2>3. Resolve(r, "accepted")
        BY <1>8, <1>10
    <2>4. InvitationsInv' /\ DOMAIN invite \subseteq DOMAIN invite'
        BY <1>2, <2>2, <2>3, InvParts, InvitationResolved
    <2> QED BY <1>1, <2>2, <2>4, AnswerInv
<1> QED BY <1>9, <1>10

(* A tenant with its owner: the account there is, one to be invited, a new one. *)
FoundingRows(t, u, tenant, m, b) ==
    Over(RowAt(t, tenant),
         CASE Exists(u) -> RowAt(<<t, u>>, m)
           [] ~Exists(u) /\ b -> <<>>
           [] OTHER -> Over(RowAt(u, NewUser), RowAt(<<t, u>>, m)))

LEMMA FoundingJoined ==
    ASSUME NEW t \in Tenants, NEW u \in Users, NEW tenant \in TenantRow, NEW m \in MemberRow,
           NEW b \in BOOLEAN
    PROVE  Joined(t, u, FoundingRows(t, u, tenant, m, b))
<1> DEFINE rows == FoundingRows(t, u, tenant, m, b)
<1>1. CASE Exists(u)
    <2>1. rows = Over(RowAt(t, tenant), RowAt(<<t, u>>, m))
        BY <1>1 DEF FoundingRows
    <2> QED BY <1>1, <2>1, JoinTenant
<1>2. CASE ~Exists(u) /\ b
    <2>1. rows = Over(RowAt(t, tenant), <<>>)
        BY <1>2 DEF FoundingRows
    <2> QED BY <2>1, JoinTenant
<1>3. CASE ~Exists(u) /\ ~b
    <2>1. rows = Over(RowAt(t, tenant), Over(RowAt(u, NewUser), RowAt(<<t, u>>, m)))
        BY <1>3 DEF FoundingRows
    <2> QED BY <1>3, <2>1, JoinTenant
<1> QED BY <1>1, <1>2, <1>3

LEMMA CreateTenantInv ==
    ASSUME TenancyInv, NEW r \in Requests, CreateTenant(r)
    PROVE  TenancyInv'
<1>1. /\ pc[r] = "busy" /\ call[r].kind = "create_tenant"
      /\ UNCHANGED <<linkVars, contested, rank>>
    BY DEF CreateTenant, Busy
<1>2. PICK t \in Tenants, u \in Users, b \in BOOLEAN :
          t = call[r].tenant /\ u = call[r].user /\ b = call[r].on
    BY <1>1, BusyCall
<1>3. RowsInv /\ InvitationsInv
    BY InvParts
<1>4. PICK m \in MemberRow : m = Upsert(t, u, "owner")
    BY <1>3, UpsertRow DEF TenantRole
<1>5. PICK tenant \in TenantRow : tenant = NewTenant(1)
    BY DEF NewTenant, TenantRow
<1> DEFINE rows == FoundingRows(t, u, tenant, m, b)
           v == NewInvitation(t, EmailOf[u], "owner", Platform)
<1>6. /\ Insert(r, rows, Exists(t))
      /\ IF ~Exists(t) /\ ~Exists(u) /\ b THEN AddInvitation(v) ELSE UNCHANGED <<invite, outcomes>>
    BY <1>2, <1>4, <1>5 DEF CreateTenant, FoundingRows
<1>7. CASE Exists(t)
    <2> HIDE DEF rows
    <2>1. Refused(r) /\ UNCHANGED inviteVars
        BY <1>1, <1>6, <1>7 DEF Insert, inviteVars
    <2> QED BY <1>1, <2>1, RefusedInv
<1>8. CASE ~Exists(t)
    <2>1. Joined(t, u, rows)
        BY FoundingJoined
    <2>2. t \in DOMAIN rows /\ rows[t] = tenant
        <3> DEFINE f == RowAt(t, tenant)
        <3>1. DOMAIN f = {t} /\ f[t] = tenant
            BY OneRow
        <3>2. \E g : rows = Over(f, g)
            BY DEF FoundingRows
        <3> HIDE DEF f, rows
        <3> QED BY <3>1, <3>2 DEF Over
    <2> HIDE DEF rows
    <2>3. RowsInv' /\ Kept /\ Answer(r)
        BY <1>3, <1>6, <1>8, <2>1, JoinedInv
    <2>4. row'[t] # NoRow
        <3>1. row' = Over(rows, row)
            BY <1>6, <1>8 DEF Insert
        <3>2. row'[t] = tenant
            BY <2>2, <3>1 DEF Over
        <3> QED BY <3>2, NoRowKinds
    <2>5. CASE ~Exists(u) /\ b
        <3>1. AddInvitation(v)
            BY <1>6, <1>8, <2>5
        <3>2. /\ v \in Invitation /\ v.status = "pending" /\ v.tenant = t
              /\ v.role = "owner" => v.rank \in {"owner", Platform}
            BY DEF NewInvitation, Invitation, InvitationStatus, TenantRole, Rank
        <3>3. InvitationsInv' /\ DOMAIN invite \subseteq DOMAIN invite'
            <4> HIDE DEF v
            <4> QED BY <1>1, <1>3, <2>3, <2>4, <3>1, <3>2, InvitationAdded
        <3> QED BY <1>1, <2>3, <3>3, AnswerInv
    <2>6. CASE ~(~Exists(u) /\ b)
        <3>1. UNCHANGED inviteVars
            BY <1>1, <1>6, <2>6 DEF inviteVars
        <3> QED BY <1>1, <2>3, <3>1, WriteInv
    <2> QED BY <2>5, <2>6
<1> QED BY <1>7, <1>8

(* Time passes for an invitation. *)
LEMMA ExpireInv ==
    ASSUME TenancyInv, NEW i \in DOMAIN invite, Expire(i)
    PROVE  TenancyInv'
<1>1. /\ invite' = [invite EXCEPT ![i].expired = TRUE]
      /\ UNCHANGED <<accountVars, rank, outcomes, contested>>
    BY DEF Expire
<1> DEFINE v == [invite[i] EXCEPT !.expired = TRUE]
<1>2. invite' = [invite EXCEPT ![i] = v]
    BY <1>1
<1>3. /\ v \in Invitation /\ v.tenant = invite[i].tenant /\ v.role = invite[i].role
      /\ v.rank = invite[i].rank /\ v.status = invite[i].status
    <2>1. invite[i] \in Invitation
        BY InvParts, InviteFacts
    <2> QED BY <2>1 DEF Invitation
<1>4. invite \in Seq(Invitation) /\ InvitationsInv
    BY InvParts DEF InvitationsInv
<1> HIDE DEF v
<1>5. /\ invite' \in Seq(Invitation) /\ Len(invite') = Len(invite)
      /\ DOMAIN invite' = DOMAIN invite /\ invite'[i] = v
      /\ \A j \in DOMAIN invite : j # i => invite'[j] = invite[j]
    BY <1>2, <1>3, <1>4, SeqUpdate
<1>6. \A j \in DOMAIN invite :
          /\ invite'[j].tenant = invite[j].tenant /\ invite'[j].role = invite[j].role
          /\ invite'[j].rank = invite[j].rank /\ invite'[j].status = invite[j].status
    BY <1>3, <1>5
<1>7. InvitationsInv'
    BY <1>1, <1>4, <1>5, <1>6
       DEF InvitationsInv, InvitationSettlesOnce, Exists, accountVars
<1>8. RequestsInv' /\ RowsInv' /\ LinksInv'
    BY <1>1, InvParts DEF accountVars, RequestsInv, RowsInv, WellFormed,
                          LinksInv, OpenedInv, Spent, LinkWorksOnce, Exists
<1>9. \A r \in Requests : CallInv(r)'
    BY <1>1, <1>5, InvParts DEF accountVars, CallInv, Exists
<1> QED BY <1>7, <1>8, <1>9 DEF TenancyInv

-----------------------------------------------------------------------------
(* A request begins: what it read holds, and will.                           *)

LEMMA CallTypes ==
    ASSUME NEW c \in Calls
    PROVE  /\ c \in CallColumns
           /\ c.by \in Users \cup {Platform} /\ c.tenant \in Tenants /\ c.user \in Users
           /\ c.role \in TenantRole /\ c.on \in BOOLEAN
           /\ c.kind \in {"invite", "change_role", "change_active", "remove_member", "settings"} =>
                 c.by \in Users
BY TenancyAssumption DEF CallColumns

LEMMA Began ==
    ASSUME TenancyInv, NEW r \in Requests, NEW c, NEW saw, Start(r, c, saw)
    PROVE  pc'[r] = "busy" /\ call'[r] = c /\ seen'[r] = saw
BY InvParts DEF RequestsInv, Start

LEMMA RoleTypes ==
    ASSUME RowsInv, NEW t \in Tenants, NEW u \in Users
    PROVE  RoleOf(t, u) \in Rank
<1>1. Exists(<<t, u>>) => row[<<t, u>>].role \in TenantRole
    BY RowFacts DEF MemberRow
<1> QED BY <1>1 DEF RoleOf, Member, ActiveRow, Rank

LEMMA AllowedTenant ==
    ASSUME NEW c, NEW t, NEW roles, Allowed(c, t, roles)
    PROVE  Exists(t) /\ t \in Tenants
BY DEF Allowed, Resolved, Accessible, ActiveRow

LEMMA RankSet ==
    ASSUME TenancyInv, NEW r \in Requests, NEW x \in Rank, rank' = [rank EXCEPT ![r] = x]
    PROVE  /\ rank' \in [Requests -> Rank] /\ rank'[r] = x
           /\ \A s \in Requests : s # r => rank'[s] = rank[s]
BY InvParts DEF RequestsInv

LEMMA RankKept ==
    ASSUME TenancyInv, rank' = rank
    PROVE  rank' \in [Requests -> Rank] /\ \A s \in Requests : rank'[s] = rank[s]
BY InvParts DEF RequestsInv

LEMMA StartInviteInv ==
    ASSUME TenancyInv, NEW r \in Requests, NEW c \in Calls, StartInvite(r, c)
    PROVE  TenancyInv'
<1>1. PICK t \in Tenants :
          /\ c.kind = "invite" /\ Allowed(c, t, Governance) /\ MayGiveRole(c, t)
          /\ Start(r, [c EXCEPT !.tenant = t], NoRow)
          /\ rank' = [rank EXCEPT ![r] = RoleOf(t, c.by)]
          /\ UNCHANGED <<tableVars, linkVars, inviteVars>>
    BY DEF StartInvite
<1>2. PICK d \in CallColumns : /\ d = [c EXCEPT !.tenant = t]
                               /\ d.kind = "invite" /\ d.tenant = t /\ d.role = c.role
    BY <1>1, CallTypes DEF CallColumns
<1>3. PICK x \in Rank : x = RoleOf(t, c.by)
    BY <1>1, CallTypes, InvParts, RoleTypes
<1>4. Exists(t) /\ (c.role = "owner" => x = "owner")
    BY <1>1, <1>3, AllowedTenant DEF MayGiveRole
<1>5. /\ rank' \in [Requests -> Rank] /\ rank'[r] = x
      /\ \A s \in Requests : s # r => rank'[s] = rank[s]
    BY <1>1, <1>3, RankSet
<1>6. Start(r, d, NoRow)
    BY <1>1, <1>2
<1>7. pc'[r] = "busy" /\ call'[r] = d
    BY <1>6, Began
<1>8. CallInv(r)'
    BY <1>1, <1>2, <1>4, <1>5, <1>7
       DEF CallInv, UserKinds, TenantKinds, MemberKinds, Exists, tableVars
<1>9. d.kind # "confirm_reset" /\ opened' = opened /\ UNCHANGED <<tableVars, inviteVars, links>>
    BY <1>1, <1>2 DEF linkVars
<1> QED BY <1>5, <1>6, <1>8, <1>9, BeginInv

LEMMA StartSettingsInv ==
    ASSUME TenancyInv, NEW r \in Requests, NEW c \in Calls, StartSettings(r, c)
    PROVE  TenancyInv'
<1>1. PICK t \in Tenants :
          /\ c.kind = "settings" /\ Allowed(c, t, Governance \cup {"manager"})
          /\ Start(r, [c EXCEPT !.tenant = t], row[t])
          /\ UNCHANGED <<tableVars, linkVars, inviteVars, rank>>
    BY DEF StartSettings
<1>2. PICK d \in CallColumns : d = [c EXCEPT !.tenant = t] /\ d.kind = "settings" /\ d.tenant = t
    BY <1>1, CallTypes DEF CallColumns
<1>3. Exists(t) /\ row[t] \in TenantRow
    BY <1>1, AllowedTenant, InvParts, RowFacts
<1>4. Start(r, d, row[t])
    BY <1>1, <1>2
<1>5. pc'[r] = "busy" /\ call'[r] = d /\ seen'[r] = row[t]
    BY <1>4, Began
<1>6. CallInv(r)'
    BY <1>1, <1>2, <1>3, <1>5
       DEF CallInv, UserKinds, TenantKinds, MemberKinds, Exists, tableVars
<1>7. rank' \in [Requests -> Rank] /\ \A s \in Requests : rank'[s] = rank[s]
    BY <1>1, RankKept
<1>8. d.kind # "confirm_reset" /\ opened' = opened /\ UNCHANGED <<tableVars, inviteVars, links>>
    BY <1>1, <1>2 DEF linkVars
<1> QED BY <1>4, <1>6, <1>7, <1>8, BeginInv

LEMMA StartCancelInv ==
    ASSUME TenancyInv, NEW r \in Requests, NEW c \in Calls, StartCancel(r, c)
    PROVE  TenancyInv'
<1>1. PICK i \in DOMAIN invite :
          /\ c.kind = "cancel" /\ invite[i].status = "pending"
          /\ Start(r, c, [i |-> i, status |-> invite[i].status, account |-> FALSE])
          /\ UNCHANGED <<tableVars, linkVars, inviteVars, rank>>
    BY DEF StartCancel
<1>2. PICK saw : saw = [i |-> i, status |-> invite[i].status, account |-> FALSE]
    OBVIOUS
<1>3. Start(r, c, saw) /\ saw.i \in DOMAIN invite /\ saw.status = "pending"
    BY <1>1, <1>2
<1>4. pc'[r] = "busy" /\ call'[r] = c /\ seen'[r] = saw
    BY <1>3, Began
<1>5. CallInv(r)'
    BY <1>1, <1>3, <1>4, CallTypes
       DEF CallInv, UserKinds, TenantKinds, MemberKinds, inviteVars
<1>6. rank' \in [Requests -> Rank] /\ \A s \in Requests : rank'[s] = rank[s]
    BY <1>1, RankKept
<1>7. c.kind # "confirm_reset" /\ opened' = opened /\ UNCHANGED <<tableVars, inviteVars, links>>
    BY <1>1 DEF linkVars
<1> QED BY <1>3, <1>5, <1>6, <1>7, BeginInv

LEMMA StartAcceptInv ==
    ASSUME TenancyInv, NEW r \in Requests, NEW c \in Calls, StartAccept(r, c)
    PROVE  TenancyInv'
<1>1. PICK i \in DOMAIN invite :
          /\ c.kind = "accept" /\ Acceptable(i)
          /\ Start(r, c, [i |-> i, status |-> invite[i].status, account |-> Exists(c.user)])
          /\ UNCHANGED <<tableVars, linkVars, inviteVars, rank>>
    BY DEF StartAccept
<1>2. PICK saw : saw = [i |-> i, status |-> invite[i].status, account |-> Exists(c.user)]
    OBVIOUS
<1>3. /\ Start(r, c, saw) /\ saw.i \in DOMAIN invite /\ saw.status = "pending"
      /\ saw.account => Exists(c.user)
    BY <1>1, <1>2 DEF Acceptable, Live
<1>4. pc'[r] = "busy" /\ call'[r] = c /\ seen'[r] = saw
    BY <1>3, Began
<1>5. CallInv(r)'
    BY <1>1, <1>3, <1>4, CallTypes
       DEF CallInv, UserKinds, TenantKinds, MemberKinds, inviteVars, tableVars, Exists
<1>6. rank' \in [Requests -> Rank] /\ \A s \in Requests : rank'[s] = rank[s]
    BY <1>1, RankKept
<1>7. c.kind # "confirm_reset" /\ opened' = opened /\ UNCHANGED <<tableVars, inviteVars, links>>
    BY <1>1 DEF linkVars
<1> QED BY <1>3, <1>5, <1>6, <1>7, BeginInv

LEMMA StartMemberInv ==
    ASSUME TenancyInv, NEW r \in Requests, NEW c \in Calls, StartMember(r, c)
    PROVE  TenancyInv'
<1> DEFINE k == <<c.tenant, c.user>>
           x == IF c.by = Platform THEN Platform ELSE RoleOf(c.tenant, c.by)
<1>1. /\ c.kind \in MemberKinds
      /\ c.kind \in {"change_role", "change_member"} => MayGiveRole(c, c.tenant)
      /\ Exists(k) /\ Start(r, c, row[k]) /\ rank' = [rank EXCEPT ![r] = x]
      /\ UNCHANGED <<tableVars, linkVars, inviteVars>>
    BY DEF StartMember, MemberKinds
<1>2. row[k] \in MemberRow /\ Exists(c.tenant) /\ Exists(c.user)
    BY <1>1, CallTypes, InvParts, RowFacts
<1>3. x \in Rank
    BY CallTypes, InvParts, RoleTypes DEF Rank
<1>4. c.kind \in {"change_role", "change_member"} /\ c.role = "owner" => x = "owner"
    <2>1. c.kind \in {"change_role", "change_member"} => c.by # Platform
        BY CallTypes, TenancyAssumption
    <2> QED BY <1>1, <2>1 DEF MayGiveRole
<1>5. PICK saw : saw = row[k]
    OBVIOUS
<1> HIDE DEF x
<1>6. /\ rank' \in [Requests -> Rank] /\ rank'[r] = x
      /\ \A s \in Requests : s # r => rank'[s] = rank[s]
    BY <1>1, <1>3, RankSet
<1>7. Start(r, c, saw) /\ saw \in MemberRow
    BY <1>1, <1>2, <1>5
<1>8. pc'[r] = "busy" /\ call'[r] = c /\ seen'[r] = saw
    BY <1>7, Began
<1>9. CallInv(r)'
    BY <1>1, <1>2, <1>4, <1>6, <1>7, <1>8, CallTypes
       DEF CallInv, UserKinds, TenantKinds, MemberKinds, tableVars, Exists
<1>10. c.kind # "confirm_reset" /\ opened' = opened /\ UNCHANGED <<tableVars, inviteVars, links>>
    BY <1>1 DEF linkVars, MemberKinds
<1> QED BY <1>6, <1>7, <1>9, <1>10, BeginInv

LEMMA StartPlatformInv ==
    ASSUME TenancyInv, NEW r \in Requests, NEW c \in Calls, StartPlatform(r, c)
    PROVE  TenancyInv'
<1>1. /\ \/ c.kind = "assign_tenant" /\ Exists(c.user) /\ ActiveRow(c.tenant)
         \/ c.kind = "create_user" /\ ActiveRow(c.tenant)
         \/ c.kind \in {"register", "create_tenant"}
         \/ c.kind \in {"suspend", "reactivate", "billing"} /\ Exists(c.tenant)
      /\ Start(r, c, row[c.tenant])
      /\ UNCHANGED <<tableVars, linkVars, inviteVars, rank>>
    BY CallTypes DEF StartPlatform, MayAssign, MayCreateUser, MayRegister, MayCreateTenant,
                     MaySuspend, MayBill, ActiveRow
<1>2. Exists(c.tenant) => row[c.tenant] \in TenantRow
    BY CallTypes, InvParts, RowFacts
<1>3. PICK saw : saw = row[c.tenant]
    OBVIOUS
<1>4. Start(r, c, saw) /\ (Exists(c.tenant) => saw \in TenantRow)
    BY <1>1, <1>2, <1>3
<1>5. pc'[r] = "busy" /\ call'[r] = c /\ seen'[r] = saw
    BY <1>4, Began
<1>6. CallInv(r)'
    BY <1>1, <1>4, <1>5, CallTypes
       DEF CallInv, UserKinds, TenantKinds, MemberKinds, tableVars, Exists, ActiveRow
<1>7. rank' \in [Requests -> Rank] /\ \A s \in Requests : rank'[s] = rank[s]
    BY <1>1, RankKept
<1>8. c.kind # "confirm_reset" /\ opened' = opened /\ UNCHANGED <<tableVars, inviteVars, links>>
    BY <1>1 DEF linkVars
<1> QED BY <1>4, <1>6, <1>7, <1>8, BeginInv

LEMMA StartAccountCallInv ==
    ASSUME TenancyInv, NEW r \in Requests, NEW c \in Calls, StartAccountCall(r, c),
           UNCHANGED <<inviteVars, rank>>
    PROVE  TenancyInv'
<1>1. /\ c.kind \in UserKinds \ {"confirm_reset"} /\ Exists(c.user)
      /\ Start(r, c, row[c.user]) /\ UNCHANGED <<tableVars, linkVars>>
    BY DEF StartAccountCall, UserKinds, ActiveRow
<1>2. row[c.user] \in UserRow /\ row[c.user].password < next
    BY <1>1, CallTypes, InvParts, RowFacts
<1>3. PICK saw : saw = row[c.user]
    OBVIOUS
<1>4. Start(r, c, saw) /\ saw \in UserRow /\ saw.password < next
    BY <1>1, <1>2, <1>3
<1>5. pc'[r] = "busy" /\ call'[r] = c /\ seen'[r] = saw
    BY <1>4, Began
<1>6. CallInv(r)'
    BY <1>1, <1>4, <1>5, CallTypes
       DEF CallInv, UserKinds, TenantKinds, MemberKinds, tableVars, Exists
<1>7. rank' \in [Requests -> Rank] /\ \A s \in Requests : rank'[s] = rank[s]
    BY RankKept
<1>8. c.kind # "confirm_reset" /\ opened' = opened /\ UNCHANGED <<tableVars, inviteVars, links>>
    BY <1>1 DEF linkVars
<1> QED BY <1>4, <1>6, <1>7, <1>8, BeginInv

LEMMA StartResetInv ==
    ASSUME TenancyInv, NEW r \in Requests, NEW c \in Calls, StartReset(r, c),
           UNCHANGED <<inviteVars, rank>>
    PROVE  TenancyInv'
<1>1. /\ c.kind = "confirm_reset" /\ Exists(c.user)
      /\ Start(r, c, row[c.user]) /\ UNCHANGED <<tableVars, links>>
    BY DEF StartReset, ActiveRow
<1>2. PICK link \in links : link = <<c.user, row[c.user].password>> /\ opened' = [opened EXCEPT ![r] = link]
    BY DEF StartReset, LinkValid
<1>3. row[c.user] \in UserRow /\ row[c.user].password < next
    BY <1>1, CallTypes, InvParts, RowFacts
<1>4. PICK saw : saw = row[c.user]
    OBVIOUS
<1>5. Start(r, c, saw) /\ saw \in UserRow /\ saw.password < next
    BY <1>1, <1>3, <1>4
<1>6. pc'[r] = "busy" /\ call'[r] = c /\ seen'[r] = saw
    BY <1>5, Began
<1>7. CallInv(r)'
    BY <1>1, <1>5, <1>6, CallTypes
       DEF CallInv, UserKinds, TenantKinds, MemberKinds, tableVars, Exists
<1>8. rank' \in [Requests -> Rank] /\ \A s \in Requests : rank'[s] = rank[s]
    BY RankKept
<1>9. \E l \in links : l = <<c.user, saw.password>> /\ opened' = [opened EXCEPT ![r] = l]
    BY <1>2, <1>4
<1> QED BY <1>1, <1>5, <1>7, <1>8, <1>9, BeginInv

(* A link sent is for the password of the moment. *)
LEMMA RequestResetInv ==
    ASSUME TenancyInv, NEW r \in Requests, NEW c \in Calls, RequestReset(r, c),
           UNCHANGED <<inviteVars, rank>>
    PROVE  TenancyInv'
<1>1. /\ Exists(c.user) /\ pc[r] = "idle"
      /\ pc' = [pc EXCEPT ![r] = "done"] /\ call' = [call EXCEPT ![r] = c]
      /\ links' = links \cup {<<c.user, row[c.user].password>>}
      /\ UNCHANGED <<tableVars, seen, opened>>
    BY DEF RequestReset, ActiveRow
<1>2. /\ RequestsInv /\ RowsInv /\ InvitationsInv /\ LinksInv
      /\ \A s \in Requests : CallInv(s) /\ OpenedInv(s)
    BY InvParts
<1>3. RowsInv' /\ Kept
    BY <1>1, <1>2, NothingWritten
<1>4. InvitationsInv' /\ DOMAIN invite' = DOMAIN invite
    BY <1>3, InvitationsKept DEF inviteVars
<1>5. /\ pc'[r] = "done" /\ opened[r] = NoRow
      /\ \A s \in Requests : s # r => pc'[s] = pc[s] /\ call'[s] = call[s]
    BY <1>1, <1>2 DEF RequestsInv, OpenedInv
<1>6. RequestsInv'
    BY <1>1, <1>2 DEF RequestsInv
<1>7. \A s \in Requests : CallInv(s)' /\ OpenedInv(s)'
    <2> SUFFICES ASSUME NEW s \in Requests
                 PROVE  CallInv(s)' /\ OpenedInv(s)'
        OBVIOUS
    <2>1. CASE s = r
        BY <1>1, <1>5, <2>1 DEF CallInv, OpenedInv
    <2>2. CASE s # r
        <3>1. Untouched(s) /\ links \subseteq links'
            BY <1>1, <1>5, <2>2 DEF Untouched
        <3> QED BY <1>3, <1>4, <3>1, CallKept, OpenedKept
    <2> QED BY <2>1, <2>2
<1>8. /\ links' \subseteq Users \X Nat
      /\ \A link \in links' : row'[link[1]] # NoRow /\ link[2] < next'
    <2>1. c.user \in Users /\ row[c.user].password \in Nat /\ row[c.user].password < next
        BY <1>1, <1>2, CallTypes, RowFacts
    <2>2. row' = row /\ next' = next
        BY <1>1 DEF tableVars
    <2>3. \A link \in links : row'[link[1]] # NoRow /\ link[2] < next'
        BY <1>3, LinkRowsKept
    <2> QED BY <1>1, <1>2, <2>1, <2>2, <2>3 DEF LinksInv, Exists
<1>9. LinkWorksOnce'
    BY <1>1, <1>2, <1>5 DEF LinksInv, LinkWorksOnce, tableVars
<1>10. LinksInv'
    BY <1>7, <1>8, <1>9 DEF LinksInv, Exists
<1> QED BY <1>3, <1>4, <1>6, <1>7, <1>10 DEF TenancyInv

-----------------------------------------------------------------------------
(* The invariant is inductive.                                               *)

LEMMA TenancyInvInit == Init => TenancyInv
<1> SUFFICES ASSUME Init
             PROVE  TenancyInv
    OBVIOUS
<1>1. /\ row = Opening /\ next = 1 /\ links = {} /\ trampled = {}
      /\ pc = [r \in Requests |-> "idle"] /\ call = [r \in Requests |-> NoCall]
      /\ seen = [r \in Requests |-> NoRow] /\ opened = [r \in Requests |-> NoRow]
      /\ rank = [r \in Requests |-> NoRow]
      /\ invite = <<>> /\ outcomes = <<>> /\ contested = {}
    BY DEF Init, AccountsInit
<1>2. RequestsInv
    BY <1>1 DEF RequestsInv, Rank
<1>3. RowsInv
    BY <1>1, TenancyAssumption DEF RowsInv, WellFormed
<1>4. \A r \in Requests : CallInv(r)
    BY <1>1 DEF CallInv
<1>5. InvitationsInv
    BY <1>1 DEF InvitationsInv, InvitationSettlesOnce
<1>6. LinksInv
    BY <1>1 DEF LinksInv, OpenedInv, LinkWorksOnce
<1> QED BY <1>2, <1>3, <1>4, <1>5, <1>6 DEF TenancyInv

LEMMA FinishKeepsInv ==
    ASSUME TenancyInv, NEW r \in Requests, Finish(r)
    PROVE  TenancyInv'
<1>1. CASE Invite(r)
    BY <1>1, InviteInv
<1>2. CASE Cancel(r)
    BY <1>2, CancelInv
<1>3. CASE Accept(r)
    BY <1>3, AcceptInv
<1>4. CASE ChangeMember(r)
    BY <1>4, ChangeMemberInv
<1>5. CASE RemoveMember(r)
    BY <1>5, RemoveMemberInv
<1>6. CASE RemoveMembership(r)
    BY <1>6, RemoveMembershipInv
<1>7. CASE AssignTenant(r)
    BY <1>7, AssignTenantInv
<1>8. CASE CreateUser(r)
    BY <1>8, CreateUserInv
<1>9. CASE Register(r)
    BY <1>9, RegisterInv
<1>10. CASE CreateTenant(r)
    BY <1>10, CreateTenantInv
<1>11. CASE Suspend(r)
    BY <1>11, SuspendInv
<1>12. CASE Billing(r)
    BY <1>12, BillingInv
<1>13. CASE Settings(r)
    BY <1>13, SettingsInv
<1>14. CASE AccountStep(r) /\ UNCHANGED <<inviteVars, rank>>
    BY <1>14, EditProfileInv, SetPasswordInv, EditUserInv, DisableUserInv, ConfirmResetInv
       DEF AccountStep
<1> QED BY <1>1, <1>2, <1>3, <1>4, <1>5, <1>6, <1>7, <1>8, <1>9, <1>10, <1>11, <1>12,
           <1>13, <1>14 DEF Finish

LEMMA BeginKeepsInv ==
    ASSUME TenancyInv, NEW r \in Requests, NEW c \in Calls, Begin(r, c)
    PROVE  TenancyInv'
BY StartInviteInv, StartCancelInv, StartAcceptInv, StartMemberInv, StartPlatformInv,
   StartSettingsInv, StartAccountCallInv, RequestResetInv, StartResetInv DEF Begin

LEMMA TenancyInvNext == TenancyInv /\ [Next]_vars => TenancyInv'
<1> SUFFICES ASSUME TenancyInv, [Next]_vars
             PROVE  TenancyInv'
    OBVIOUS
<1>1. CASE \E r \in Requests : Finish(r) \/ \E c \in Calls : Begin(r, c)
    BY <1>1, FinishKeepsInv, BeginKeepsInv
<1>2. CASE \E i \in DOMAIN invite : Expire(i)
    BY <1>2, ExpireInv
<1>3. CASE UNCHANGED vars
    BY <1>3, InvParts
       DEF vars, accountVars, inviteVars, TenancyInv, RequestsInv, RowsInv, WellFormed,
           CallInv, InvitationsInv, InvitationSettlesOnce,
           LinksInv, OpenedInv, Spent, LinkWorksOnce, Exists
<1> QED BY <1>1, <1>2, <1>3 DEF Next

-----------------------------------------------------------------------------
(* The theorems.                                                             *)

(* Whatever calls the requests make, in whatever order they read and write,  *)
(* the rows are well formed, and what a request may rely on stays true until *)
(* it writes.                                       *)
THEOREM TenancyInvariant == Spec => []TenancyInv
BY TenancyInvInit, TenancyInvNext, PTL DEF Spec

(* Types hold: a membership has its tenant and its account, whichever writes *)
(* raced, and no password hash is one that has yet to be made.               *)
THEOREM TenancyTypes == Spec => []TenancyTypeOK
<1>1. TenancyInv => TenancyTypeOK
    <2> SUFFICES ASSUME TenancyInv
                 PROVE  TenancyTypeOK
        OBVIOUS
    <2>1. /\ \A u \in Users : Exists(u) => row[u].active \in BOOLEAN /\ row[u].password < next
          /\ \A t \in Tenants : Exists(t) => row[t].active \in BOOLEAN /\ row[t].max \in Nat
          /\ \A t \in Tenants, u \in Users : Exists(<<t, u>>) =>
                /\ row[<<t, u>>].active \in BOOLEAN
                /\ row[<<t, u>>].role \in TenantRole
                /\ Exists(t) /\ Exists(u)
        BY InvParts, RowFacts DEF UserRow, TenantRow, MemberRow
    <2>2. \A i \in DOMAIN invite :
              /\ invite[i].tenant \in Tenants /\ Exists(invite[i].tenant)
              /\ invite[i].role \in TenantRole
              /\ invite[i].status \in InvitationStatus
        BY InvParts, InviteFacts DEF Invitation
    <2>3. outcomes \in [DOMAIN invite -> Seq(InvitationStatus)] /\ contested \subseteq DOMAIN invite
        <3>1. outcomes \in Seq(Seq(InvitationStatus)) /\ DOMAIN outcomes = DOMAIN invite
            BY InvParts, InviteFacts DEF InvitationsInv
        <3>2. \A i \in DOMAIN outcomes : outcomes[i] \in Seq(InvitationStatus)
            BY <3>1, SeqAt
        <3>3. outcomes = [i \in DOMAIN outcomes |-> outcomes[i]]
            BY <3>1
        <3> QED BY <3>1, <3>2, <3>3, InvParts DEF InvitationsInv
    <2>4. pc \in [Requests -> {"idle", "busy", "done"}]
        BY InvParts DEF RequestsInv
    <2> QED BY <2>1, <2>2, <2>3, <2>4 DEF TenancyTypeOK
<1> QED BY <1>1, TenancyInvariant, PTL

(* Two requests that set a password with one reset link have written back    *)
(* the account over another write: a link cannot be used again later.        *)
THEOREM LinksWorkOnce == Spec => []LinkWorksOnce
<1>1. TenancyInv => LinkWorksOnce
    BY DEF TenancyInv, LinksInv
<1> QED BY <1>1, TenancyInvariant, PTL

(* An invitation gets one answer, and keeps it, unless two requests had both *)
(* read it while it was pending.                                             *)
THEOREM InvitationsSettleOnce == Spec => []InvitationSettlesOnce
<1>1. TenancyInv => InvitationSettlesOnce
    BY DEF TenancyInv, InvitationsInv
<1> QED BY <1>1, TenancyInvariant, PTL

-----------------------------------------------------------------------------
(* Who becomes an owner, and by whom.                                        *)

MadeOwner(t, u) ==
    /\ ~(Exists(<<t, u>>) /\ row[<<t, u>>].role = "owner")
    /\ row'[<<t, u>>] # NoRow /\ row'[<<t, u>>].role = "owner"

GivenBy(r, t, u) ==
    /\ pc[r] = "busy" /\ pc'[r] = "done"
    /\ GivesOwnership(r) \/ PutsOwnerBack(r, t, u)

LEMMA OneWrite ==
    ASSUME TenancyInv, NEW k \in Users \cup Tenants, NEW v, row' = [row EXCEPT ![k] = v],
           NEW t \in Tenants, NEW u \in Users
    PROVE  ~MadeOwner(t, u)
<1>1. row'[<<t, u>>] = row[<<t, u>>]
    BY InvParts, RowFacts, KeyKinds
<1> QED BY <1>1 DEF MadeOwner, Exists

LEMMA NoWrite ==
    ASSUME row' = row, NEW t, NEW u
    PROVE  ~MadeOwner(t, u)
BY DEF MadeOwner, Exists

LEMMA Answered ==
    ASSUME TenancyInv, NEW r \in Requests, Answer(r)
    PROVE  pc'[r] = "done"
BY InvParts DEF RequestsInv, Answer

LEMMA BegunMakesNoOwner ==
    ASSUME NEW r \in Requests, NEW c \in Calls, Begin(r, c)
    PROVE  row' = row
BY DEF Begin, StartInvite, StartCancel, StartAccept, StartMember, StartPlatform, StartSettings,
       StartAccountCall, RequestReset, StartReset, tableVars

LEMMA AccountMakesNoOwner ==
    ASSUME TenancyInv, NEW r \in Requests,
           AccountStep(r) \/ Suspend(r) \/ Billing(r) \/ Settings(r),
           NEW t \in Tenants, NEW u \in Users
    PROVE  ~MadeOwner(t, u)
<1>1. pc[r] = "busy"
    BY DEF AccountStep, EditProfile, SetPassword, EditUser, DisableUser, ConfirmReset,
           Suspend, Billing, Settings, Busy
<1>2. call[r].user \in Users /\ call[r].tenant \in Tenants
    BY <1>1, BusyCall
<1>3. \E k \in Users \cup Tenants : \E v : row' = [row EXCEPT ![k] = v]
    BY <1>2 DEF AccountStep, EditProfile, SetPassword, EditUser, DisableUser, ConfirmReset,
                Suspend, Billing, Settings, Save, SaveFields
<1> QED BY <1>3, OneWrite

LEMMA ChangedOwner ==
    ASSUME TenancyInv, NEW r \in Requests, ChangeMember(r),
           NEW t \in Tenants, NEW u \in Users, MadeOwner(t, u)
    PROVE  GivenBy(r, t, u)
<1>1. /\ pc[r] = "busy" /\ call[r].kind \in {"change_role", "change_active", "change_member"}
      /\ next' = next
    BY DEF ChangeMember, Busy
<1>2. PICK s \in Tenants, w \in Users, x \in TenantRole, b \in BOOLEAN :
          s = call[r].tenant /\ w = call[r].user /\ x = call[r].role /\ b = call[r].on
    BY <1>1, BusyCall
<1>3. RowsInv /\ Exists(s) /\ Exists(w) /\ seen[r] \in MemberRow
    BY <1>1, <1>2, BusyCall DEF MemberKinds
<1>4. ~Replaced(r, <<s, w>>)
    <2> SUFFICES ASSUME Replaced(r, <<s, w>>)
                 PROVE  FALSE
        OBVIOUS
    <2>1. row' = row
        BY <1>2 DEF ChangeMember, Refused, tableVars
    <2> QED BY <2>1, NoWrite
<1> DEFINE columns == Patch(call[r])
<1>5. Save(r, <<s, w>>, columns)
    BY <1>2, <1>4 DEF ChangeMember
<1>6. /\ call[r].kind = "change_active" => Over(columns, seen[r]).role = seen[r].role
      /\ call[r].kind # "change_active" => Over(columns, seen[r]).role = x
    BY <1>1, <1>2, <1>3, MemberColumns DEF Patch
<1> HIDE DEF columns
<1>7. /\ row' = [row EXCEPT ![<<s, w>>] = Over(columns, seen[r])] /\ pc'[r] = "done"
    BY <1>3, <1>5, Saved, Answered DEF Save
<1>8. s = t /\ w = u /\ row'[<<t, u>>] = Over(columns, seen[r])
    <2>1. /\ row'[<<s, w>>] = Over(columns, seen[r])
          /\ <<t, u>> # <<s, w>> => row'[<<t, u>>] = row[<<t, u>>]
        BY <1>3, <1>7, RowFacts, KeyKinds
    <2>2. <<t, u>> = <<s, w>>
        BY <2>1 DEF MadeOwner, Exists
    <2> QED BY <2>1, <2>2
<1>9. CASE call[r].kind = "change_active"
    <2>1. seen[r].role = "owner"
        BY <1>6, <1>8, <1>9 DEF MadeOwner
    <2> QED BY <1>1, <1>2, <1>7, <1>8, <1>9, <2>1 DEF GivenBy, PutsOwnerBack
<1>10. CASE call[r].kind # "change_active"
    <2>1. x = "owner"
        BY <1>6, <1>8, <1>10 DEF MadeOwner
    <2>2. rank[r] = "owner"
        BY <1>1, <1>2, <1>10, <2>1, InvParts DEF CallInv
    <2> QED BY <1>1, <1>7, <1>10, <2>2 DEF GivenBy, GivesOwnership
<1> QED BY <1>9, <1>10

LEMMA RemovalMakesNoOwner ==
    ASSUME TenancyInv, NEW r \in Requests, RemoveMember(r) \/ RemoveMembership(r),
           NEW t \in Tenants, NEW u \in Users
    PROVE  ~MadeOwner(t, u)
<1>1. /\ pc[r] = "busy" /\ call[r].kind \in {"remove_member", "remove_membership"}
      /\ next' = next
    BY DEF RemoveMember, RemoveMembership, Busy
<1>2. PICK s \in Tenants, w \in Users : s = call[r].tenant /\ w = call[r].user
    BY <1>1, BusyCall
<1>3. RowsInv /\ Exists(s) /\ Exists(w)
    BY <1>1, <1>2, BusyCall DEF MemberKinds
<1> DEFINE k == <<s, w>>
<1>4. CASE Replaced(r, k)
    <2>1. row' = row
        BY <1>2, <1>4 DEF RemoveMember, RemoveMembership, Refused, tableVars
    <2> QED BY <2>1, NoWrite
<1>5. CASE ~Replaced(r, k)
    <2>1. PICK b \in BOOLEAN : b = FALSE
        OBVIOUS
    <2>2. \/ row' = [row EXCEPT ![k] = NoRow]
          \/ row' = [row EXCEPT ![k] = IF Exists(k) THEN Over([active |-> b], row[k]) ELSE NoRow]
        BY <1>2, <1>5, <2>1 DEF RemoveMember, RemoveMembership, SaveFields, Exists
    <2>3. Exists(k) => Over([active |-> b], row[k]).role = row[k].role
        <3>1. "viewer" \in TenantRole
            BY DEF TenantRole
        <3> QED BY <1>3, <3>1, RowFacts, MemberColumns
    <2>4. row'[k] = NoRow \/ (Exists(k) /\ row'[k].role = row[k].role)
        BY <1>3, <2>2, <2>3, RowFacts, KeyKinds
    <2>5. <<t, u>> # k => row'[<<t, u>>] = row[<<t, u>>]
        BY <1>3, <2>2, RowFacts, KeyKinds
    <2> HIDE DEF k
    <2> QED BY <2>4, <2>5 DEF MadeOwner, Exists
<1> QED BY <1>4, <1>5

LEMMA AcceptedOwner ==
    ASSUME TenancyInv, NEW r \in Requests, Accept(r),
           NEW t \in Tenants, NEW u \in Users, MadeOwner(t, u)
    PROVE  GivenBy(r, t, u)
<1>1. pc[r] = "busy" /\ call[r].kind = "accept"
    BY DEF Accept, Busy
<1>2. PICK i \in DOMAIN invite : i = seen[r].i
    BY <1>1, InvParts DEF CallInv
<1>3. PICK s \in Tenants, w \in Users, x \in TenantRole :
          /\ s = invite[i].tenant /\ w = call[r].user /\ x = invite[i].role
          /\ x = "owner" => invite[i].rank \in {"owner", Platform}
    BY <1>1, BusyCall, InvParts, InviteFacts
<1>4. RowsInv
    BY InvParts
<1>5. PICK m \in MemberRow : m = Upsert(s, w, x) /\ m.role = x
    BY <1>4, UpsertRow
<1> DEFINE k == <<s, w>>
           f == RowAt(k, m)
           account == IF seen[r].account THEN <<>> ELSE RowAt(w, NewUser)
           rows == Over(f, account)
           taken == ~seen[r].account /\ Exists(w)
<1>6. Insert(r, rows, taken)
    BY <1>2, <1>3, <1>5 DEF Accept
<1>7. row' # row
    BY NoWrite
<1>8. row' = Over(rows, row) /\ Answer(r)
    <2> HIDE DEF rows, taken
    <2> QED BY <1>6, <1>7 DEF Insert, Refused, tableVars
<1>9. /\ k \in DOMAIN rows /\ rows[k] = m
      /\ DOMAIN rows \subseteq {k, w}
    <2>1. DOMAIN f = {k} /\ f[k] = m
        BY OneRow
    <2>2. DOMAIN account \subseteq {w}
        <3>1. DOMAIN <<>> = {}
            OBVIOUS
        <3>2. DOMAIN RowAt(w, NewUser) = {w}
            BY OneRow
        <3> QED BY <3>1, <3>2
    <2> HIDE DEF f, account, k
    <2> QED BY <2>1, <2>2 DEF Over
<1> HIDE DEF rows
<1>10. row'[k] = m /\ (<<t, u>> # k => row'[<<t, u>>] = row[<<t, u>>])
    <2>1. <<t, u>> \in Keys /\ <<t, u>> # w /\ DOMAIN row = Keys
        BY <1>4, RowFacts, KeyKinds
    <2> HIDE DEF k
    <2> QED BY <1>8, <1>9, <2>1 DEF Over
<1>11. x = "owner"
    <2> HIDE DEF k
    <2> QED BY <1>5, <1>10 DEF MadeOwner, Exists
<1>12. pc'[r] = "done"
    BY <1>8, Answered
<1> QED BY <1>1, <1>2, <1>3, <1>11, <1>12 DEF GivenBy, GivesOwnership

LEMMA MadeByGovernance ==
    ASSUME TenancyInv, NEW r \in Requests, Finish(r),
           NEW t \in Tenants, NEW u \in Users, MadeOwner(t, u)
    PROVE  GivenBy(r, t, u)
<1>1. CASE Invite(r) \/ Cancel(r)
    <2>1. row' = row
        BY <1>1 DEF Invite, Cancel, tableVars
    <2> QED BY <2>1, NoWrite
<1>2. CASE Accept(r)
    BY <1>2, AcceptedOwner
<1>3. CASE ChangeMember(r)
    BY <1>3, ChangedOwner
<1>4. CASE RemoveMember(r) \/ RemoveMembership(r)
    BY <1>4, RemovalMakesNoOwner
<1>5. CASE AssignTenant(r) \/ CreateUser(r) \/ Register(r) \/ CreateTenant(r)
    <2>1. /\ pc[r] = "busy"
          /\ call[r].kind \in {"assign_tenant", "create_user", "register", "create_tenant"}
        BY <1>5 DEF AssignTenant, CreateUser, Register, CreateTenant, Busy
    <2>2. Answer(r)
        BY <1>5 DEF AssignTenant, CreateUser, Register, CreateTenant, Insert, Refused
    <2> QED BY <2>1, <2>2, Answered DEF GivenBy, GivesOwnership
<1>6. CASE Suspend(r) \/ Billing(r) \/ Settings(r) \/ AccountStep(r)
    BY <1>6, AccountMakesNoOwner
<1> QED BY <1>1, <1>2, <1>3, <1>4, <1>5, <1>6 DEF Finish

(* Ownership is given by an owner or the platform, in a call that had the    *)
(* right when it began, or is put back by a change of is_active whose        *)
(* request had read the member as an owner.                                  *)
THEOREM OwnersMadeByOwners == Spec => OwnersComeFromOwners
<1>1. TenancyInv /\ [Next]_vars =>
          [\A t \in Tenants, u \in Users :
               ~(Exists(<<t, u>>) /\ row[<<t, u>>].role = "owner")
                 /\ (row'[<<t, u>>] # NoRow /\ row'[<<t, u>>].role = "owner")
               => \E r \in Requests :
                     /\ pc[r] = "busy" /\ pc'[r] = "done"
                     /\ GivesOwnership(r) \/ PutsOwnerBack(r, t, u)]_vars
    <2> SUFFICES ASSUME TenancyInv, Next, NEW t \in Tenants, NEW u \in Users, MadeOwner(t, u)
                 PROVE  \E r \in Requests : GivenBy(r, t, u)
        BY DEF MadeOwner, GivenBy
    <2>1. CASE \E r \in Requests : Finish(r)
        BY <2>1, MadeByGovernance
    <2>2. CASE \E r \in Requests, c \in Calls : Begin(r, c)
        BY <2>2, BegunMakesNoOwner, NoWrite
    <2>3. CASE \E i \in DOMAIN invite : Expire(i)
        <3>1. row' = row
            BY <2>3 DEF Expire, accountVars
        <3> QED BY <3>1, NoWrite
    <2> QED BY <2>1, <2>2, <2>3 DEF Next
<1> QED BY <1>1, TenancyInvariant, PTL DEF Spec, OwnersComeFromOwners
-----------------------------------------------------------------------------
(* What a request changes is what it was made to change.                     *)

ChangesAsked(r) == \A k \in Keys : row'[k] # row[k] => Asked(r, k)

LEMMA RefusedAsked ==
    ASSUME NEW r \in Requests, Refused(r)
    PROVE  ChangesAsked(r)
BY DEF Refused, tableVars, ChangesAsked

LEMMA SaveAsked ==
    ASSUME RowsInv, NEW r \in Requests, NEW k \in Keys, NEW columns, Save(r, k, columns),
           Over(columns, seen[r]) # NoRow, k = Target(r),
           call[r].kind \in SavesWhole, DOMAIN columns \subseteq Purpose(call[r].kind)
    PROVE  ChangesAsked(r)
<1>1. PICK v : v = Over(columns, seen[r])
    OBVIOUS
<1>2. row'[k] = v /\ v # NoRow /\ \A j \in Keys : j # k => row'[j] = row[j]
    BY <1>1, RowFacts DEF Save
<1>3. \A col \in DOMAIN v : col \in DOMAIN columns \/ v[col] = seen[r][col]
    BY <1>1 DEF Over
<1>4. \A col \in DOMAIN row'[k] :
          col \in Purpose(call[r].kind) \/ row'[k][col] = seen[r][col]
    BY <1>2, <1>3
<1> QED BY <1>2, <1>4 DEF ChangesAsked, Asked

LEMMA FieldsAsked ==
    ASSUME RowsInv, NEW r \in Requests, NEW k \in Keys, NEW columns, SaveFields(r, k, columns),
           Exists(k) => Over(columns, row[k]) # NoRow, k = Target(r),
           DOMAIN columns \subseteq Purpose(call[r].kind)
    PROVE  ChangesAsked(r)
<1>1. CASE ~Exists(k)
    <2>1. \A j \in Keys : row'[j] = row[j]
        BY <1>1, RowFacts DEF SaveFields, Exists
    <2> QED BY <2>1 DEF ChangesAsked
<1>2. CASE Exists(k)
    <2>1. PICK v : v = Over(columns, row[k])
        OBVIOUS
    <2>2. row'[k] = v /\ v # NoRow /\ \A j \in Keys : j # k => row'[j] = row[j]
        BY <1>2, <2>1, RowFacts DEF SaveFields, Exists
    <2>3. \A col \in DOMAIN v : col \in DOMAIN columns \/ v[col] = row[k][col]
        BY <2>1 DEF Over
    <2>4. \A col \in DOMAIN row'[k] :
              col \in Purpose(call[r].kind) \/ row'[k][col] = row[k][col]
        BY <2>2, <2>3
    <2> QED BY <1>2, <2>2, <2>4 DEF ChangesAsked, Asked
<1> QED BY <1>1, <1>2

LEMMA JoinedAsked ==
    ASSUME RowsInv, NEW r \in Requests, NEW t \in Tenants, NEW u \in Users,
           NEW rows, NEW taken, Joined(t, u, rows), Insert(r, rows, taken), ~taken,
           DOMAIN rows \subseteq MayMake(r), t \in DOMAIN rows => ~Exists(t),
           Exists(<<t, u>>) /\ <<t, u>> \in DOMAIN rows =>
               /\ Target(r) = <<t, u>> /\ Purpose(call[r].kind) = {"role", "active"}
               /\ rows[<<t, u>>].id = row[<<t, u>>].id
    PROVE  ChangesAsked(r)
<1>1. PICK k \in Keys : k = <<t, u>>
    BY KeyKinds
<1>2. row' = [j \in Keys |-> IF j \in DOMAIN rows THEN rows[j] ELSE row[j]]
    <2>1. DOMAIN rows \subseteq Keys /\ row' = Over(rows, row)
        BY KeyKinds DEF Joined, Insert
    <2> QED BY <2>1, RowFacts DEF Over
<1>3. SUFFICES ASSUME NEW j \in Keys, j \in DOMAIN rows
               PROVE  Asked(r, j)
    BY <1>2 DEF ChangesAsked
<1>4. CASE ~Exists(j)
    BY <1>3, <1>4 DEF Asked, Exists
<1>5. CASE Exists(j)
    <2>1. j = k
        BY <1>1, <1>3, <1>5 DEF Joined
    <2>2. row'[k] = rows[k] /\ rows[k] \in MemberRow
        BY <1>1, <1>2, <1>3, <2>1 DEF Joined
    <2>3. DOMAIN row'[k] = {"active", "role", "id"} /\ row'[k] # NoRow
        BY <2>2, NoRowKinds DEF MemberRow
    <2>4. /\ k = Target(r) /\ row'[k].id = row[k].id
          /\ "active" \in Purpose(call[r].kind) /\ "role" \in Purpose(call[r].kind)
        BY <1>1, <1>3, <1>5, <2>1, <2>2
    <2>5. \A col \in DOMAIN row'[k] :
              row'[k][col] = row[k][col] \/ col \in Purpose(call[r].kind)
        BY <2>3, <2>4
    <2> QED BY <1>5, <2>1, <2>3, <2>4, <2>5 DEF Asked
<1> QED BY <1>4, <1>5

LEMMA AccountAsked ==
    ASSUME TenancyInv, NEW r \in Requests, AccountStep(r)
    PROVE  ChangesAsked(r)
<1>1. pc[r] = "busy" /\ call[r].kind \in UserKinds
    BY DEF AccountStep, EditProfile, SetPassword, EditUser, DisableUser, ConfirmReset, Busy, UserKinds
<1>2. PICK u \in Users, b \in BOOLEAN, n \in Nat : u = call[r].user /\ b = call[r].on /\ n = next
    BY <1>1, BusyCall
<1>3. RowsInv /\ Exists(u) /\ seen[r] \in UserRow /\ row[u] \in UserRow /\ u \in Keys
    BY <1>1, <1>2, BusyCall, RowFacts, KeyKinds
<1>4. u = Target(r)
    BY <1>1, <1>2 DEF Target, UserKinds
<1>5. CASE EditProfile(r)
    <2>1. Save(r, u, <<>>) /\ call[r].kind = "profile"
        BY <1>2, <1>5 DEF EditProfile, Busy
    <2>2. Over(<<>>, seen[r]) # NoRow /\ DOMAIN <<>> = {}
        <3>1. DOMAIN <<>> = {}
            OBVIOUS
        <3>2. seen[r] = [x \in DOMAIN seen[r] |-> seen[r][x]]
            BY <1>3 DEF UserRow
        <3> QED BY <1>3, <3>1, <3>2, NoColumns, NoRowKinds
    <2> QED BY <1>3, <1>4, <2>1, <2>2, SaveAsked DEF SavesWhole
<1>6. CASE SetPassword(r) \/ ConfirmReset(r)
    <2> DEFINE columns == [password |-> n]
    <2>1. Save(r, u, columns) /\ call[r].kind \in {"password", "reset_password", "confirm_reset"}
        BY <1>2, <1>6 DEF SetPassword, ConfirmReset, Busy
    <2>2. Over(columns, seen[r]) # NoRow /\ DOMAIN columns = {"password"}
        BY <1>3, UserColumns, NoRowKinds
    <2>3. DOMAIN columns \subseteq Purpose(call[r].kind) /\ call[r].kind \in SavesWhole
        BY <2>1, <2>2 DEF Purpose, SavesWhole
    <2> HIDE DEF columns
    <2> QED BY <1>3, <1>4, <2>1, <2>2, <2>3, SaveAsked
<1>7. CASE EditUser(r)
    <2> DEFINE columns == [active |-> b]
    <2>1. Save(r, u, columns) /\ call[r].kind = "edit_user"
        BY <1>2, <1>7 DEF EditUser, Busy
    <2>2. Over(columns, seen[r]) # NoRow /\ DOMAIN columns = {"active"}
        BY <1>3, UserColumns, NoRowKinds
    <2>3. DOMAIN columns \subseteq Purpose(call[r].kind) /\ call[r].kind \in SavesWhole
        BY <2>1, <2>2 DEF Purpose, SavesWhole
    <2> HIDE DEF columns
    <2> QED BY <1>3, <1>4, <2>1, <2>2, <2>3, SaveAsked
<1>8. CASE DisableUser(r)
    <2>1. PICK off \in BOOLEAN : off = FALSE
        OBVIOUS
    <2> DEFINE columns == [active |-> off]
    <2>2. SaveFields(r, u, columns) /\ call[r].kind = "disable_user"
        BY <1>2, <1>8, <2>1 DEF DisableUser, Busy
    <2>3. Over(columns, row[u]) # NoRow /\ DOMAIN columns = {"active"}
        BY <1>3, UserColumns, NoRowKinds
    <2>4. DOMAIN columns \subseteq Purpose(call[r].kind)
        BY <2>2, <2>3 DEF Purpose
    <2> HIDE DEF columns
    <2> QED BY <1>3, <1>4, <2>2, <2>3, <2>4, FieldsAsked
<1> QED BY <1>5, <1>6, <1>7, <1>8 DEF AccountStep

LEMMA TenantAsked ==
    ASSUME TenancyInv, NEW r \in Requests, Suspend(r) \/ Billing(r) \/ Settings(r)
    PROVE  ChangesAsked(r)
<1>1. pc[r] = "busy" /\ call[r].kind \in TenantKinds
    BY DEF Suspend, Billing, Settings, Busy, TenantKinds
<1>2. PICK t \in Tenants : t = call[r].tenant
    BY <1>1, BusyCall
<1>3. RowsInv /\ Exists(t) /\ seen[r] \in TenantRow /\ row[t] \in TenantRow /\ t \in Keys
    BY <1>1, <1>2, BusyCall, RowFacts, KeyKinds
<1>4. t = Target(r)
    BY <1>1, <1>2 DEF Target, TenantKinds
<1>5. CASE Suspend(r)
    <2>1. PICK b \in BOOLEAN : b = (call[r].kind = "reactivate")
        OBVIOUS
    <2> DEFINE columns == [active |-> b]
    <2>2. SaveFields(r, t, columns) /\ call[r].kind \in {"suspend", "reactivate"}
        BY <1>2, <1>5, <2>1 DEF Suspend, Busy
    <2>3. Over(columns, row[t]) # NoRow /\ DOMAIN columns = {"active"}
        BY <1>3, TenantColumns, NoRowKinds
    <2>4. DOMAIN columns \subseteq Purpose(call[r].kind)
        BY <2>2, <2>3 DEF Purpose
    <2> HIDE DEF columns
    <2> QED BY <1>3, <1>4, <2>2, <2>3, <2>4, FieldsAsked
<1>6. CASE Billing(r)
    <2>1. PICK n \in Nat : n = 1
        OBVIOUS
    <2> DEFINE columns == [max |-> n]
    <2>2. Save(r, t, columns) /\ call[r].kind = "billing"
        BY <1>2, <1>6, <2>1 DEF Billing, Busy
    <2>3. Over(columns, seen[r]) # NoRow /\ DOMAIN columns = {"max"}
        BY <1>3, TenantColumns, NoRowKinds
    <2>4. DOMAIN columns \subseteq Purpose(call[r].kind) /\ call[r].kind \in SavesWhole
        BY <2>2, <2>3 DEF Purpose, SavesWhole
    <2> HIDE DEF columns
    <2> QED BY <1>3, <1>4, <2>2, <2>3, <2>4, SaveAsked
<1>7. CASE Settings(r)
    <2>1. Save(r, t, <<>>) /\ call[r].kind = "settings"
        BY <1>2, <1>7 DEF Settings, Busy
    <2>2. Over(<<>>, seen[r]) # NoRow /\ DOMAIN <<>> = {}
        <3>1. DOMAIN <<>> = {}
            OBVIOUS
        <3>2. seen[r] = [x \in DOMAIN seen[r] |-> seen[r][x]]
            BY <1>3 DEF TenantRow
        <3> QED BY <1>3, <3>1, <3>2, NoColumns, NoRowKinds
    <2> QED BY <1>3, <1>4, <2>1, <2>2, SaveAsked DEF SavesWhole
<1> QED BY <1>5, <1>6, <1>7

LEMMA MemberAsked ==
    ASSUME TenancyInv, NEW r \in Requests,
           ChangeMember(r) \/ RemoveMember(r) \/ RemoveMembership(r)
    PROVE  ChangesAsked(r)
<1>1. pc[r] = "busy" /\ call[r].kind \in MemberKinds
    BY DEF ChangeMember, RemoveMember, RemoveMembership, Busy, MemberKinds
<1>2. PICK t \in Tenants, u \in Users, x \in TenantRole, b \in BOOLEAN :
          t = call[r].tenant /\ u = call[r].user /\ x = call[r].role /\ b = call[r].on
    BY <1>1, BusyCall
<1>3. PICK k \in Keys : k = <<t, u>>
    BY KeyKinds
<1>4. RowsInv /\ seen[r] \in MemberRow /\ (Exists(k) => row[k] \in MemberRow)
    BY <1>1, <1>3, BusyCall, RowFacts
<1>5. k = Target(r)
    BY <1>1, <1>2, <1>3 DEF Target, Membership, MemberKinds
<1>6. CASE Replaced(r, k)
    <2>1. Refused(r)
        BY <1>2, <1>3, <1>6 DEF ChangeMember, RemoveMember, RemoveMembership
    <2> QED BY <2>1, RefusedAsked
<1>7. CASE ~Replaced(r, k) /\ ChangeMember(r)
    <2> DEFINE columns == Patch(call[r])
    <2>1. /\ Save(r, k, columns)
          /\ call[r].kind \in {"change_role", "change_active", "change_member"}
        BY <1>2, <1>3, <1>7 DEF ChangeMember, Busy
    <2>2. Over(columns, seen[r]) \in MemberRow
        BY <1>2, <1>4, <2>1, MemberColumns DEF Patch
    <2>3. DOMAIN columns \subseteq Purpose(call[r].kind) /\ call[r].kind \in SavesWhole
        <3>1. CASE call[r].kind = "change_role"
            BY <3>1 DEF Patch, Purpose, SavesWhole
        <3>2. CASE call[r].kind = "change_active"
            BY <3>2 DEF Patch, Purpose, SavesWhole
        <3>3. CASE call[r].kind = "change_member"
            BY <3>3 DEF Patch, Purpose, SavesWhole
        <3> QED BY <2>1, <3>1, <3>2, <3>3
    <2> HIDE DEF columns
    <2> QED BY <1>4, <1>5, <2>1, <2>2, <2>3, SaveAsked, NoRowKinds
<1>8. CASE ~Replaced(r, k) /\ RemoveMember(r)
    <2>1. row' = [row EXCEPT ![k] = NoRow] /\ call[r].kind = "remove_member"
        BY <1>2, <1>3, <1>8 DEF RemoveMember, Busy
    <2>2. row'[k] = NoRow /\ \A j \in Keys : j # k => row'[j] = row[j]
        BY <1>4, <2>1, RowFacts
    <2> QED BY <1>5, <2>1, <2>2 DEF ChangesAsked, Asked
<1>9. CASE ~Replaced(r, k) /\ RemoveMembership(r)
    <2>1. PICK off \in BOOLEAN : off = FALSE
        OBVIOUS
    <2> DEFINE columns == [active |-> off]
    <2>2. SaveFields(r, k, columns) /\ call[r].kind = "remove_membership"
        BY <1>2, <1>3, <1>9, <2>1 DEF RemoveMembership, Busy
    <2>3. DOMAIN columns = {"active"} /\ (Exists(k) => Over(columns, row[k]) # NoRow)
        <3>1. DOMAIN columns = {"active"}
            OBVIOUS
        <3>2. Exists(k) => Over(columns, row[k]) \in MemberRow
            BY <1>4, MemberColumns
        <3> QED BY <3>1, <3>2, NoRowKinds
    <2>4. DOMAIN columns \subseteq Purpose(call[r].kind)
        BY <2>2, <2>3 DEF Purpose
    <2> HIDE DEF columns
    <2> QED BY <1>4, <1>5, <2>2, <2>3, <2>4, FieldsAsked
<1> QED BY <1>6, <1>7, <1>8, <1>9

(* The handlers that insert rows. *)
LEMMA OverDomain ==
    ASSUME NEW f, NEW g
    PROVE  /\ DOMAIN Over(f, g) = DOMAIN f \cup DOMAIN g
           /\ \A x \in DOMAIN f : Over(f, g)[x] = f[x]
BY DEF Over

LEMMA UpsertKept ==
    ASSUME NEW t \in Tenants, NEW u \in Users, NEW x, Exists(<<t, u>>)
    PROVE  Upsert(t, u, x).id = row[<<t, u>>].id
BY DEF Upsert

LEMMA AssignAsked ==
    ASSUME TenancyInv, NEW r \in Requests, AssignTenant(r)
    PROVE  ChangesAsked(r)
<1>1. pc[r] = "busy" /\ call[r].kind = "assign_tenant"
    BY DEF AssignTenant, Busy
<1>2. PICK t \in Tenants, u \in Users, x \in TenantRole :
          t = call[r].tenant /\ u = call[r].user /\ x = call[r].role
    BY <1>1, BusyCall
<1>3. RowsInv /\ Exists(t) /\ Exists(u)
    BY <1>1, <1>2, BusyCall DEF CallInv
<1>4. PICK m \in MemberRow : m = Upsert(t, u, x)
    BY <1>3, UpsertRow
<1> DEFINE rows == RowAt(<<t, u>>, m)
<1>5. Insert(r, rows, FALSE) /\ Joined(t, u, rows)
    BY <1>2, <1>3, <1>4, JoinMember DEF AssignTenant
<1>6. DOMAIN rows = {<<t, u>>} /\ rows[<<t, u>>] = m
    BY OneRow
<1>7. /\ MayMake(r) = {<<t, u>>} /\ Target(r) = <<t, u>>
      /\ Purpose(call[r].kind) = {"role", "active"}
    BY <1>1, <1>2 DEF MayMake, Target, Membership, Purpose
<1>8. Exists(<<t, u>>) => m.id = row[<<t, u>>].id
    BY <1>4, UpsertKept
<1>9. t \notin DOMAIN rows
    BY <1>6, KeyKinds
<1> HIDE DEF rows
<1> QED BY <1>3, <1>5, <1>6, <1>7, <1>8, <1>9, JoinedAsked

LEMMA AcceptAsked ==
    ASSUME TenancyInv, NEW r \in Requests, Accept(r)
    PROVE  ChangesAsked(r)
<1>1. pc[r] = "busy" /\ call[r].kind = "accept"
    BY DEF Accept, Busy
<1>2. PICK i \in DOMAIN invite : i = seen[r].i
    BY <1>1, InvParts DEF CallInv
<1>3. PICK t \in Tenants, u \in Users, x \in TenantRole :
          t = invite[i].tenant /\ u = call[r].user /\ x = invite[i].role
    BY <1>1, BusyCall, InvParts, InviteFacts
<1>4. RowsInv /\ Exists(t) /\ (seen[r].account => Exists(u))
    BY <1>1, <1>3, BusyCall, InvParts, InviteFacts DEF CallInv
<1>5. PICK m \in MemberRow : m = Upsert(t, u, x)
    BY <1>4, UpsertRow
<1> DEFINE f == RowAt(<<t, u>>, m)
           account == IF seen[r].account THEN <<>> ELSE RowAt(u, NewUser)
           rows == Over(f, account)
           taken == ~seen[r].account /\ Exists(u)
<1>6. Insert(r, rows, taken)
    BY <1>2, <1>3, <1>5 DEF Accept
<1>7. CASE taken
    <2>1. Refused(r)
        BY <1>6, <1>7 DEF Insert
    <2> QED BY <2>1, RefusedAsked
<1>8. CASE ~taken
    <2>1. Joined(t, u, rows)
        BY <1>4, <1>8, AcceptedRows
    <2>2. DOMAIN f = {<<t, u>>} /\ f[<<t, u>>] = m /\ DOMAIN account \subseteq {u}
        <3>1. DOMAIN f = {<<t, u>>} /\ f[<<t, u>>] = m
            BY OneRow
        <3>2. DOMAIN <<>> = {}
            OBVIOUS
        <3>3. DOMAIN RowAt(u, NewUser) = {u}
            BY OneRow
        <3>4. DOMAIN account \subseteq {u}
            BY <3>2, <3>3
        <3> QED BY <3>1, <3>4
    <2> HIDE DEF f, account, taken
    <2>3. DOMAIN rows \subseteq {u, <<t, u>>} /\ rows[<<t, u>>] = m
        BY <2>2, OverDomain
    <2>4. /\ MayMake(r) = {u, <<t, u>>} /\ Target(r) = <<t, u>>
          /\ Purpose(call[r].kind) = {"role", "active"}
        BY <1>1, <1>2, <1>3 DEF MayMake, Target, Membership, Purpose
    <2>5. Exists(<<t, u>>) => m.id = row[<<t, u>>].id
        BY <1>5, UpsertKept
    <2>6. t \notin DOMAIN rows
        BY <2>3, KeyKinds
    <2> HIDE DEF rows
    <2> QED BY <1>4, <1>6, <1>8, <2>1, <2>3, <2>4, <2>5, <2>6, JoinedAsked
<1> QED BY <1>7, <1>8

LEMMA CreateUserAsked ==
    ASSUME TenancyInv, NEW r \in Requests, CreateUser(r)
    PROVE  ChangesAsked(r)
<1>1. pc[r] = "busy" /\ call[r].kind = "create_user"
    BY DEF CreateUser, Busy
<1>2. PICK t \in Tenants, u \in Users, x \in TenantRole :
          t = call[r].tenant /\ u = call[r].user /\ x = call[r].role
    BY <1>1, BusyCall
<1>3. RowsInv /\ Exists(t)
    BY <1>1, <1>2, BusyCall DEF CallInv
<1>4. PICK m \in MemberRow : m = Upsert(t, u, x)
    BY <1>3, UpsertRow
<1> DEFINE rows == Over(RowAt(u, NewUser), RowAt(<<t, u>>, m))
<1>5. Insert(r, rows, Exists(u))
    BY <1>2, <1>4 DEF CreateUser
<1>6. CASE Exists(u)
    <2>1. Refused(r)
        BY <1>5, <1>6 DEF Insert
    <2> QED BY <2>1, RefusedAsked
<1>7. CASE ~Exists(u)
    <2>1. Joined(t, u, rows)
        BY <1>3, <1>7, JoinAccount
    <2>2. DOMAIN rows = {u, <<t, u>>}
        <3> DEFINE f == RowAt(u, NewUser)
                   g == RowAt(<<t, u>>, m)
        <3>1. DOMAIN f = {u} /\ DOMAIN g = {<<t, u>>}
            BY OneRow
        <3>2. DOMAIN Over(f, g) = DOMAIN f \cup DOMAIN g
            <4> HIDE DEF f, g
            <4> QED BY OverDomain
        <3> QED BY <3>1, <3>2
    <2>3. MayMake(r) = {u, <<t, u>>}
        BY <1>1, <1>2 DEF MayMake, Membership
    <2>4. ~Exists(<<t, u>>) /\ t \notin DOMAIN rows
        BY <1>3, <1>7, <2>2, RowFacts, KeyKinds
    <2> HIDE DEF rows
    <2> QED BY <1>3, <1>5, <1>7, <2>1, <2>2, <2>3, <2>4, JoinedAsked
<1> QED BY <1>6, <1>7

LEMMA FoundedAsked ==
    ASSUME RowsInv, NEW r \in Requests, NEW t \in Tenants, NEW u \in Users,
           t = call[r].tenant, u = call[r].user, call[r].kind \in {"register", "create_tenant"},
           NEW rows, NEW taken, Insert(r, rows, taken), ~taken, ~Exists(t), Joined(t, u, rows)
    PROVE  ChangesAsked(r)
<1>1. MayMake(r) = {t, u, <<t, u>>}
    BY DEF MayMake, Membership
<1>2. ~Exists(<<t, u>>)
    BY RowFacts
<1>3. DOMAIN rows \subseteq MayMake(r)
    BY <1>1 DEF Joined
<1> QED BY <1>2, <1>3, JoinedAsked

LEMMA RegisterAsked ==
    ASSUME TenancyInv, NEW r \in Requests, Register(r)
    PROVE  ChangesAsked(r)
<1>1. pc[r] = "busy" /\ call[r].kind = "register"
    BY DEF Register, Busy
<1>2. PICK t \in Tenants, u \in Users : t = call[r].tenant /\ u = call[r].user
    BY <1>1, BusyCall
<1>3. RowsInv
    BY InvParts
<1>4. PICK m \in MemberRow : m = Upsert(t, u, "owner")
    BY <1>3, UpsertRow DEF TenantRole
<1>5. PICK v \in TenantRow : v = NewTenant(1)
    BY DEF NewTenant, TenantRow
<1> DEFINE rows == Over(RowAt(t, v), Over(RowAt(u, NewUser), RowAt(<<t, u>>, m)))
           taken == Exists(u) \/ Exists(t)
<1>6. Insert(r, rows, taken)
    BY <1>2, <1>4, <1>5 DEF Register
<1>7. CASE taken
    <2>1. Refused(r)
        BY <1>6, <1>7 DEF Insert
    <2> QED BY <2>1, RefusedAsked
<1>8. CASE ~taken
    <2>1. Joined(t, u, rows) /\ ~Exists(t)
        BY <1>8, JoinTenant
    <2> HIDE DEF rows, taken
    <2> QED BY <1>1, <1>2, <1>3, <1>6, <1>8, <2>1, FoundedAsked
<1> QED BY <1>7, <1>8

LEMMA CreateTenantAsked ==
    ASSUME TenancyInv, NEW r \in Requests, CreateTenant(r)
    PROVE  ChangesAsked(r)
<1>1. pc[r] = "busy" /\ call[r].kind = "create_tenant"
    BY DEF CreateTenant, Busy
<1>2. PICK t \in Tenants, u \in Users, b \in BOOLEAN :
          t = call[r].tenant /\ u = call[r].user /\ b = call[r].on
    BY <1>1, BusyCall
<1>3. RowsInv
    BY InvParts
<1>4. PICK m \in MemberRow : m = Upsert(t, u, "owner")
    BY <1>3, UpsertRow DEF TenantRole
<1>5. PICK v \in TenantRow : v = NewTenant(1)
    BY DEF NewTenant, TenantRow
<1> DEFINE rows == FoundingRows(t, u, v, m, b)
<1>6. Insert(r, rows, Exists(t))
    BY <1>2, <1>4, <1>5 DEF CreateTenant, FoundingRows
<1>7. CASE Exists(t)
    <2>1. Refused(r)
        BY <1>6, <1>7 DEF Insert
    <2> QED BY <2>1, RefusedAsked
<1>8. CASE ~Exists(t)
    <2>1. Joined(t, u, rows)
        BY FoundingJoined
    <2> HIDE DEF rows
    <2> QED BY <1>1, <1>2, <1>3, <1>6, <1>8, <2>1, FoundedAsked
<1> QED BY <1>7, <1>8

LEMMA FinishAsked ==
    ASSUME TenancyInv, NEW r \in Requests, Finish(r)
    PROVE  ChangesAsked(r) /\ pc[r] = "busy" /\ pc'[r] = "done"
<1>1. ChangesAsked(r)
    <2>1. CASE Invite(r) \/ Cancel(r)
        BY <2>1 DEF Invite, Cancel, tableVars, ChangesAsked
    <2> QED BY <2>1, AccountAsked, TenantAsked, MemberAsked, AssignAsked, AcceptAsked,
               CreateUserAsked, RegisterAsked, CreateTenantAsked DEF Finish
<1>2. pc[r] = "busy"
    BY DEF Finish, Invite, Cancel, Accept, ChangeMember, RemoveMember, RemoveMembership,
           AssignTenant, CreateUser, Register, CreateTenant, Suspend, Billing, Settings,
           AccountStep, EditProfile, SetPassword, EditUser, DisableUser, ConfirmReset, Busy
<1>3. Answer(r)
    BY DEF Finish, Invite, Cancel, Accept, ChangeMember, RemoveMember, RemoveMembership,
           AssignTenant, CreateUser, Register, CreateTenant, Suspend, Billing, Settings,
           AccountStep, EditProfile, SetPassword, EditUser, DisableUser, ConfirmReset,
           Save, SaveFields, Insert, Refused
<1>4. pc'[r] = "done"
    BY <1>3, Answered
<1> QED BY <1>1, <1>2, <1>4

(* A request changes the columns it was made to change of the row it was     *)
(* made for, and besides puts back at most what it had read of that row:     *)
(* nothing undoes a suspension, a removal, a limit, a role or a password     *)
(* that was there when the undoing request began.                            *)
THEOREM ChangesWereAsked == Spec => ChangesAreAsked
<1>1. TenancyInv /\ [Next]_vars =>
          [\A k \in Keys : row'[k] # row[k] =>
               \E r \in Requests : pc[r] = "busy" /\ pc'[r] = "done" /\ Asked(r, k)]_vars
    <2> SUFFICES ASSUME TenancyInv, Next, NEW k \in Keys, row'[k] # row[k]
                 PROVE  \E r \in Requests : pc[r] = "busy" /\ pc'[r] = "done" /\ Asked(r, k)
        OBVIOUS
    <2>1. CASE \E r \in Requests : Finish(r)
        BY <2>1, FinishAsked DEF ChangesAsked
    <2>2. CASE \E r \in Requests, c \in Calls : Begin(r, c)
        BY <2>2, BegunMakesNoOwner
    <2>3. CASE \E i \in DOMAIN invite : Expire(i)
        BY <2>3 DEF Expire, accountVars
    <2> QED BY <2>1, <2>2, <2>3 DEF Next
<1> QED BY <1>1, TenancyInvariant, PTL DEF Spec, ChangesAreAsked
=============================================================================
