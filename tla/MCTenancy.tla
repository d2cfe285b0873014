------------------------------- MODULE MCTenancy -------------------------------
(* An instance of Tenancy for TLC. *)
EXTENDS Tenancy, TLC

CONSTANTS t1, t2, owen, cora, vic, vi2, r1, r2, r3

TwoTables == Tenants \cup (Tenants \X Users)

(* t1 has an owner and a coordinator, and room for one more; t2 is not there. *)
(* vic and vi2 are usernames for one address, without an account.            *)
SomeRows ==
    [k \in Keys |->
        CASE k \in {owen, cora} -> [active |-> TRUE, password |-> 0]
          [] k = t1 -> [active |-> TRUE, max |-> 3]
          [] k = <<t1, owen>> -> [active |-> TRUE, role |-> "owner", id |-> 0]
          [] k = <<t1, cora>> -> [active |-> TRUE, role |-> "coordinator", id |-> 0]
          [] OTHER -> NoRow]

OneAddress == [u \in Users |-> IF u = vi2 THEN vic ELSE u]

Call(kind, by, t, u, role, on) ==
    [kind |-> kind, by |-> by, tenant |-> t, user |-> u, role |-> role, on |-> on]

SomeCalls ==
    {Call("invite", owen, t1, vic, "owner", TRUE),
     Call("invite", cora, t1, vic, "viewer", TRUE),
     Call("invite", cora, t1, vic, "owner", TRUE),
     Call("cancel", cora, t1, vic, "viewer", TRUE),
     Call("cancel", Platform, t1, vic, "viewer", TRUE),
     Call("accept", vic, t1, vic, "viewer", TRUE),
     Call("accept", vi2, t1, vi2, "viewer", TRUE),
     Call("change_role", owen, t1, cora, "owner", TRUE),
     Call("change_role", cora, t1, owen, "viewer", TRUE),
     Call("change_active", owen, t1, cora, "viewer", FALSE),
     Call("change_active", owen, t1, cora, "viewer", TRUE),
     Call("change_member", owen, t1, cora, "owner", FALSE),
     Call("remove_member", owen, t1, cora, "viewer", TRUE),
     Call("remove_membership", Platform, t1, cora, "viewer", TRUE),
     Call("assign_tenant", Platform, t1, cora, "manager", TRUE),
     Call("create_user", Platform, t1, vic, "manager", TRUE),
     Call("register", vic, t2, vic, "owner", TRUE),
     Call("create_tenant", Platform, t2, vic, "owner", TRUE),
     Call("create_tenant", Platform, t2, vi2, "owner", FALSE),
     Call("suspend", Platform, t1, vic, "owner", TRUE),
     Call("reactivate", Platform, t1, vic, "owner", TRUE),
     Call("billing", Platform, t1, vic, "owner", TRUE),
     Call("settings", owen, t1, vic, "owner", TRUE),
     Call("profile", cora, t1, cora, "viewer", TRUE),
     Call("password", cora, t1, cora, "viewer", TRUE),
     Call("reset_password", Platform, t1, cora, "viewer", TRUE),
     Call("edit_user", Platform, t1, cora, "viewer", TRUE),
     Call("disable_user", Platform, t1, cora, "viewer", TRUE),
     Call("request_reset", cora, t1, cora, "viewer", TRUE),
     Call("confirm_reset", cora, t1, cora, "viewer", TRUE)}

AnyRequest == Permutations(Requests)
=============================================================================
