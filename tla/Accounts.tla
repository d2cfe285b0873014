------------------------------- MODULE Accounts -------------------------------
(***************************************************************************)
(* User accounts, and the way every request of the account and tenant API  *)
(* writes a database row.                                                  *)
(*                                                                         *)
(* A request reads the rows it decides on, and writes later, unlocked.     *)
(* Most write with save(), which puts back every column as it was read but *)
(* for the ones assigned; some with save(update_fields=...), which writes  *)
(* those columns only.  row holds the rows of all tables, so that the two  *)
(* ways of writing are stated once.                                        *)
(***************************************************************************)
EXTENDS Naturals, FiniteSets, Sequences

CONSTANTS
    Users,        \* usernames
    OtherRows,    \* the keys of the rows of other tables
    Requests,     \* concurrent requests, each answering one call
    Calls,        \* the calls they may make
    NoCall,       \* a request that has not begun
    NoRow,        \* a key without a row
    Opening       \* the rows at the start

VARIABLES
    row,          \* row[k]: the columns of the row with key k, or NoRow
    next,         \* the next primary key or password hash to be made
    links,        \* password-reset links sent: <<user, hash of the password then>>
    pc, call,     \* where each request is, and its call
    seen,         \* what it read when it began
    trampled,     \* rows written back from a read that another write overtook
    opened        \* the link each request came with

accountVars == <<row, next, links, pc, call, seen, trampled, opened>>
tableVars == <<row, next, trampled>>
linkVars == <<links, opened>>

Keys == Users \cup OtherRows

AccountsInit ==
    /\ row = Opening
    /\ next = 1
    /\ links = {}
    /\ pc = [r \in Requests |-> "idle"]
    /\ call = [r \in Requests |-> NoCall]
    /\ seen = [r \in Requests |-> NoRow]
    /\ trampled = {}
    /\ opened = [r \in Requests |-> NoRow]

-----------------------------------------------------------------------------
(* Reading and writing rows.                                                 *)

(* f with what new holds put over it: columns over a row, rows over a table.  *)
Over(new, f) == [x \in DOMAIN new \cup DOMAIN f |-> IF x \in DOMAIN new THEN new[x] ELSE f[x]]

RowAt(k, columns) == [x \in {k} |-> columns]

Exists(k) == row[k] # NoRow
ActiveRow(k) == Exists(k) /\ row[k].active

(* r begins call c, having read saw. *)
Start(r, c, saw) ==
    /\ pc[r] = "idle"
    /\ pc' = [pc EXCEPT ![r] = "busy"]
    /\ call' = [call EXCEPT ![r] = c]
    /\ seen' = [seen EXCEPT ![r] = saw]

Busy(r, kind) == pc[r] = "busy" /\ call[r].kind = kind

Answer(r) == pc' = [pc EXCEPT ![r] = "done"] /\ UNCHANGED <<call, seen>>

(* save(): a row deleted since it was read is inserted again.                *)
Save(r, k, columns) ==
    /\ row' = [row EXCEPT ![k] = Over(columns, seen[r])]
    /\ trampled' = IF row[k] = seen[r] THEN trampled ELSE trampled \cup {k}
    /\ Answer(r)

(* save(update_fields=columns), an error if the row is gone. *)
SaveFields(r, k, columns) ==
    /\ row' = [row EXCEPT ![k] = IF @ = NoRow THEN NoRow ELSE Over(columns, @)]
    /\ UNCHANGED trampled
    /\ Answer(r)

(* The request is refused when it comes to write. *)
Refused(r) == Answer(r) /\ UNCHANGED tableVars

(* Rows inserted by create() in one transaction; a unique column that is      *)
(* taken rolls it back.                                                       *)
Insert(r, rows, taken) ==
    IF taken THEN Refused(r)
    ELSE /\ row' = Over(rows, row)
         /\ next' = next + 1
         /\ UNCHANGED trampled
         /\ Answer(r)

-----------------------------------------------------------------------------
(* The account calls.                                                        *)

(* A user authenticated as active edits the profile, or changes the password  *)
(* given the old one; platform staff set a password or edit the account.      *)
StartAccountCall(r, c) ==
    /\ \/ c.kind \in {"profile", "password"} /\ ActiveRow(c.user)
       \/ c.kind \in {"reset_password", "edit_user", "disable_user"} /\ Exists(c.user)
    /\ Start(r, c, row[c.user])
    /\ UNCHANGED <<tableVars, linkVars>>

EditProfile(r) ==
    /\ Busy(r, "profile")
    /\ Save(r, call[r].user, <<>>)
    /\ UNCHANGED <<next, linkVars>>

SetPassword(r) ==
    /\ Busy(r, "password") \/ Busy(r, "reset_password")
    /\ Save(r, call[r].user, [password |-> next])
    /\ next' = next + 1
    /\ UNCHANGED linkVars

EditUser(r) ==
    /\ Busy(r, "edit_user")
    /\ Save(r, call[r].user, [active |-> call[r].on])
    /\ UNCHANGED <<next, linkVars>>

(* perform_destroy keeps the account and turns it off. *)
DisableUser(r) ==
    /\ Busy(r, "disable_user")
    /\ SaveFields(r, call[r].user, [active |-> FALSE])
    /\ UNCHANGED <<next, linkVars>>

(* A reset link carries a hash over the password it is to replace. *)
RequestReset(r, c) ==
    /\ c.kind = "request_reset" /\ ActiveRow(c.user)
    /\ pc[r] = "idle"
    /\ pc' = [pc EXCEPT ![r] = "done"]
    /\ call' = [call EXCEPT ![r] = c]
    /\ links' = links \cup {<<c.user, row[c.user].password>>}
    /\ UNCHANGED <<tableVars, seen, opened>>

(* Faulty: the token is not computed from the password. *)
LinkSent(u, link) == link \in links /\ link[1] = u

LinkValid(u, link) == link \in links /\ link = <<u, row[u].password>>

StartReset(r, c) ==
    /\ c.kind = "confirm_reset" /\ ActiveRow(c.user)
    /\ \E link \in links :
          /\ LinkValid(c.user, link)
          /\ opened' = [opened EXCEPT ![r] = link]
    /\ Start(r, c, row[c.user])
    /\ UNCHANGED <<tableVars, links>>

ConfirmReset(r) ==
    /\ Busy(r, "confirm_reset")
    /\ Save(r, call[r].user, [password |-> next])
    /\ next' = next + 1
    /\ UNCHANGED linkVars

AccountStep(r) ==
    \/ EditProfile(r) \/ SetPassword(r) \/ EditUser(r) \/ DisableUser(r) \/ ConfirmReset(r)

-----------------------------------------------------------------------------
(* Properties.                                                               *)

(* A reset link sets one password, unless two requests used it at once or an *)
(* overtaken save() put the old password back, which makes the link valid    *)
(* again.                                                                    *)
LinkWorksOnce ==
    \A r, s \in Requests :
        /\ r # s /\ pc[r] = "done" /\ pc[s] = "done"
        /\ opened[r] = opened[s] /\ opened[r] # NoRow
        => opened[r][1] \in trampled
=============================================================================
