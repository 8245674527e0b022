------------------------------ MODULE UserTable ------------------------------
(***************************************************************************)
(* The columns of the users table that the rest of the system relies on,   *)
(* as a table other sessions commit to: app/models/user.py.                *)
(*                                                                         *)
(* PostgreSQL runs every session at READ COMMITTED, so a request that read *)
(* a row may find it changed at its next statement.  What those changes    *)
(* can be is all this module says: an administrator's patch of role and    *)
(* is_active (routes/admin.py) and a deposit (services/users.py).  No code *)
(* path lowers a balance and none deletes a user.                          *)
(***************************************************************************)
EXTENDS Integers

CONSTANTS Users,       \* the ids of the users table
          MaxBalance,  \* the largest value of the balance column, Numeric(18, 2)
          Deposits,    \* the amounts users deposit
          Patches      \* the [role, active] pairs an administrator may write

Roles == {"user", "admin"}

UserRow == [role : Roles, active : BOOLEAN, balance : 0 .. MaxBalance]

ASSUME UserTableAssumption ==
    /\ MaxBalance \in Nat
    /\ Deposits \subseteq Nat \ {0}
    /\ Patches \subseteq [role : Roles, active : BOOLEAN]

VARIABLE users         \* [Users -> UserRow]

\* The commit of an administrator's patch; a field the request leaves out is
\* written with the value it has.
CommitPatch(u, patch) ==
    users' = [users EXCEPT ![u].role = patch.role, ![u].active = patch.active]

\* UPDATE users SET balance = balance + :amount.  A sum that does not fit the
\* column is an error of the statement, which changes nothing.
CommitDeposit(u, amount) ==
    /\ users[u].balance + amount <= MaxBalance
    /\ users' = [users EXCEPT ![u].balance = @ + amount]

UserCommit ==
    \E u \in Users :
        \/ \E patch \in Patches : CommitPatch(u, patch)
        \/ \E amount \in Deposits : CommitDeposit(u, amount)

\* Nothing else ever happens to these columns.
UserTableSpec == users \in [Users -> UserRow] /\ [][UserCommit]_users
=============================================================================
