------------------------------ MODULE MCAccounts ------------------------------
(***************************************************************************)
(* A small instance of Accounts: an administrator, a user and a free id.   *)
(***************************************************************************)
EXTENDS Accounts, TLC

CONSTANTS root, bob, new,                  \* ids
          nameRoot, nameBob, nameNew,
          mailRoot, mailBob, mailNew,
          secret1, secret2,
          r1, r2, r3

Account(name, email, role) ==
    [name |-> name, email |-> email, secret |-> secret1, role |-> role,
     active |-> TRUE, balance |-> 0]

TwoAccounts == (root :> Account(nameRoot, mailRoot, "admin"))
               @@ (bob :> Account(nameBob, mailBob, "user")) @@ (new :> None)

Register(name, email, role) ==
    [kind |-> "register", name |-> name, email |-> email, secret |-> secret1,
     role |-> role]
Login(name, secret) == [kind |-> "login", name |-> name, secret |-> secret]
Profile(token, target, email, secret) ==
    [kind |-> "profile", token |-> token, target |-> target, email |-> email,
     secret |-> secret]
Deposit(token, target, amount) ==
    [kind |-> "deposit", token |-> token, target |-> target, amount |-> amount]
Patch(token, target, role, active) ==
    [kind |-> "patch", token |-> token, target |-> target, role |-> role,
     active |-> active]

\* Requests that touch the same rows and compete for the same name and e-mail.
SomeBodies ==
    {Register(nameNew, mailNew, "user"), Register(nameNew, mailBob, "user"),
     Register(nameNew, mailNew, "admin"),
     Login(nameBob, secret1), Login(nameBob, secret2), Login(nameNew, secret1),
     Profile(bob, bob, mailNew, None), Profile(bob, bob, None, secret2),
     Profile(root, bob, mailNew, secret2), Profile(root, root, mailNew, None),
     Profile(bob, root, mailNew, None),
     Deposit(bob, bob, 1), Deposit(bob, bob, 2), Deposit(root, bob, 2),
     Deposit(root, new, 1), Deposit(new, new, 1),
     Patch(root, bob, "admin", None), Patch(root, bob, "user", None),
     Patch(root, bob, None, FALSE), Patch(root, bob, "user", TRUE),
     Patch(bob, root, None, FALSE), Patch(bob, root, "user", None),
     Patch(bob, bob, "admin", None), Patch(root, new, "admin", None),
     Patch(bob, new, "admin", None), Patch(root, root, "user", None),
     Patch(new, bob, "admin", None), Patch(new, root, None, FALSE)}

RequestSymmetry == Permutations(Requests)
=============================================================================
