------------------------------ MODULE MCSeedDemo ------------------------------
(***************************************************************************)
(* The demo data of app/cli.py for TLC: an administrator and two users.    *)
(***************************************************************************)
EXTENDS SeedDemo

DemoAccounts == <<"admin", "alice", "bob">>
DemoBalance == <<0, 5, 3>>
=============================================================================
