---------------------------- MODULE MCDeployment ----------------------------
(***************************************************************************)
(* A small instance of Deployment for TLC.                                 *)
(***************************************************************************)
EXTENDS Deployment

CONSTANTS p1, p2

Environment(app_env, postgres_db, db_url, strict, demo_password) ==
    [app_env |-> app_env, postgres_db |-> postgres_db, db_url |-> db_url,
     strict |-> strict, demo_password |-> demo_password]

\* Every way to reach a production database: the intended one, the same with
\* unsafe values, the sandbox by name (refused) and by URL.
ToProduction ==
    {Environment("production", "production", None, TRUE, "unset"),
     Environment("production", "production", None, FALSE, "fit"),
     Environment("sandbox", "production", None, FALSE, "fit"),
     Environment("sandbox", "sandbox", "production", FALSE, "fit"),
     Environment("sandbox", "sandbox", "production", FALSE, "rejected")}
=============================================================================
