----------------------------- MODULE Deployment -----------------------------
(***************************************************************************)
(* One database and the processes operators start against it: containers   *)
(* that run `alembic upgrade head && exec uvicorn' (Dockerfile), alembic   *)
(* downgrades, create-admin and seed-demo (app/cli.py).  Each reads its    *)
(* settings when it starts (app/core/config.py) and connects to the        *)
(* database they name (alembic/env.py, alembic/versions/, app/main.py).    *)
(*                                                                         *)
(* Alembic reads the revision, then runs the migrations up to its target   *)
(* in one transaction.  PostgreSQL makes DDL transactional and keeps its   *)
(* locks until the end, so a second migration, or a statement on users,    *)
(* waits from the first DDL statement of a migration to its end.           *)
(***************************************************************************)
EXTENDS Integers, FiniteSets

CONSTANTS Processes,      \* the processes operators start, again and again
          Names,          \* user names
          DemoNames,      \* those of them seed-demo creates
          DemoAdmin,      \* and the one of these it makes an administrator
          Environments,   \* the settings processes are started with
          Database,       \* the name of the database, one of Databases
          None

\* What the name of a database contains: "sandbox", "production" or neither.
Databases == {"sandbox", "production", "other"}

\* APP_ENV, POSTGRES_DB, DB_URL, whether debug, key and bcrypt rounds are fit
\* for production, and DEMO_PASSWORD: not set, not accepted by UserRegister, or fit.
Settings == [app_env : {"sandbox", "production", "test"}, postgres_db : Databases,
             db_url : Databases \cup {None}, strict : BOOLEAN,
             demo_password : {"unset", "rejected", "fit"}]

ASSUME DeploymentAssumption ==
    /\ DemoNames \subseteq Names
    /\ DemoAdmin \in DemoNames
    /\ Environments \subseteq Settings
    /\ Database \in Databases
    /\ None \notin Databases \cup Processes

Commands == {"serve", "downgrade_auth", "downgrade_base", "create_admin", "seed_demo"}

\* Revisions 614047abe21d and 7c1d9a3b5e42 are 1 and 2.
Head == 2

\* The tables, the enum types and the columns of users that come and go together.
Objects == {"tables", "auction_status", "user_role", "auth"}

\* The hash of a password somebody chose, or of DEMO_PASSWORD.
Passwords == {"own", "demo"}

\* Revision 1 has neither password hashes nor roles.
Account == [hash : {"none", "empty"} \cup Passwords, role : {"none", "user", "admin"}]

Schemas == [revision : 0 .. Head, objects : SUBSET Objects,
            accounts : [Names -> Account \cup {None}]]

VARIABLES
    db,          \* what is committed
    draft,       \* what the transaction of the migration at work sees
    owner,       \* the process whose migration has executed DDL, or None
    pc,          \* what each process does
    command,     \* what each process was started for, None when it is off
    env,         \* its settings, None when it is off
    at,          \* the revision its migration has reached
    failed,      \* those whose migration ended with an error
    overtaken,   \* history: the processes during whose run another changed the schema
    fresh        \* history: the role each account was created with at the head revision

progress == <<pc, command, env, at, failed>>
vars == <<db, draft, owner, progress, overtaken, fresh>>

DeployTypeOK ==
    /\ db \in Schemas /\ draft \in Schemas
    /\ owner \in Processes \cup {None}
    /\ pc \in [Processes -> {"off", "plan", "migrate", "exec", "run", "serving"}]
    /\ command \in [Processes -> Commands \cup {None}]
    /\ env \in [Processes -> Environments \cup {None}]
    /\ at \in [Processes -> 0 .. Head]
    /\ failed \subseteq Processes
    /\ overtaken \subseteq Processes
    /\ fresh \in [Names -> {"none", "user", "admin"}]

-----------------------------------------------------------------------------
(* Settings *)

DatabaseUrl(e) == IF e.db_url = None THEN e.postgres_db ELSE e.db_url

\* Mutant: only production is checked.
CheckProduction(e) == e.app_env = "production" => e.strict /\ e.postgres_db # "sandbox"

CheckEnvironment(e) ==
    CASE e.app_env = "production" -> e.strict /\ e.postgres_db # "sandbox"
      [] e.app_env = "sandbox"    -> e.postgres_db # "production"
      [] e.app_env = "test"       -> TRUE

-----------------------------------------------------------------------------
(* Migrations *)

Empty == [revision |-> 0, objects |-> {}, accounts |-> [n \in Names |-> None]]

\* CREATE TYPE and CREATE TABLE fail on what exists, even on a type that an
\* earlier downgrade left.
UpgradeInitial(s) ==
    [s EXCEPT !.revision = 1, !.objects = @ \cup {"tables", "auction_status"}]

\* DROP TABLE takes the rows along; nothing drops auction_status.
DowngradeInitial(s) == [Empty EXCEPT !.objects = s.objects \ {"tables"}]

Rewrite(s, account) ==
    [n \in Names |-> IF s.accounts[n] = None THEN None ELSE account]

\* Mutant: the default is the first value of the enum.
FirstRoleByDefault(s) ==
    [revision |-> 2, objects |-> s.objects \cup {"user_role", "auth"},
     accounts |-> Rewrite(s, [hash |-> "empty", role |-> "admin"])]

\* Rows that were there get an empty hash and the role user.
UpgradeAuth(s) ==
    [revision |-> 2, objects |-> s.objects \cup {"user_role", "auth"},
     accounts |-> Rewrite(s, [hash |-> "empty", role |-> "user"])]

\* Mutant: the columns stay.
KeepColumns(s) ==
    [revision |-> 1, objects |-> s.objects \ {"user_role"},
     accounts |-> Rewrite(s, [hash |-> "none", role |-> "none"])]

DowngradeAuth(s) ==
    [revision |-> 1, objects |-> s.objects \ {"user_role", "auth"},
     accounts |-> Rewrite(s, [hash |-> "none", role |-> "none"])]

Upgrade(s) == IF s.revision = 0 THEN UpgradeInitial(s) ELSE UpgradeAuth(s)
Downgrade(s) == IF s.revision = 2 THEN DowngradeAuth(s) ELSE DowngradeInitial(s)

Goal(p) == CASE command[p] = "downgrade_auth" -> 1
             [] command[p] = "downgrade_base" -> 0
             [] OTHER -> Head

\* A process with work left goes up when it was started to serve, down otherwise.
Behind(p) == IF command[p] = "serve" THEN at[p] < Head ELSE at[p] > Goal(p)

\* Every statement of the next migration succeeds, the UPDATE of alembic_version
\* included: it has to find the revision the migration starts from.
Applies(p, s) ==
    /\ s.revision = at[p]
    /\ CASE command[p] = "serve" /\ at[p] = 0 ->
                s.objects \cap {"tables", "auction_status"} = {}
         [] command[p] = "serve" /\ at[p] = 1 -> "auth" \notin s.objects
         [] OTHER -> TRUE

-----------------------------------------------------------------------------
(* A process *)

Init ==
    /\ db = Empty /\ draft = Empty /\ owner = None
    /\ pc = [p \in Processes |-> "off"]
    /\ command = [p \in Processes |-> None]
    /\ env = [p \in Processes |-> None]
    /\ at = [p \in Processes |-> 0]
    /\ failed = {}
    /\ overtaken = {}
    /\ fresh = [n \in Names |-> "none"]

Goto(p, label) == pc' = [pc EXCEPT ![p] = label] /\ UNCHANGED <<command, env>>

Exit(p) ==
    /\ pc' = [pc EXCEPT ![p] = "off"]
    /\ command' = [command EXCEPT ![p] = None]
    /\ env' = [env EXCEPT ![p] = None]

\* Importing the settings raises before anything else happens; seed-demo refuses
\* production and needs a password.  A refused process leaves nothing behind.
Admissible(c, e) ==
    /\ CheckEnvironment(e)
    /\ c = "seed_demo" => e.app_env # "production" /\ e.demo_password # "unset"

Launch(p, c, e) ==
    /\ pc[p] = "off"
    /\ Admissible(c, e)
    /\ DatabaseUrl(e) = Database
    /\ command' = [command EXCEPT ![p] = c]
    /\ env' = [env EXCEPT ![p] = e]
    /\ pc' = [pc EXCEPT ![p] = IF c \in {"create_admin", "seed_demo"} THEN "run" ELSE "plan"]
    /\ at' = [at EXCEPT ![p] = 0]
    /\ failed' = failed \ {p}
    /\ overtaken' = overtaken \ {p}
    /\ UNCHANGED <<db, draft, owner, fresh>>

\* SELECT version_num FROM alembic_version.  Alembic refuses to downgrade an empty
\* database to revision 1, which is not below it.
Plan(p) ==
    /\ pc[p] = "plan"
    /\ at' = [at EXCEPT ![p] = db.revision]
    /\ IF command[p] # "serve" /\ db.revision < Goal(p) THEN Exit(p) ELSE Goto(p, "migrate")
    /\ UNCHANGED <<db, draft, owner, failed, overtaken, fresh>>

Unlocked(p) == owner \in {None, p}

\* Others that are under way notice a new schema; accounts of the head revision
\* lose password and role when it is left.
Publish(p, s) ==
    /\ db' = s
    /\ overtaken' = IF s = db THEN overtaken
                    ELSE overtaken \cup {q \in Processes \ {p} : pc[q] # "off"}
    /\ fresh' = IF s.revision = Head THEN fresh ELSE [n \in Names |-> "none"]

\* Mutant: each migration commits by itself.
MigrateUnwrapped(p) ==
    LET s == IF command[p] = "serve" THEN Upgrade(db) ELSE Downgrade(db)
    IN /\ pc[p] = "migrate" /\ Unlocked(p) /\ Behind(p) /\ Applies(p, db)
       /\ Publish(p, [s EXCEPT !.revision = IF s.revision = Goal(p) THEN @ ELSE db.revision])
       /\ at' = [at EXCEPT ![p] = s.revision]
       /\ UNCHANGED <<draft, owner, pc, command, env, failed>>

\* One migration, within the transaction.
Migrate(p) ==
    LET s == IF owner = p THEN draft ELSE db
    IN /\ pc[p] = "migrate" /\ Unlocked(p) /\ Behind(p) /\ Applies(p, s)
       /\ draft' = IF command[p] = "serve" THEN Upgrade(s) ELSE Downgrade(s)
       /\ at' = [at EXCEPT ![p] = draft'.revision]
       /\ owner' = p
       /\ UNCHANGED <<db, pc, command, env, failed, overtaken, fresh>>

\* The server disconnects a client that is gone and rolls its transaction back.
RollBack(p) ==
    /\ owner' = IF owner = p THEN None ELSE owner
    /\ draft' = IF owner = p THEN Empty ELSE draft

\* Mutant: `alembic upgrade head ; exec uvicorn'.
ServeAnyway(p) ==
    LET s == IF owner = p THEN draft ELSE db
    IN /\ pc[p] = "migrate" /\ Unlocked(p) /\ Behind(p) /\ ~ Applies(p, s)
       /\ RollBack(p)
       /\ Goto(p, "exec")
       /\ UNCHANGED <<db, at, failed, overtaken, fresh>>

\* A statement fails: alembic exits with an error and && starts no server.
MigrateFails(p) ==
    LET s == IF owner = p THEN draft ELSE db
    IN /\ pc[p] = "migrate" /\ Unlocked(p) /\ Behind(p) /\ ~ Applies(p, s)
       /\ RollBack(p)
       /\ Exit(p)
       /\ failed' = failed \cup {p}
       /\ UNCHANGED <<db, at, overtaken, fresh>>

\* COMMIT, when there was anything to migrate; then the server is started.
CommitMigrations(p) ==
    /\ pc[p] = "migrate" /\ ~ Behind(p)
    /\ Publish(p, IF owner = p THEN draft ELSE db)
    /\ RollBack(p)
    /\ IF command[p] = "serve" THEN Goto(p, "exec") ELSE Exit(p)
    /\ UNCHANGED <<at, failed>>

Serve(p) ==
    /\ pc[p] = "exec"
    /\ Goto(p, "serving")
    /\ UNCHANGED <<db, draft, owner, at, failed, overtaken, fresh>>

\* create_user at the head revision.
Create(n, hash, role) ==
    /\ db.accounts[n] = None
    /\ db' = [db EXCEPT !.accounts[n] = [hash |-> hash, role |-> role]]
    /\ fresh' = [fresh EXCEPT ![n] = role]

Usable == {"tables", "auth"} \subseteq db.objects

\* create-admin: one account; a name that is taken is an error, as are a password
\* UserRegister rejects and a schema without the tables or columns.
CreateAdmin(p) ==
    /\ pc[p] = "run" /\ command[p] = "create_admin" /\ owner = None
    /\ \/ Usable /\ \E n \in Names : Create(n, "own", "admin")
       \/ UNCHANGED <<db, fresh>>
    /\ Exit(p)
    /\ UNCHANGED <<draft, owner, at, failed, overtaken>>

DemoRole(n) == IF n = DemoAdmin THEN "admin" ELSE "user"

\* seed-demo: the next account, or the end when all are there or none will be (the
\* rest of the command is in SeedDemo).
Seed(p) ==
    /\ pc[p] = "run" /\ command[p] = "seed_demo" /\ owner = None
    /\ \/ /\ Usable /\ env[p].demo_password = "fit"
          /\ \E n \in DemoNames : Create(n, "demo", DemoRole(n))
          /\ UNCHANGED <<pc, command, env>>
       \/ /\ \/ ~ Usable \/ env[p].demo_password # "fit"
             \/ \A n \in DemoNames : db.accounts[n] # None
          /\ Exit(p)
          /\ UNCHANGED <<db, fresh>>
    /\ UNCHANGED <<draft, owner, at, failed, overtaken>>

\* A visitor registers with a server that runs.
Register(p) ==
    /\ pc[p] = "serving" /\ owner = None /\ Usable
    /\ \E n \in Names : Create(n, "own", "user")
    /\ UNCHANGED <<draft, owner, progress, overtaken>>

\* The server gets SIGTERM.
Stop(p) ==
    /\ pc[p] = "serving"
    /\ Exit(p)
    /\ UNCHANGED <<db, draft, owner, at, failed, overtaken, fresh>>

\* Mutant: the locks of a client that is gone stay.
CrashKeepsLock(p) ==
    /\ pc[p] # "off"
    /\ Exit(p)
    /\ UNCHANGED <<db, draft, owner, at, failed, overtaken, fresh>>

\* The process is killed, or its machine stops.
Crash(p) ==
    /\ pc[p] # "off"
    /\ RollBack(p)
    /\ Exit(p)
    /\ UNCHANGED <<db, at, failed, overtaken, fresh>>

\* A release from before the auth revision still serves revision 1.
EarlierRelease ==
    /\ db.revision = 1 /\ owner = None
    /\ \E n \in Names :
          /\ db.accounts[n] = None
          /\ db' = [db EXCEPT !.accounts[n] = [hash |-> "none", role |-> "none"]]
    /\ UNCHANGED <<draft, owner, progress, overtaken, fresh>>

Work(p) == \/ Plan(p) \/ Migrate(p) \/ MigrateFails(p) \/ CommitMigrations(p)
           \/ Serve(p) \/ CreateAdmin(p) \/ Seed(p)

Next ==
    \/ \E p \in Processes :
          \/ \E c \in Commands, e \in Environments : Launch(p, c, e)
          \/ Work(p) \/ Register(p) \/ Stop(p) \/ Crash(p)
    \/ EarlierRelease

\* Processes run, and PostgreSQL grants a lock in the order it was asked for.
FairSpec == Init /\ [][Next]_vars /\ \A p \in Processes : SF_vars(Work(p))

-----------------------------------------------------------------------------
(* Properties *)

\* Whatever runs at the same time and whatever is killed, the committed schema is
\* that of the recorded revision, but for the type a downgrade to base leaves.
SchemaIsWhole ==
    CASE db.revision = 0 -> db.objects \subseteq {"auction_status"}
      [] db.revision = 1 -> db.objects = {"tables", "auction_status"}
      [] db.revision = 2 -> db.objects = Objects

\* An account that can log in was created since the auth revision was last
\* applied, with the role it has; it survives every restart, crash and upgrade.
\* Whoever was there before can not log in and administers nothing.
OldAccountsAreLockedOut ==
    \A n \in Names :
        LET account == db.accounts[n]
        IN IF fresh[n] = "none"
           THEN account # None => account.hash \notin Passwords /\ account.role # "admin"
           ELSE account \in [hash : Passwords, role : {fresh[n]}]

\* A migration fails only when another process changed the schema meanwhile, or on
\* a database once downgraded to base: the type left there makes every later
\* upgrade fail.
FailuresHaveACause ==
    \A p \in Processes :
        p \in failed =>
            \/ p \in overtaken
            \/ db.revision = 0 /\ "auction_status" \in db.objects

\* A server runs on the head revision unless somebody else migrated meanwhile.
ServesAtHead ==
    \A p \in Processes :
        pc[p] = "serving" /\ p \notin overtaken => db.revision = Head

\* Whose password is DEMO_PASSWORD.
DemoAccounts ==
    {n \in Names : db.accounts[n] # None /\ db.accounts[n].hash = "demo"}

\* Demo accounts, the administrator and the users, get into a production database
\* only when DB_URL names it in the place of POSTGRES_DB, or under APP_ENV=test.
DemoStaysOutOfProduction ==
    [][Database = "production" /\ ~ DemoAccounts' \subseteq DemoAccounts =>
          \E p \in Processes :
              /\ command[p] = "seed_demo"
              /\ env[p].db_url # None \/ env[p].app_env = "test"]_vars

\* No command hangs on the locks of another: each ends, or serves.
CommandsEnd == \A p \in Processes : pc[p] # "off" ~> pc[p] \in {"off", "serving"}
=============================================================================
