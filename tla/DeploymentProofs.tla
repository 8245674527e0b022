-------------------------- MODULE DeploymentProofs --------------------------
(***************************************************************************)
(* Theorems about Deployment, for any number of processes, any user names  *)
(* and any settings.                                                       *)
(***************************************************************************)
EXTENDS Deployment, TLAPS

\* The schema is that of the revision recorded in it.
Whole(s) ==
    /\ s.revision = 0 => s.objects \subseteq {"auction_status"}
    /\ s.revision = 1 => s.objects = {"tables", "auction_status"}
    /\ s.revision = 2 => s.objects = Objects

\* No account has a password of its own or administers anything.
Stripped(s) ==
    \A n \in Names :
        s.accounts[n] # None =>
            s.accounts[n].hash \notin Passwords /\ s.accounts[n].role # "admin"

\* The transaction of a migration at work: it is the owner's, whose plan it has
\* followed up or down from what is committed.
DraftFollowsPlan ==
    owner # None =>
        /\ pc[owner] = "migrate"
        /\ at[owner] = draft.revision
        /\ Whole(draft) /\ Stripped(draft)
        /\ command[owner] = "serve" => db.revision < draft.revision
        /\ command[owner] # "serve" => draft.revision < db.revision

\* Only the head revision has accounts created at the head revision.
FreshAtHead == db.revision # Head => \A n \in Names : fresh[n] = "none"

\* Downgraded to base: the type that is left blocks every migration for good.
DeadEnd == db.revision = 0 /\ "auction_status" \in db.objects

NothingLeavesDeadEnd == DeadEnd => owner = None

\* What a process knows: its settings passed their checks, its plan is still
\* right, and its server meets the schema it was built for, unless overtaken.
Knows(p) ==
    /\ pc[p] # "off" => /\ command[p] \in Commands /\ env[p] \in Environments
                        /\ Admissible(command[p], env[p])
                        /\ DatabaseUrl(env[p]) = Database
    /\ pc[p] = "migrate" /\ p \notin overtaken /\ owner # p => at[p] = db.revision
    /\ pc[p] \in {"exec", "serving"} /\ p \notin overtaken => db.revision = Head

IInv ==
    /\ DeployTypeOK
    /\ Whole(db)
    /\ OldAccountsAreLockedOut
    /\ FreshAtHead
    /\ DraftFollowsPlan
    /\ NothingLeavesDeadEnd
    /\ FailuresHaveACause
    /\ \A p \in Processes : Knows(p)

-----------------------------------------------------------------------------
(* Schemas and migrations *)

\* The invariant says the property of the runs.
LEMMA WholeMeaning ==
    ASSUME db \in Schemas
    PROVE  Whole(db) => SchemaIsWhole
<1>1. db.revision = 0 \/ db.revision = 1 \/ db.revision = 2
  BY DEF Schemas, Head
<1> QED
  BY <1>1 DEF Whole, SchemaIsWhole

\* The fields of a schema.
LEMMA SchemaFields ==
    ASSUME NEW s \in Schemas
    PROVE  /\ s = [revision |-> s.revision, objects |-> s.objects, accounts |-> s.accounts]
           /\ s.revision = 0 \/ s.revision = 1 \/ s.revision = 2
           /\ s.revision \in Nat
           /\ s.objects \subseteq Objects
           /\ s.accounts \in [Names -> Account \cup {None}]
  BY DEF Schemas, Head

\* Rewriting the columns of every row gives rows.
LEMMA RewriteType ==
    ASSUME NEW s \in Schemas, NEW account \in Account
    PROVE  Rewrite(s, account) \in [Names -> Account \cup {None}]
  BY DEF Rewrite, Schemas

\* An upgrade whose statements succeed leads from one whole schema to the next,
\* and gives nobody a password or a role to administer.
LEMMA UpgradeFacts ==
    ASSUME NEW s \in Schemas, Whole(s), Stripped(s), s.revision < Head,
           s.revision = 0 => s.objects \cap {"tables", "auction_status"} = {}
    PROVE  /\ Upgrade(s) \in Schemas
           /\ Upgrade(s).revision = s.revision + 1
           /\ Whole(Upgrade(s)) /\ Stripped(Upgrade(s))
<1>1. CASE s.revision = 0
  <2>1. s.objects = {}
    BY <1>1 DEF Whole
  <2>2. Upgrade(s) = [revision |-> 1, objects |-> {"tables", "auction_status"},
                      accounts |-> s.accounts]
    <3>1. Upgrade(s) = [s EXCEPT !.revision = 1,
                                 !.objects = s.objects \cup {"tables", "auction_status"}]
      BY <1>1 DEF Upgrade, UpgradeInitial
    <3>2. s.objects \cup {"tables", "auction_status"} = {"tables", "auction_status"}
      BY <2>1
    <3> QED
      BY <3>1, <3>2 DEF Schemas
  <2> QED
    BY <1>1, <2>2, SchemaFields DEF Schemas, Objects, Head, Whole, Stripped
<1>2. CASE s.revision = 1
  <2> DEFINE old == [hash |-> "empty", role |-> "user"]
  <2>1. s.objects = {"tables", "auction_status"}
    BY <1>2 DEF Whole
  <2>2. old \in Account
    BY DEF Account
  <2>3. Upgrade(s) = [revision |-> 2,
                      objects |-> {"tables", "auction_status", "user_role", "auth"},
                      accounts |-> Rewrite(s, old)]
    BY <1>2, <2>1 DEF Upgrade, UpgradeAuth
  <2>4. Upgrade(s) \in Schemas /\ Upgrade(s).revision = 2 /\ Whole(Upgrade(s))
    BY <2>2, <2>3, RewriteType DEF Schemas, Objects, Head, Whole
  <2>5. Stripped(Upgrade(s))
    BY <2>3 DEF Stripped, Rewrite, Passwords
  <2> QED
    BY <1>2, <2>4, <2>5
<1> QED
  BY <1>1, <1>2, SchemaFields DEF Head

\* A downgrade leads back to a whole schema without passwords and roles.
LEMMA DowngradeFacts ==
    ASSUME NEW s \in Schemas, Whole(s), s.revision > 0
    PROVE  /\ Downgrade(s) \in Schemas
           /\ Downgrade(s).revision = s.revision - 1
           /\ Whole(Downgrade(s)) /\ Stripped(Downgrade(s))
<1>1. CASE s.revision = 2
  <2> DEFINE old == [hash |-> "none", role |-> "none"]
  <2>1. s.objects = Objects
    BY <1>1 DEF Whole
  <2>2. old \in Account
    BY DEF Account
  <2>3. Downgrade(s) = [revision |-> 1, objects |-> {"tables", "auction_status"},
                        accounts |-> Rewrite(s, old)]
    BY <1>1, <2>1 DEF Downgrade, DowngradeAuth, Objects
  <2>4. /\ Downgrade(s) \in Schemas /\ Downgrade(s).revision = 1 /\ Whole(Downgrade(s))
    BY <2>2, <2>3, RewriteType DEF Schemas, Objects, Head, Whole
  <2>5. Stripped(Downgrade(s))
    BY <2>3 DEF Stripped, Rewrite, Passwords
  <2> QED
    BY <1>1, <2>4, <2>5
<1>2. CASE s.revision = 1
  <2>1. s.objects = {"tables", "auction_status"}
    BY <1>2 DEF Whole
  <2>2. Downgrade(s) = [revision |-> 0, objects |-> {"auction_status"},
                        accounts |-> [n \in Names |-> None]]
    BY <1>2, <2>1 DEF Downgrade, DowngradeInitial, Empty
  <2> QED
    BY <1>2, <2>2 DEF Schemas, Objects, Head, Whole, Stripped
<1> QED
  BY <1>1, <1>2, SchemaFields

\* Below the head revision no account has a password or administers anything.
LEMMA StrippedBelowHead ==
    ASSUME OldAccountsAreLockedOut, FreshAtHead, db.revision # Head
    PROVE  Stripped(db)
  BY DEF OldAccountsAreLockedOut, FreshAtHead, Stripped

\* Where registering works, the schema is that of the head revision.
LEMMA UsableAtHead ==
    ASSUME db \in Schemas, Whole(db), Usable
    PROVE  db.revision = Head
<1>1. db.revision # 0
  BY DEF Whole, Usable
<1>2. db.revision # 1
  BY DEF Whole, Usable
<1> QED
  BY <1>1, <1>2, SchemaFields DEF Head

-----------------------------------------------------------------------------
(* What a step of one process leaves of the others *)

\* Only p changes its place.
OnlyMoves(p) ==
    \A q \in Processes \ {p} : /\ pc'[q] = pc[q] /\ command'[q] = command[q]
                               /\ env'[q] = env[q] /\ at'[q] = at[q]

\* The others know what they knew as long as the revision stays.
LEMMA OthersKnow ==
    ASSUME IInv, NEW p \in Processes, OnlyMoves(p), db'.revision = db.revision,
           \A q \in Processes \ {p} : /\ q \in overtaken' <=> q \in overtaken
                                      /\ owner = q => owner' = q
    PROVE  \A q \in Processes \ {p} : Knows(q)'
<1>1. ASSUME NEW q \in Processes \ {p} PROVE Knows(q)'
  <2>1. Knows(q)
    BY DEF IInv
  <2>2. /\ pc'[q] = pc[q] /\ command'[q] = command[q]
        /\ env'[q] = env[q] /\ at'[q] = at[q]
    BY DEF OnlyMoves
  <2>3. (q \in overtaken' <=> q \in overtaken) /\ (owner' # q => owner # q)
    OBVIOUS
  <2> QED
    BY <2>1, <2>2, <2>3 DEF Knows
<1> QED
  BY <1>1

\* The transaction of another process is not touched.
LEMMA DraftKept ==
    ASSUME IInv, NEW p \in Processes, OnlyMoves(p), owner # p, UNCHANGED <<owner, draft>>,
           db'.revision = db.revision
    PROVE  DraftFollowsPlan'
<1>1. SUFFICES ASSUME owner # None PROVE DraftFollowsPlan'
  BY DEF DraftFollowsPlan
<1>2. owner \in Processes \ {p}
  BY <1>1 DEF IInv, DeployTypeOK
<1>3. PICK o \in Processes \ {p} : o = owner
  BY <1>2
<1>4. pc'[o] = pc[o] /\ command'[o] = command[o] /\ at'[o] = at[o] /\ owner' = o
  BY <1>3 DEF OnlyMoves
<1>5. /\ pc[o] = "migrate" /\ at[o] = draft.revision /\ Whole(draft) /\ Stripped(draft)
      /\ command[o] = "serve" => db.revision < draft.revision
      /\ command[o] # "serve" => draft.revision < db.revision
  BY <1>1, <1>3 DEF IInv, DraftFollowsPlan
<1>6. Whole(draft)' /\ Stripped(draft)'
  BY <1>5 DEF Whole, Stripped
<1> QED
  BY <1>4, <1>5, <1>6 DEF DraftFollowsPlan

\* Rolling back ends the transaction of p and nobody else's.
LEMMA RolledBack ==
    ASSUME IInv, NEW p \in Processes, OnlyMoves(p), RollBack(p), db'.revision = db.revision
    PROVE  /\ DraftFollowsPlan'
           /\ owner' \in Processes \cup {None} /\ draft' \in Schemas /\ owner' # p
           /\ owner = None => owner' = None
           /\ \A q \in Processes \ {p} : owner = q => owner' = q
<1>1. /\ owner \in Processes \cup {None} /\ draft \in Schemas /\ None # p
  BY DeploymentAssumption DEF IInv, DeployTypeOK
<1>2. Empty \in Schemas
  BY DEF Empty, Schemas, Head
<1>3. CASE owner = p
  BY <1>1, <1>2, <1>3 DEF RollBack, DraftFollowsPlan
<1>4. CASE owner # p
  BY <1>1, <1>4, DraftKept DEF RollBack
<1> QED
  BY <1>3, <1>4

\* A step of p that leaves the committed database alone keeps everything that is
\* about it.
LEMMA SameDatabase ==
    ASSUME IInv, UNCHANGED <<db, fresh>>, DeadEnd => owner' = None,
           \A q \in failed' : \/ q \in failed /\ (q \in overtaken => q \in overtaken')
                              \/ q \in overtaken'
                              \/ DeadEnd
    PROVE  /\ Whole(db)' /\ OldAccountsAreLockedOut' /\ FreshAtHead'
           /\ NothingLeavesDeadEnd' /\ FailuresHaveACause'
<1>1. Whole(db)' /\ OldAccountsAreLockedOut' /\ FreshAtHead'
  BY DEF IInv, Whole, OldAccountsAreLockedOut, FreshAtHead
<1>2. NothingLeavesDeadEnd' /\ FailuresHaveACause'
  BY DEF IInv, NothingLeavesDeadEnd, DeadEnd, FailuresHaveACause
<1> QED
  BY <1>1, <1>2

\* The types of the variables that describe processes.
ProgressTyped ==
    /\ pc \in [Processes -> {"off", "plan", "migrate", "exec", "run", "serving"}]
    /\ command \in [Processes -> Commands \cup {None}]
    /\ env \in [Processes -> Environments \cup {None}]
    /\ at \in [Processes -> 0 .. Head]

\* A process that goes to another label keeps its command, its settings and its
\* plan; one that exits forgets them.
LEMMA Moving ==
    ASSUME ProgressTyped, NEW p \in Processes, UNCHANGED at
    PROVE  /\ \A label \in {"off", "plan", "migrate", "exec", "run", "serving"} :
                 Goto(p, label) => /\ OnlyMoves(p) /\ ProgressTyped' /\ pc'[p] = label
                                   /\ command'[p] = command[p] /\ env'[p] = env[p]
                                   /\ at'[p] = at[p]
           /\ Exit(p) => OnlyMoves(p) /\ ProgressTyped' /\ pc'[p] = "off"
  BY DEF ProgressTyped, Goto, Exit, OnlyMoves

-----------------------------------------------------------------------------
(* The steps *)

\* The parts of the invariant after a step of p, put together again.
LEMMA Parts ==
    ASSUME DeployTypeOK', Whole(db)', OldAccountsAreLockedOut', FreshAtHead',
           DraftFollowsPlan', NothingLeavesDeadEnd', FailuresHaveACause',
           NEW p \in Processes, Knows(p)', \A q \in Processes \ {p} : Knows(q)'
    PROVE  IInv'
  BY DEF IInv

\* A process that is not migrating has no transaction of a migration.
LEMMA OwnerMigrates ==
    ASSUME IInv, NEW p \in Processes, pc[p] # "migrate"
    PROVE  owner # p
  BY DeploymentAssumption DEF IInv, DraftFollowsPlan

\* The empty database of the beginning.
LEMMA InitInvariant == Init => IInv
<1>1. SUFFICES ASSUME Init PROVE IInv
  OBVIOUS
<1>2. Empty \in Schemas
  BY DEF Empty, Schemas, Head
<1>3. DeployTypeOK
  BY <1>1, <1>2 DEF Init, DeployTypeOK, Head
<1>4. /\ Whole(db) /\ OldAccountsAreLockedOut /\ FreshAtHead /\ DraftFollowsPlan
      /\ NothingLeavesDeadEnd /\ FailuresHaveACause
  BY <1>1 DEF Init, Empty, Whole, OldAccountsAreLockedOut, FreshAtHead, DraftFollowsPlan,
              NothingLeavesDeadEnd, FailuresHaveACause
<1>5. \A p \in Processes : Knows(p)
  BY <1>1 DEF Init, Knows
<1> QED
  BY <1>3, <1>4, <1>5 DEF IInv

\* Starting a process: the settings pass their checks, nothing is planned yet.
LEMMA LaunchSafe ==
    ASSUME IInv, NEW p \in Processes, NEW c \in Commands, NEW e \in Environments,
           Launch(p, c, e)
    PROVE  IInv'
<1>1. DeployTypeOK /\ owner # p
  BY OwnerMigrates DEF IInv, Launch
<1>2. /\ UNCHANGED <<db, draft, owner, fresh>>
      /\ failed' = failed \ {p} /\ overtaken' = overtaken \ {p}
      /\ pc'[p] \in {"run", "plan"} /\ command'[p] = c /\ env'[p] = e
      /\ Admissible(c, e) /\ DatabaseUrl(e) = Database
      /\ OnlyMoves(p)
  BY <1>1 DEF Launch, DeployTypeOK, OnlyMoves
<1>3. DeployTypeOK'
  BY <1>1, <1>2 DEF Launch, DeployTypeOK, Head
<1>4. Knows(p)'
  BY <1>2 DEF Knows
<1>5. \A q \in Processes \ {p} : Knows(q)'
  BY <1>2, OthersKnow
<1>6. DraftFollowsPlan'
  BY <1>1, <1>2, DraftKept
<1>7. /\ Whole(db)' /\ OldAccountsAreLockedOut' /\ FreshAtHead'
      /\ NothingLeavesDeadEnd' /\ FailuresHaveACause'
  BY <1>2, SameDatabase DEF IInv, NothingLeavesDeadEnd
<1> QED
  BY <1>3, <1>4, <1>5, <1>6, <1>7, Parts

\* Reading the revision: the plan is right when it is made.
LEMMA PlanSafe ==
    ASSUME IInv, NEW p \in Processes, Plan(p)
    PROVE  IInv'
<1>1. DeployTypeOK /\ owner # p /\ Knows(p) /\ pc[p] = "plan"
  BY OwnerMigrates DEF IInv, Plan
<1>2. /\ UNCHANGED <<db, draft, owner, fresh, failed, overtaken>>
      /\ at' = [at EXCEPT ![p] = db.revision]
      /\ \/ pc' = [pc EXCEPT ![p] = "migrate"] /\ UNCHANGED <<command, env>>
         \/ Exit(p)
  BY DEF Plan, Goto
<1>a. db.revision \in 0 .. Head
  BY <1>1 DEF DeployTypeOK, Schemas
<1>b. /\ OnlyMoves(p) /\ ProgressTyped'
      /\ \/ pc'[p] = "off"
         \/ pc'[p] = "migrate" /\ at'[p] = db.revision /\ UNCHANGED <<command, env>>
  <2>1. CASE pc' = [pc EXCEPT ![p] = "migrate"] /\ UNCHANGED <<command, env>>
    BY <1>1, <1>2, <1>a, <2>1 DEF DeployTypeOK, ProgressTyped, OnlyMoves
  <2>2. CASE Exit(p)
    BY <1>1, <1>2, <1>a, <2>2 DEF DeployTypeOK, ProgressTyped, OnlyMoves, Exit
  <2> QED
    BY <1>2, <2>1, <2>2
<1>3. DeployTypeOK'
  BY <1>1, <1>2, <1>b DEF DeployTypeOK, ProgressTyped
<1>4. Knows(p)'
  BY <1>1, <1>2, <1>b DEF Knows
<1>5. \A q \in Processes \ {p} : Knows(q)'
  BY <1>2, <1>b, OthersKnow
<1>6. DraftFollowsPlan'
  BY <1>1, <1>2, <1>b, DraftKept
<1>7. /\ Whole(db)' /\ OldAccountsAreLockedOut' /\ FreshAtHead'
      /\ NothingLeavesDeadEnd' /\ FailuresHaveACause'
  BY <1>2, SameDatabase DEF IInv, NothingLeavesDeadEnd
<1> QED
  BY <1>3, <1>4, <1>5, <1>6, <1>7, Parts

\* When the statements of a migration succeed, and why they may fail.
LEMMA AppliesMeaning ==
    ASSUME NEW p, NEW s
    PROVE  /\ Applies(p, s) =>
                 /\ s.revision = at[p]
                 /\ command[p] = "serve" /\ at[p] = 0 =>
                        s.objects \cap {"tables", "auction_status"} = {}
           /\ ~ Applies(p, s) =>
                 \/ s.revision # at[p]
                 \/ /\ command[p] = "serve" /\ at[p] = 0
                    /\ s.objects \cap {"tables", "auction_status"} # {}
                 \/ command[p] = "serve" /\ at[p] = 1 /\ "auth" \in s.objects
  BY DEF Applies

\* Where the migrations of a command end.
LEMMA GoalMeaning ==
    ASSUME NEW p
    PROVE  /\ Goal(p) = 0 \/ Goal(p) = 1 \/ Goal(p) = 2
           /\ command[p] = "serve" => Goal(p) = 2
  BY DEF Goal, Head

\* The next migration: on the schema of the plan, one revision up or down.
LEMMA MigrateSafe ==
    ASSUME IInv, NEW p \in Processes, Migrate(p)
    PROVE  IInv'
<1> DEFINE s == IF owner = p THEN draft ELSE db
<1>1. DeployTypeOK /\ Knows(p) /\ pc[p] = "migrate" /\ p # None
  BY DeploymentAssumption DEF IInv, Migrate
<1>2. /\ UNCHANGED <<db, pc, command, env, failed, overtaken, fresh>>
      /\ Behind(p) /\ Applies(p, s)
      /\ draft' = IF command[p] = "serve" THEN Upgrade(s) ELSE Downgrade(s)
      /\ at' = [at EXCEPT ![p] = draft'.revision]
      /\ owner' = p /\ owner \in {None, p}
  BY DEF Migrate, Unlocked
<1>3. /\ s \in Schemas /\ Whole(s) /\ s.revision = at[p] /\ s.revision \in Nat
      /\ db \in Schemas /\ db.revision \in Nat /\ s.revision <= Head
      /\ s.revision < Head => Stripped(s)
      /\ command[p] = "serve" => db.revision <= s.revision
      /\ command[p] # "serve" => s.revision <= db.revision
  <2>1. db \in Schemas /\ db.revision \in Nat /\ draft \in Schemas
    BY <1>1, SchemaFields DEF DeployTypeOK
  <2>2. s.revision = at[p]
    BY <1>2, AppliesMeaning
  <2>3. CASE owner = p
    <3>1. s = draft
      BY <2>3
    <3> HIDE DEF s
    <3>2. s.revision \in Nat /\ s.revision <= Head
      BY <2>1, <3>1, SchemaFields DEF Head
    <3> QED
      BY <1>1, <2>1, <2>2, <2>3, <3>1, <3>2 DEF IInv, DraftFollowsPlan
  <2>4. CASE owner # p
    <3>1. s = db
      BY <2>4
    <3> HIDE DEF s
    <3>2. s.revision \in Nat /\ s.revision <= Head
      BY <2>1, <3>1, SchemaFields DEF Head
    <3>3. s.revision < Head => Stripped(s)
      BY <3>1, <3>2, StrippedBelowHead DEF IInv, Head
    <3> QED
      BY <2>1, <2>2, <3>1, <3>2, <3>3 DEF IInv
  <2> QED
    BY <2>3, <2>4
<1>4. /\ draft' \in Schemas /\ Whole(draft') /\ Stripped(draft')
      /\ command[p] = "serve" => db.revision < draft'.revision
      /\ command[p] # "serve" => draft'.revision < db.revision
  <2> HIDE DEF s
  <2>1. CASE command[p] = "serve"
    <3>1. s.revision < Head
      BY <1>2, <1>3, <2>1 DEF Behind
    <3>2. s.revision = 0 => s.objects \cap {"tables", "auction_status"} = {}
      BY <1>2, <1>3, <2>1, AppliesMeaning
    <3>3. draft' = Upgrade(s)
      BY <1>2, <2>1
    <3>4. draft' \in Schemas /\ Whole(draft') /\ Stripped(draft')
          /\ draft'.revision = s.revision + 1
      BY <1>3, <3>1, <3>2, <3>3, UpgradeFacts
    <3> QED
      BY <1>3, <2>1, <3>4
  <2>2. CASE command[p] # "serve"
    <3>1. s.revision > 0
      BY <1>2, <1>3, <2>2, GoalMeaning DEF Behind
    <3>2. draft' = Downgrade(s)
      BY <1>2, <2>2
    <3>3. draft' \in Schemas /\ Whole(draft') /\ Stripped(draft')
          /\ draft'.revision = s.revision - 1
      BY <1>3, <3>1, <3>2, DowngradeFacts
    <3> QED
      BY <1>3, <2>2, <3>3
  <2> QED
    BY <2>1, <2>2
<1>5. OnlyMoves(p) /\ at'[p] = draft'.revision /\ DeployTypeOK'
  <2>1. draft'.revision \in 0 .. Head
    BY <1>4 DEF Schemas
  <2> QED
    BY <1>1, <1>2, <1>4, <2>1 DEF OnlyMoves, DeployTypeOK
<1>6. DraftFollowsPlan'
  <2>1. Whole(draft)' /\ Stripped(draft)'
    BY <1>4 DEF Whole, Stripped
  <2> QED
    BY <1>1, <1>2, <1>4, <1>5, <2>1 DEF DraftFollowsPlan
<1>7. ~ DeadEnd
  <2>1. SUFFICES ASSUME DeadEnd PROVE FALSE
    OBVIOUS
  <2>2. owner # p
    BY <1>1, <2>1 DEF IInv, NothingLeavesDeadEnd
  <2>3. s = db /\ db.revision = 0 /\ "auction_status" \in db.objects
    BY <2>1, <2>2 DEF DeadEnd
  <2> HIDE DEF s
  <2>4. command[p] = "serve"
    BY <1>2, <1>3, <2>3, GoalMeaning DEF Behind
  <2> QED
    BY <1>2, <1>3, <2>3, <2>4, AppliesMeaning
<1>8. /\ Whole(db)' /\ OldAccountsAreLockedOut' /\ FreshAtHead'
      /\ NothingLeavesDeadEnd' /\ FailuresHaveACause'
  BY <1>2, <1>7, SameDatabase
<1>9. Knows(p)'
  BY <1>1, <1>2 DEF Knows
<1>10. \A q \in Processes \ {p} : Knows(q)'
  <2>1. \A q \in Processes \ {p} : owner # q
    BY <1>2, DeploymentAssumption
  <2> QED
    BY <1>2, <1>5, <2>1, OthersKnow
<1> QED
  BY <1>5, <1>6, <1>8, <1>9, <1>10, Parts

\* A failing migration is one whose plan is out of date, or the upgrade of a
\* database that was downgraded to base.
LEMMA MigrateFailsSafe ==
    ASSUME IInv, NEW p \in Processes, MigrateFails(p)
    PROVE  IInv'
<1> DEFINE s == IF owner = p THEN draft ELSE db
<1>1. DeployTypeOK /\ Knows(p) /\ pc[p] = "migrate" /\ p # None /\ ProgressTyped
  BY DeploymentAssumption DEF IInv, MigrateFails, DeployTypeOK, ProgressTyped
<1>2. /\ UNCHANGED <<db, at, overtaken, fresh>>
      /\ failed' = failed \cup {p}
      /\ Behind(p) /\ ~ Applies(p, s) /\ RollBack(p) /\ Exit(p)
  BY DEF MigrateFails
<1>3. OnlyMoves(p) /\ ProgressTyped' /\ pc'[p] = "off"
  BY <1>1, <1>2, Moving
<1>4. /\ DraftFollowsPlan' /\ owner' \in Processes \cup {None} /\ draft' \in Schemas
      /\ owner = None => owner' = None
      /\ \A q \in Processes \ {p} : owner = q => owner' = q
  BY <1>2, <1>3, RolledBack
<1>5. DeployTypeOK'
  BY <1>1, <1>2, <1>3, <1>4 DEF DeployTypeOK, ProgressTyped
<1>6. p \in overtaken \/ DeadEnd
  <2>1. CASE owner = p
    <3>1. s = draft
      BY <2>1
    <3> HIDE DEF s
    <3>2. /\ at[p] = s.revision /\ Whole(s) /\ db.revision \in Nat
          /\ s.revision \in Nat
          /\ command[p] = "serve" => db.revision < s.revision
      BY <1>1, <2>1, <3>1, SchemaFields DEF IInv, DraftFollowsPlan, DeployTypeOK
    <3>3. at[p] = 1 /\ "auth" \in s.objects
      BY <1>2, <3>2, AppliesMeaning
    <3> QED
      BY <3>2, <3>3 DEF Whole
  <2>2. CASE owner # p
    <3>1. s = db
      BY <2>2
    <3> HIDE DEF s
    <3>2. SUFFICES ASSUME p \notin overtaken PROVE DeadEnd
      OBVIOUS
    <3>3. at[p] = s.revision /\ Whole(s)
      BY <1>1, <2>2, <3>1, <3>2 DEF Knows, IInv
    <3>4. ~ (at[p] = 1 /\ "auth" \in s.objects)
      BY <3>3 DEF Whole
    <3>5. at[p] = 0 /\ s.objects \cap {"tables", "auction_status"} # {}
      BY <1>2, <3>3, <3>4, AppliesMeaning
    <3> QED
      BY <3>1, <3>3, <3>5 DEF Whole, DeadEnd
  <2> QED
    BY <2>1, <2>2
<1>7. /\ Whole(db)' /\ OldAccountsAreLockedOut' /\ FreshAtHead'
      /\ NothingLeavesDeadEnd' /\ FailuresHaveACause'
  BY <1>2, <1>4, <1>6, SameDatabase DEF IInv, NothingLeavesDeadEnd
<1>8. Knows(p)'
  BY <1>3 DEF Knows
<1>9. \A q \in Processes \ {p} : Knows(q)'
  BY <1>2, <1>3, <1>4, OthersKnow
<1> QED
  BY <1>4, <1>5, <1>7, <1>8, <1>9, Parts

\* The end of a command's migrations that wrote something: the next schema is
\* there for everybody, and whoever was under way has been overtaken.
LEMMA CommitOwnSafe ==
    ASSUME IInv, NEW p \in Processes, CommitMigrations(p), owner = p
    PROVE  IInv'
<1>1. /\ DeployTypeOK /\ Knows(p) /\ pc[p] = "migrate" /\ p # None /\ ProgressTyped
      /\ FreshAtHead /\ FailuresHaveACause /\ NothingLeavesDeadEnd
  BY DeploymentAssumption DEF IInv, CommitMigrations, DeployTypeOK, ProgressTyped
<1>2. /\ at[p] = draft.revision /\ Whole(draft) /\ Stripped(draft)
      /\ draft.revision # db.revision
      /\ draft.revision \in Nat /\ draft.revision <= Head /\ db.revision \in Nat
      /\ db.revision <= Head /\ db \in Schemas /\ draft \in Schemas
      /\ command[p] = "serve" => db.revision < draft.revision
      /\ command[p] # "serve" => draft.revision < db.revision
  <2>1. db \in Schemas /\ draft \in Schemas
    BY <1>1 DEF DeployTypeOK
  <2>2. db.revision \in 0 .. Head /\ draft.revision \in 0 .. Head
    BY <2>1 DEF Schemas
  <2> QED
    BY <1>1, <2>1, <2>2 DEF IInv, DraftFollowsPlan, Head
<1>3. /\ db' = draft /\ UNCHANGED <<at, failed>>
      /\ overtaken' = overtaken \cup {q \in Processes \ {p} : pc[q] # "off"}
      /\ fresh' = IF draft.revision = Head THEN fresh ELSE [n \in Names |-> "none"]
      /\ owner' = None /\ draft' = Empty
      /\ ~ Behind(p)
      /\ IF command[p] = "serve" THEN Goto(p, "exec") ELSE Exit(p)
  BY <1>2 DEF CommitMigrations, Publish, RollBack
<1>4. /\ OnlyMoves(p) /\ ProgressTyped'
      /\ \/ pc'[p] = "off"
         \/ /\ command[p] = "serve" /\ pc'[p] = "exec"
            /\ command'[p] = command[p] /\ env'[p] = env[p]
  BY <1>1, <1>3, Moving
<1>5. \A n \in Names : fresh'[n] = "none"
  BY <1>1, <1>2, <1>3 DEF FreshAtHead
<1>6. DeployTypeOK'
  <2>1. Empty \in Schemas
    BY DEF Empty, Schemas, Head
  <2> QED
    BY <1>1, <1>2, <1>3, <1>4, <2>1 DEF DeployTypeOK, ProgressTyped
<1>7. Whole(db)' /\ Stripped(db)'
  BY <1>2, <1>3 DEF Whole, Stripped
<1>8. OldAccountsAreLockedOut' /\ FreshAtHead'
  BY <1>5, <1>7 DEF OldAccountsAreLockedOut, Stripped, FreshAtHead
<1>9. DraftFollowsPlan' /\ NothingLeavesDeadEnd'
  BY <1>3 DEF DraftFollowsPlan, NothingLeavesDeadEnd
<1>10. FailuresHaveACause'
  <2>1. ~ DeadEnd
    BY <1>1 DEF NothingLeavesDeadEnd
  <2>2. \A q \in Processes : q \in failed => q \in overtaken
    BY <1>1, <2>1 DEF FailuresHaveACause, DeadEnd
  <2> QED
    BY <1>3, <2>2 DEF FailuresHaveACause
<1>11. Knows(p)'
  <2>1. CASE pc'[p] = "off"
    BY <2>1 DEF Knows
  <2>2. CASE /\ command[p] = "serve" /\ pc'[p] = "exec"
             /\ command'[p] = command[p] /\ env'[p] = env[p]
    <3>1. ~ at[p] < Head
      BY <1>3, <2>2 DEF Behind
    <3>2. db'.revision = Head
      BY <1>2, <1>3, <3>1 DEF Head
    <3> QED
      BY <1>1, <2>2, <3>2 DEF Knows
  <2> QED
    BY <1>4, <2>1, <2>2
<1>12. ASSUME NEW q \in Processes \ {p} PROVE Knows(q)'
  <2>1. /\ pc'[q] = pc[q] /\ command'[q] = command[q] /\ env'[q] = env[q]
    BY <1>4 DEF OnlyMoves
  <2>2. pc[q] # "off" => q \in overtaken'
    BY <1>3
  <2>3. Knows(q)
    BY DEF IInv
  <2> QED
    BY <2>1, <2>2, <2>3 DEF Knows
<1> QED
  BY <1>6, <1>7, <1>8, <1>9, <1>10, <1>11, <1>12, Parts

\* The end of a command that had nothing to migrate: nothing changes, and a plan
\* that was still right found the head revision.
LEMMA CommitNothingSafe ==
    ASSUME IInv, NEW p \in Processes, CommitMigrations(p), owner # p
    PROVE  IInv'
<1>1. /\ DeployTypeOK /\ Knows(p) /\ pc[p] = "migrate" /\ ProgressTyped
      /\ FreshAtHead
  BY DEF IInv, CommitMigrations, DeployTypeOK, ProgressTyped
<1>2. /\ UNCHANGED <<db, at, failed, owner, draft, overtaken>>
      /\ fresh' = IF db.revision = Head THEN fresh ELSE [n \in Names |-> "none"]
      /\ ~ Behind(p)
      /\ IF command[p] = "serve" THEN Goto(p, "exec") ELSE Exit(p)
  BY DEF CommitMigrations, Publish, RollBack
<1>3. fresh' = fresh
  <2>1. fresh \in [Names -> {"none", "user", "admin"}]
    BY <1>1 DEF DeployTypeOK
  <2> QED
    BY <1>1, <1>2, <2>1 DEF FreshAtHead
<1>4. /\ OnlyMoves(p) /\ ProgressTyped'
      /\ \/ pc'[p] = "off"
         \/ /\ command[p] = "serve" /\ pc'[p] = "exec"
            /\ command'[p] = command[p] /\ env'[p] = env[p]
  BY <1>1, <1>2, Moving
<1>5. DeployTypeOK'
  BY <1>1, <1>2, <1>3, <1>4 DEF DeployTypeOK, ProgressTyped
<1>6. Knows(p)'
  <2>1. CASE pc'[p] = "off"
    BY <2>1 DEF Knows
  <2>2. CASE /\ command[p] = "serve" /\ pc'[p] = "exec"
             /\ command'[p] = command[p] /\ env'[p] = env[p]
    <3>1. ~ at[p] < Head /\ at[p] \in 0 .. Head
      BY <1>1, <1>2, <2>2 DEF Behind, ProgressTyped
    <3>2. at[p] = Head
      BY <3>1 DEF Head
    <3> QED
      BY <1>1, <1>2, <2>2, <3>2 DEF Knows
  <2> QED
    BY <1>4, <2>1, <2>2
<1>7. \A q \in Processes \ {p} : Knows(q)'
  BY <1>2, <1>4, OthersKnow
<1>8. DraftFollowsPlan'
  BY <1>2, <1>4, DraftKept
<1>9. /\ Whole(db)' /\ OldAccountsAreLockedOut' /\ FreshAtHead'
      /\ NothingLeavesDeadEnd' /\ FailuresHaveACause'
  BY <1>2, <1>3, SameDatabase DEF IInv, NothingLeavesDeadEnd
<1> QED
  BY <1>5, <1>6, <1>7, <1>8, <1>9, Parts

\* A server starts, stops, or a process dies: the database stays as it is.
LEMMA ComeAndGoSafe ==
    ASSUME IInv, NEW p \in Processes, Serve(p) \/ Stop(p) \/ Crash(p)
    PROVE  IInv'
<1>1. DeployTypeOK /\ Knows(p) /\ ProgressTyped
  BY DEF IInv, DeployTypeOK, ProgressTyped
<1>2. /\ UNCHANGED <<db, at, failed, overtaken, fresh>>
      /\ \/ pc[p] = "exec" /\ Goto(p, "serving")
         \/ Exit(p)
  BY DEF Serve, Stop, Crash
<1>3. /\ OnlyMoves(p) /\ ProgressTyped'
      /\ \/ pc'[p] = "off"
         \/ /\ pc[p] = "exec" /\ pc'[p] = "serving"
            /\ command'[p] = command[p] /\ env'[p] = env[p]
  BY <1>1, <1>2, Moving
<1>4. /\ DraftFollowsPlan' /\ owner' \in Processes \cup {None} /\ draft' \in Schemas
      /\ owner = None => owner' = None
      /\ \A q \in Processes \ {p} : owner = q => owner' = q
  <2>1. CASE Serve(p) \/ Stop(p)
    <3>1. UNCHANGED <<owner, draft>> /\ pc[p] # "migrate"
      BY <2>1 DEF Serve, Stop
    <3>2. owner # p
      BY <3>1, OwnerMigrates
    <3>3. DraftFollowsPlan'
      BY <1>2, <1>3, <3>1, <3>2, DraftKept
    <3> QED
      BY <1>1, <3>1, <3>3 DEF DeployTypeOK
  <2>2. CASE Crash(p)
    BY <1>2, <1>3, <2>2, RolledBack DEF Crash
  <2> QED
    BY <2>1, <2>2
<1>5. DeployTypeOK'
  BY <1>1, <1>2, <1>3, <1>4 DEF DeployTypeOK, ProgressTyped
<1>6. Knows(p)'
  BY <1>1, <1>2, <1>3 DEF Knows
<1>7. \A q \in Processes \ {p} : Knows(q)'
  BY <1>2, <1>3, <1>4, OthersKnow
<1>8. /\ Whole(db)' /\ OldAccountsAreLockedOut' /\ FreshAtHead'
      /\ NothingLeavesDeadEnd' /\ FailuresHaveACause'
  BY <1>2, <1>4, SameDatabase DEF IInv, NothingLeavesDeadEnd
<1> QED
  BY <1>4, <1>5, <1>6, <1>7, <1>8, Parts

\* A new row changes nothing else of the database.
LEMMA NewRow ==
    ASSUME db \in Schemas, NEW n \in Names, NEW row \in Account,
           db' = [db EXCEPT !.accounts[n] = row]
    PROVE  /\ db' \in Schemas
           /\ db'.revision = db.revision /\ db'.objects = db.objects
           /\ db'.accounts[n] = row
           /\ \A m \in Names \ {n} : db'.accounts[m] = db.accounts[m]
<1>1. db.accounts \in [Names -> Account \cup {None}]
  BY SchemaFields
<1>2. db' = [db EXCEPT !.accounts = [db.accounts EXCEPT ![n] = row]]
  OBVIOUS
<1>3. PICK rows : rows = [db.accounts EXCEPT ![n] = row]
  OBVIOUS
<1>4. /\ rows \in [Names -> Account \cup {None}] /\ rows[n] = row
      /\ \A m \in Names \ {n} : rows[m] = db.accounts[m]
  BY <1>1, <1>3
<1>5. db' = [db EXCEPT !.accounts = rows]
  BY <1>2, <1>3
<1>6. /\ db' \in Schemas /\ db'.revision = db.revision /\ db'.objects = db.objects
      /\ db'.accounts = rows
  BY <1>4, <1>5 DEF Schemas
<1> QED
  BY <1>4, <1>6

\* Registering, seeding and create-admin write accounts that can log in, at the
\* head revision only; the other accounts stay.
LEMMA CreateKeeps ==
    ASSUME IInv, NEW n \in Names, NEW hash \in Passwords, NEW role \in {"user", "admin"},
           Create(n, hash, role), Usable
    PROVE  /\ db' \in Schemas /\ fresh' \in [Names -> {"none", "user", "admin"}]
           /\ db'.revision = db.revision /\ db'.objects = db.objects
           /\ OldAccountsAreLockedOut' /\ FreshAtHead'
<1> DEFINE row == [hash |-> hash, role |-> role]
<1>1. /\ db \in Schemas /\ Whole(db) /\ fresh \in [Names -> {"none", "user", "admin"}]
      /\ OldAccountsAreLockedOut
  BY DEF IInv, DeployTypeOK
<1>2. row \in Account
  BY DEF Account
<1>3. /\ db' = [db EXCEPT !.accounts[n] = row]
      /\ fresh' = [fresh EXCEPT ![n] = role]
  BY DEF Create
<1>4. /\ db' \in Schemas
      /\ db'.revision = db.revision /\ db'.objects = db.objects
      /\ db'.accounts[n] = row
      /\ \A m \in Names \ {n} : db'.accounts[m] = db.accounts[m]
  <2> HIDE DEF row
  <2> QED
    BY <1>1, <1>2, <1>3, NewRow
<1>5. /\ fresh' \in [Names -> {"none", "user", "admin"}] /\ fresh'[n] = role
      /\ \A m \in Names \ {n} : fresh'[m] = fresh[m]
  BY <1>1, <1>3
<1>6. OldAccountsAreLockedOut'
  <2>1. ASSUME NEW m \in Names
        PROVE  IF fresh'[m] = "none"
               THEN db'.accounts[m] # None => /\ db'.accounts[m].hash \notin Passwords
                                              /\ db'.accounts[m].role # "admin"
               ELSE db'.accounts[m] \in [hash : Passwords, role : {fresh'[m]}]
    <3>1. CASE m = n
      BY <1>4, <1>5, <3>1
    <3>2. CASE m # n
      BY <1>1, <1>4, <1>5, <3>2 DEF OldAccountsAreLockedOut
    <3> QED
      BY <3>1, <3>2
  <2> QED
    BY <2>1 DEF OldAccountsAreLockedOut
<1>7. db.revision = Head
  BY <1>1, UsableAtHead
<1>8. FreshAtHead'
  BY <1>4, <1>7 DEF FreshAtHead
<1> QED
  BY <1>4, <1>5, <1>6, <1>8

\* A step of p that adds accounts, or leaves the accounts alone, while no
\* migration is at work.
LEMMA AccountsSafe ==
    ASSUME IInv, NEW p \in Processes, owner = None,
           UNCHANGED <<draft, owner, at, failed, overtaken>>,
           \/ UNCHANGED <<db, fresh>>
           \/ Usable /\ \E n \in Names, hash \in Passwords, role \in {"user", "admin"} :
                 Create(n, hash, role),
           \/ UNCHANGED <<pc, command, env>>
           \/ Exit(p)
    PROVE  IInv'
<1>1. DeployTypeOK /\ Knows(p) /\ ProgressTyped
  BY DEF IInv, DeployTypeOK, ProgressTyped
<1>2. /\ db' \in Schemas /\ fresh' \in [Names -> {"none", "user", "admin"}]
      /\ db'.revision = db.revision /\ db'.objects = db.objects
      /\ OldAccountsAreLockedOut' /\ FreshAtHead'
  <2>1. CASE UNCHANGED <<db, fresh>>
    BY <1>1, <2>1 DEF DeployTypeOK, IInv, OldAccountsAreLockedOut, FreshAtHead
  <2>2. CASE Usable /\ \E n \in Names, hash \in Passwords, role \in {"user", "admin"} :
                 Create(n, hash, role)
    BY <2>2, CreateKeeps
  <2> QED
    BY <2>1, <2>2
<1>3. OnlyMoves(p) /\ ProgressTyped' /\ (pc'[p] = "off" \/ UNCHANGED <<pc, command, env>>)
  <2>1. CASE UNCHANGED <<pc, command, env>>
    BY <1>1, <2>1 DEF OnlyMoves, ProgressTyped
  <2>2. CASE Exit(p)
    BY <1>1, <2>2, Moving
  <2> QED
    BY <2>1, <2>2
<1>4. DeployTypeOK'
  BY <1>1, <1>2, <1>3 DEF DeployTypeOK, ProgressTyped
<1>5. Whole(db)' /\ DraftFollowsPlan' /\ NothingLeavesDeadEnd'
  BY <1>2 DEF IInv, Whole, DraftFollowsPlan, NothingLeavesDeadEnd
<1>6. FailuresHaveACause'
  BY <1>2 DEF IInv, FailuresHaveACause
<1>7. Knows(p)'
  BY <1>1, <1>2, <1>3 DEF Knows
<1>8. \A q \in Processes \ {p} : Knows(q)'
  BY <1>2, <1>3, OthersKnow
<1> QED
  BY <1>2, <1>4, <1>5, <1>6, <1>7, <1>8, Parts

\* The commands that write accounts.
LEMMA CommandsSafe ==
    ASSUME IInv, NEW p \in Processes, CreateAdmin(p) \/ Seed(p) \/ Register(p)
    PROVE  IInv'
<1>1. DemoNames \subseteq Names
  BY DeploymentAssumption
<1>2. CASE CreateAdmin(p)
  <2>1. \/ UNCHANGED <<db, fresh>>
        \/ Usable /\ \E n \in Names, hash \in Passwords, role \in {"user", "admin"} :
                 Create(n, hash, role)
    BY <1>2 DEF CreateAdmin, Passwords
  <2> QED
    BY <1>2, <2>1, AccountsSafe DEF CreateAdmin
<1>3. CASE Seed(p)
  <2>1. \/ UNCHANGED <<db, fresh>>
        \/ Usable /\ \E n \in Names, hash \in Passwords, role \in {"user", "admin"} :
                 Create(n, hash, role)
    BY <1>1, <1>3 DEF Seed, DemoRole, Passwords
  <2>2. UNCHANGED <<pc, command, env>> \/ Exit(p)
    BY <1>3 DEF Seed
  <2> QED
    BY <1>3, <2>1, <2>2, AccountsSafe DEF Seed
<1>4. CASE Register(p)
  <2>1. Usable /\ \E n \in Names, hash \in Passwords, role \in {"user", "admin"} :
                 Create(n, hash, role)
    BY <1>4 DEF Register, Passwords
  <2> QED
    BY <1>4, <2>1, AccountsSafe DEF Register, progress
<1> QED
  BY <1>2, <1>3, <1>4

\* A release without passwords adds an account that nobody can log in to.
LEMMA EarlierReleaseSafe == ASSUME IInv, EarlierRelease PROVE IInv'
<1> DEFINE row == [hash |-> "none", role |-> "none"]
<1>1. DeployTypeOK /\ ProgressTyped /\ OldAccountsAreLockedOut /\ FreshAtHead
  BY DEF IInv, DeployTypeOK, ProgressTyped
<1>2. /\ UNCHANGED <<draft, owner, pc, command, env, at, failed, overtaken, fresh>>
      /\ db.revision = 1 /\ owner = None
  BY DEF EarlierRelease, progress
<1>3. PICK n \in Names : db' = [db EXCEPT !.accounts[n] = row]
  BY DEF EarlierRelease
<1>4. row \in Account
  BY DEF Account
<1>5. /\ db' \in Schemas
      /\ db'.revision = db.revision /\ db'.objects = db.objects
      /\ db'.accounts[n] = row
      /\ \A m \in Names \ {n} : db'.accounts[m] = db.accounts[m]
  <2> HIDE DEF row
  <2> QED
    BY <1>1, <1>3, <1>4, NewRow DEF DeployTypeOK
<1>6. \A m \in Names : fresh'[m] = "none"
  BY <1>1, <1>2 DEF FreshAtHead, Head
<1>7. OldAccountsAreLockedOut' /\ FreshAtHead'
  <2>1. ASSUME NEW m \in Names, db'.accounts[m] # None
        PROVE  db'.accounts[m].hash \notin Passwords /\ db'.accounts[m].role # "admin"
    <3>1. CASE m = n
      BY <1>5, <3>1 DEF Passwords
    <3>2. CASE m # n
      BY <1>1, <1>2, <1>5, <1>6, <2>1, <3>2 DEF OldAccountsAreLockedOut
    <3> QED
      BY <3>1, <3>2
  <2> QED
    BY <1>6, <2>1 DEF OldAccountsAreLockedOut, FreshAtHead
<1>8. DeployTypeOK'
  BY <1>1, <1>2, <1>5 DEF DeployTypeOK
<1>9. Whole(db)' /\ DraftFollowsPlan' /\ NothingLeavesDeadEnd' /\ FailuresHaveACause'
  BY <1>2, <1>5 DEF IInv, Whole, DraftFollowsPlan, NothingLeavesDeadEnd,
                    FailuresHaveACause
<1>10. \A q \in Processes : Knows(q)'
  BY <1>2, <1>5 DEF IInv, Knows
<1> QED
  BY <1>7, <1>8, <1>9, <1>10 DEF IInv

\* Every step keeps the invariant.
LEMMA NextInvariant == IInv /\ [Next]_vars => IInv'
<1> SUFFICES ASSUME IInv, [Next]_vars PROVE IInv'
  OBVIOUS
<1>1. CASE UNCHANGED vars
  <2>1. DeployTypeOK' /\ Whole(db)' /\ OldAccountsAreLockedOut' /\ FreshAtHead'
    BY <1>1 DEF vars, progress, IInv, DeployTypeOK, Whole, OldAccountsAreLockedOut,
                FreshAtHead
  <2>2. DraftFollowsPlan'
    BY <1>1 DEF vars, progress, IInv, DraftFollowsPlan, Whole, Stripped
  <2>3. NothingLeavesDeadEnd' /\ FailuresHaveACause'
    BY <1>1 DEF vars, progress, IInv, NothingLeavesDeadEnd, DeadEnd, FailuresHaveACause
  <2>4. \A p \in Processes : Knows(p)'
    BY <1>1 DEF vars, progress, IInv, Knows
  <2> QED
    BY <2>1, <2>2, <2>3, <2>4 DEF IInv
<1>2. ASSUME NEW p \in Processes,
             \/ \E c \in Commands, e \in Environments : Launch(p, c, e)
             \/ Work(p) \/ Register(p) \/ Stop(p) \/ Crash(p)
      PROVE  IInv'
  BY <1>2, LaunchSafe, PlanSafe, MigrateSafe, MigrateFailsSafe, CommitOwnSafe,
     CommitNothingSafe, ComeAndGoSafe, CommandsSafe DEF Work
<1> QED
  BY <1>1, <1>2, EarlierReleaseSafe DEF Next

\* Every reachable state satisfies it; fairness is not needed.
LEMMA Invariant == FairSpec => []IInv
  BY InitInvariant, NextInvariant, PTL DEF FairSpec

-----------------------------------------------------------------------------
(* The theorems *)

\* The committed schema is the recorded revision's, whatever is killed between
\* two statements and whoever migrates at the same time (alembic/env.py runs all
\* migrations in one transaction).
THEOREM SchemaStaysWhole == FairSpec => []SchemaIsWhole
<1>1. IInv => SchemaIsWhole
  BY WholeMeaning DEF IInv, DeployTypeOK
<1> QED
  BY <1>1, Invariant, PTL

\* Nobody who had an account before the auth revision gets in or administers
\* anything after it, through any sequence of upgrades and downgrades
\* (7c1d9a3b5e42: server_default "" and "user").
THEOREM OldAccountsStayOut == FairSpec => []OldAccountsAreLockedOut
<1>1. IInv => OldAccountsAreLockedOut
  BY DEF IInv
<1> QED
  BY <1>1, Invariant, PTL

\* A migration that fails was overtaken by another, or meets the type that the
\* downgrade to base leaves (614047abe21d, downgrade).
THEOREM FailuresExplained == FairSpec => []FailuresHaveACause
<1>1. IInv => FailuresHaveACause
  BY DEF IInv
<1> QED
  BY <1>1, Invariant, PTL

\* `alembic upgrade head && exec uvicorn' (Dockerfile): a server that nobody
\* overtook meets the schema it was built for.
THEOREM ServersFindHead == FairSpec => []ServesAtHead
<1>1. IInv => ServesAtHead
  BY DEF IInv, Knows, ServesAtHead
<1> QED
  BY <1>1, Invariant, PTL

\* What the checks of the settings (core/config.py) and of seed-demo (cli.py)
\* let into a production database: demo accounts only by DB_URL, or under test.
LEMMA DemoByUrl ==
    ASSUME NEW e \in Environments, Admissible("seed_demo", e),
           DatabaseUrl(e) = Database, Database = "production"
    PROVE  e.db_url # None \/ e.app_env = "test"
<1>1. e.app_env \in {"sandbox", "production", "test"}
  BY DeploymentAssumption DEF Settings
<1>2. e.app_env # "production" /\ CheckEnvironment(e)
  BY DEF Admissible
<1>3. CASE e.app_env = "sandbox"
  <2>1. e.postgres_db # "production"
    BY <1>2, <1>3 DEF CheckEnvironment
  <2> QED
    BY <2>1 DEF DatabaseUrl
<1> QED
  BY <1>1, <1>2, <1>3

\* The demo accounts and the settings of who creates them.
THEOREM DemoKeptOut == FairSpec => DemoStaysOutOfProduction
<1>1. ASSUME IInv, [Next]_vars
      PROVE  [Database = "production" /\ ~ DemoAccounts' \subseteq DemoAccounts =>
                \E p \in Processes :
                    /\ command[p] = "seed_demo"
                    /\ env[p].db_url # None \/ env[p].app_env = "test"]_vars
  <2>1. SUFFICES ASSUME Database = "production", NEW n \in DemoAccounts', n \notin DemoAccounts
                 PROVE  \E p \in Processes :
                            /\ command[p] = "seed_demo"
                            /\ env[p].db_url # None \/ env[p].app_env = "test"
    OBVIOUS
  <2>2. db.accounts[n] # db'.accounts[n] /\ n \in Names /\ db \in Schemas
    BY <1>1, <2>1 DEF DemoAccounts, IInv, DeployTypeOK
  <2>3. ASSUME NEW m \in Names, NEW role \in {"user", "admin"}, Create(m, "own", role)
        PROVE  FALSE
    <3>1. PICK row : row = [hash |-> "own", role |-> role]
      OBVIOUS
    <3>2. row \in Account /\ row.hash = "own"
      BY <3>1 DEF Account, Passwords
    <3>3. db'.accounts[m] = row /\ \A k \in Names \ {m} : db'.accounts[k] = db.accounts[k]
      BY <2>2, <2>3, <3>1, <3>2, NewRow DEF Create
    <3> QED
      BY <2>1, <2>2, <3>2, <3>3 DEF DemoAccounts
  <2>4. ASSUME NEW p \in Processes, CommitMigrations(p) PROVE FALSE
    <3>1. owner = p /\ db' = draft
      BY <2>2, <2>4 DEF CommitMigrations, Publish
    <3>2. Stripped(draft) /\ draft \in Schemas
      BY <1>1, <3>1, DeploymentAssumption DEF IInv, DraftFollowsPlan, DeployTypeOK
    <3>3. db'.accounts[n] # None /\ db'.accounts[n].hash = "demo"
      BY <2>1 DEF DemoAccounts
    <3> QED
      BY <2>2, <3>1, <3>2, <3>3 DEF Stripped, Passwords
  <2>5. \E p \in Processes : Seed(p)
    <3>1. ASSUME NEW p \in Processes, Work(p), ~ Seed(p) PROVE FALSE
      <4>1. CASE Plan(p) \/ Migrate(p) \/ MigrateFails(p) \/ Serve(p)
        BY <2>2, <4>1 DEF Plan, Migrate, MigrateFails, Serve
      <4>2. CASE CreateAdmin(p)
        BY <2>2, <2>3, <4>2 DEF CreateAdmin
      <4> QED
        BY <2>4, <3>1, <4>1, <4>2 DEF Work
    <3>2. ASSUME NEW p \in Processes, Register(p) PROVE FALSE
      BY <2>3, <3>2 DEF Register
    <3>3. ASSUME NEW p \in Processes,
                 \/ \E c \in Commands, e \in Environments : Launch(p, c, e)
                 \/ Stop(p) \/ Crash(p)
          PROVE  FALSE
      BY <2>2, <3>3 DEF Launch, Stop, Crash
    <3>4. ~ EarlierRelease
      <4>1. SUFFICES ASSUME EarlierRelease PROVE FALSE
        OBVIOUS
      <4>2. PICK row : row = [hash |-> "none", role |-> "none"]
        OBVIOUS
      <4>3. row \in Account /\ row.hash = "none"
        BY <4>2 DEF Account
      <4>4. PICK m \in Names : db' = [db EXCEPT !.accounts[m] = row]
        BY <4>1, <4>2 DEF EarlierRelease
      <4>5. db'.accounts[m] = row /\ \A k \in Names \ {m} : db'.accounts[k] = db.accounts[k]
        BY <2>2, <4>3, <4>4, NewRow
      <4> QED
        BY <2>1, <2>2, <4>3, <4>5 DEF DemoAccounts
    <3>5. ~ UNCHANGED vars
      BY <2>2 DEF vars
    <3> QED
      BY <1>1, <3>1, <3>2, <3>3, <3>4, <3>5 DEF Next
  <2>6. PICK p \in Processes : Seed(p)
    BY <2>5
  <2>7. /\ command[p] = "seed_demo" /\ env[p] \in Environments
        /\ Admissible("seed_demo", env[p]) /\ DatabaseUrl(env[p]) = Database
    BY <1>1, <2>6 DEF Seed, IInv, Knows
  <2> QED
    BY <2>1, <2>7, DemoByUrl
<1> QED
  BY <1>1, Invariant, PTL DEF FairSpec, DemoStaysOutOfProduction
=============================================================================
