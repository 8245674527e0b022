------------------------------- MODULE SeedDemo -------------------------------
(***************************************************************************)
(* The seed-demo command of app/cli.py: runs of it, which may overlap and  *)
(* may be interrupted, against one database.                               *)
(*                                                                         *)
(* A run works through the demo accounts (the administrator first), then   *)
(* the artifacts, then the auction, each in a transaction of its own that  *)
(* looks first and writes after an await:                                  *)
(*                                                                         *)
(*   check -> insert (-> find -> deposit) for each account, then           *)
(*   count_artifacts (-> add_artifacts) -> count_auctions (-> add_auction) *)
(*   -> finished                                                           *)
(*                                                                         *)
(* Nobody else uses the database meanwhile.                                *)
(***************************************************************************)
EXTENDS Integers, Sequences, FiniteSets

CONSTANTS Runs,       \* the runs of the command
          Accepted,   \* those whose DEMO_PASSWORD UserRegister accepts
          Accounts,   \* DEMO_ADMIN and DEMO_USERS, in the order of their creation
          Balance,    \* what is deposited for each; 0 for the administrator
          Artifacts   \* the number of DEMO_ARTIFACTS

ASSUME SeedDemoAssumption ==
    /\ Accepted \subseteq Runs
    /\ Accounts \in Seq(STRING) \ {<< >>}
    /\ Balance \in [DOMAIN Accounts -> Nat]
    /\ Artifacts \in Nat \ {0}

VARIABLES
    exists,      \* the accounts in the table, by their place in Accounts
    balance,     \* their balances
    artifacts,   \* the number of artifacts
    auctions,    \* the number of auctions
    pc,          \* where each run is
    at,          \* the account each run is at
    overlapped   \* history: whether two runs were ever under way at once

dbVars == <<exists, balance, artifacts, auctions>>
vars == <<dbVars, pc, at, overlapped>>

Labels == {"idle", "check", "insert", "find", "deposit", "count_artifacts",
           "add_artifacts", "count_auctions", "add_auction", "finished", "stopped"}

TypeOK ==
    /\ exists \subseteq DOMAIN Accounts
    /\ balance \in [DOMAIN Accounts -> Nat]
    /\ artifacts \in Nat
    /\ auctions \in Nat
    /\ pc \in [Runs -> Labels]
    /\ at \in [Runs -> DOMAIN Accounts]
    /\ overlapped \in BOOLEAN

Init ==
    /\ exists = {}
    /\ balance = [i \in DOMAIN Accounts |-> 0]
    /\ artifacts = 0
    /\ auctions = 0
    /\ pc = [r \in Runs |-> "idle"]
    /\ at = [r \in Runs |-> 1]
    /\ overlapped = FALSE

UnderWay(r) == pc[r] \notin {"idle", "finished", "stopped"}

Goto(r, label) == pc' = [pc EXCEPT ![r] = label]

Start(r) ==
    /\ pc[r] = "idle"
    /\ Goto(r, "check")
    /\ overlapped' = (overlapped \/ \E q \in Runs : UnderWay(q))
    /\ UNCHANGED <<dbVars, at>>

\* The next account, or the artifacts after the last one.
NextAccount(r) ==
    IF at[r] < Len(Accounts)
    THEN Goto(r, "check") /\ at' = [at EXCEPT ![r] = @ + 1]
    ELSE Goto(r, "count_artifacts") /\ UNCHANGED at

\* UserRegister rejects the password, or create_user finds the name: either way
\* the account is skipped, its deposit included, and the run goes on.
Check(r) ==
    /\ pc[r] = "check"
    /\ \/ (r \notin Accepted \/ at[r] \in exists) /\ NextAccount(r)
       \/ r \in Accepted /\ at[r] \notin exists /\ Goto(r, "insert") /\ UNCHANGED at
    /\ UNCHANGED <<dbVars, overlapped>>

\* Mutant: the result of _create is not looked at before the deposit.
DepositAnyway(r) == Balance[at[r]] > 0 /\ Goto(r, "find") /\ UNCHANGED at

\* Another run inserted it after the check: the same ConflictError.
SkipConflict(r) == NextAccount(r)

\* The INSERT.
Insert(r) ==
    /\ pc[r] = "insert"
    /\ \/ /\ at[r] \in exists
          /\ SkipConflict(r)
          /\ UNCHANGED exists
       \/ /\ at[r] \notin exists
          /\ exists' = exists \cup {at[r]}
          /\ IF Balance[at[r]] = 0 THEN NextAccount(r)
             ELSE Goto(r, "find") /\ UNCHANGED at
    /\ UNCHANGED <<balance, artifacts, auctions, overlapped>>

\* get_by_username in a new session.
Find(r) ==
    /\ pc[r] = "find"
    /\ Goto(r, "deposit")
    /\ UNCHANGED <<dbVars, at, overlapped>>

Deposit(r) ==
    /\ pc[r] = "deposit"
    /\ balance' = [balance EXCEPT ![at[r]] = @ + Balance[at[r]]]
    /\ NextAccount(r)
    /\ UNCHANGED <<exists, artifacts, auctions, overlapped>>

CountArtifacts(r) ==
    /\ pc[r] = "count_artifacts"
    /\ Goto(r, IF artifacts = 0 THEN "add_artifacts" ELSE "count_auctions")
    /\ UNCHANGED <<dbVars, at, overlapped>>

\* Mutant: each artifact is committed by itself, and the command may stop after
\* the first.
AddOneArtifact(r) ==
    /\ pc[r] = "add_artifacts"
    /\ artifacts' = artifacts + 1
    /\ IF artifacts' < Artifacts THEN UNCHANGED pc ELSE Goto(r, "count_auctions")
    /\ UNCHANGED <<exists, balance, auctions, at, overlapped>>

\* add_all and one commit.
AddArtifacts(r) ==
    /\ pc[r] = "add_artifacts"
    /\ artifacts' = artifacts + Artifacts
    /\ Goto(r, "count_auctions")
    /\ UNCHANGED <<exists, balance, auctions, at, overlapped>>

\* Mutant: the auctions are not counted.
NoCount(r) ==
    /\ pc[r] = "count_auctions"
    /\ Goto(r, "add_auction")
    /\ UNCHANGED <<dbVars, at, overlapped>>

CountAuctions(r) ==
    /\ pc[r] = "count_auctions"
    /\ Goto(r, IF auctions = 0 THEN "add_auction" ELSE "finished")
    /\ UNCHANGED <<dbVars, at, overlapped>>

\* create_auction for the first artifact.
AddAuction(r) ==
    /\ pc[r] = "add_auction"
    /\ auctions' = auctions + 1
    /\ Goto(r, "finished")
    /\ UNCHANGED <<exists, balance, artifacts, at, overlapped>>

\* The command is interrupted, or the database fails.
Stop(r) ==
    /\ UnderWay(r)
    /\ Goto(r, "stopped")
    /\ UNCHANGED <<dbVars, at, overlapped>>

Next ==
    \E r \in Runs :
        \/ Start(r) \/ Check(r) \/ Insert(r) \/ Find(r) \/ Deposit(r)
        \/ CountArtifacts(r) \/ AddArtifacts(r) \/ CountAuctions(r) \/ AddAuction(r)
        \/ Stop(r)

Spec == Init /\ [][Next]_vars

-----------------------------------------------------------------------------
(* Properties *)

\* However often the command is run, interrupted and run again, alone or beside
\* itself, no demo user gets his balance twice.
DepositedOnce == \A i \in DOMAIN Accounts : balance[i] \in {0, Balance[i]}

\* Somebody is about to deposit for account i, or stopped when he was at it.
Pending(i) == \E r \in Runs : at[r] = i /\ pc[r] \in {"find", "deposit", "stopped"}

\* A run that finished leaves a usable demo, whatever other runs left half done:
\* all the artifacts, an auction and, unless its password was rejected, every
\* account.  Who has not got his balance is waiting for the run that inserted him,
\* or that run was stopped when it was at him.
FinishedMeansSeeded ==
    \A r \in Runs : pc[r] = "finished" =>
        /\ artifacts >= Artifacts /\ auctions >= 1
        /\ r \in Accepted => exists = DOMAIN Accounts
        /\ \A i \in exists : balance[i] = Balance[i] \/ Pending(i)

\* Runs one after the other never seed anything twice: the counts are taken
\* before the writes, so only overlapping runs do.
SeededOnce == ~ overlapped => artifacts \in {0, Artifacts} /\ auctions <= 1
=============================================================================
