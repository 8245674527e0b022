--------------------------- MODULE SeedDemoProofs ---------------------------
(***************************************************************************)
(* Theorems about SeedDemo, for any number of runs, any demo accounts and  *)
(* any number of artifacts.                                                *)
(***************************************************************************)
EXTENDS SeedDemo, TLAPS

\* A run that has inserted an account and not yet deposited for it.
Funding(r) == pc[r] \in {"find", "deposit"}

\* What a deposit relies on: the run that inserted the account is the only one
\* that will deposit, and nobody has done so yet.
FundedByInserter ==
    /\ \A i \in DOMAIN Accounts : i \notin exists => balance[i] = 0
    /\ \A r \in Runs : Funding(r) => at[r] \in exists /\ balance[at[r]] = 0
    /\ \A q, r \in Runs : Funding(q) /\ Funding(r) /\ at[q] = at[r] => q = r

\* An account without its balance has a run to wait for, or one that stopped.
Funded == \A i \in exists : balance[i] = Balance[i] \/ Pending(i)

\* What a run has left behind it, whoever wrote it.
Progress(r) ==
    /\ r \in Accepted => \A i \in DOMAIN Accounts : i < at[r] => i \in exists
    /\ r \in Accepted /\ pc[r] \in {"count_artifacts", "add_artifacts", "count_auctions", "add_auction",
                  "finished"} => exists = DOMAIN Accounts
    /\ pc[r] \in {"count_auctions", "add_auction", "finished"} => artifacts >= Artifacts
    /\ pc[r] = "finished" => auctions >= 1

\* Artifacts are written all at once.
WholeBatches == artifacts = 0 \/ artifacts >= Artifacts

\* As long as runs do not overlap, a count stays true until the write after it.
CountsHold ==
    ~ overlapped =>
        /\ \A q, r \in Runs : UnderWay(q) /\ UnderWay(r) => q = r
        /\ \A r \in Runs : /\ pc[r] = "add_artifacts" => artifacts = 0
                           /\ pc[r] = "add_auction" => auctions = 0

IInv ==
    /\ TypeOK
    /\ DepositedOnce
    /\ FundedByInserter
    /\ Funded
    /\ \A r \in Runs : Progress(r)
    /\ WholeBatches
    /\ CountsHold
    /\ SeededOnce

-----------------------------------------------------------------------------
(* What a step of one run leaves of the others' knowledge *)

\* The demo accounts are numbered from 1, and there is at least the administrator.
LEMMA Places ==
    /\ Len(Accounts) \in Nat \ {0}
    /\ DOMAIN Accounts = 1 .. Len(Accounts)
    /\ Artifacts \in Nat \ {0}
    /\ \A i \in DOMAIN Accounts : Balance[i] \in Nat
  BY SeedDemoAssumption

\* Run r goes to label l at account a.
MovesTo(r, l, a) ==
    /\ l \in Labels
    /\ a \in DOMAIN Accounts
    /\ pc' = [pc EXCEPT ![r] = l]
    /\ at' = [at EXCEPT ![r] = a]

\* Rows are only ever added.
RowsGrow ==
    /\ exists \subseteq exists' /\ exists' \subseteq DOMAIN Accounts
    /\ artifacts' \in Nat /\ artifacts' >= artifacts
    /\ auctions' \in Nat /\ auctions' >= auctions

\* The place of r after its step, and the others where they were.
LEMMA Moved ==
    ASSUME TypeOK, NEW r \in Runs, NEW l, NEW a, MovesTo(r, l, a)
    PROVE  /\ pc'[r] = l /\ at'[r] = a
           /\ \A q \in Runs \ {r} : pc'[q] = pc[q] /\ at'[q] = at[q]
           /\ pc' \in [Runs -> Labels] /\ at' \in [Runs -> DOMAIN Accounts]
  BY DEF TypeOK, MovesTo

\* What the other runs left behind them stays there.
LEMMA ProgressKept ==
    ASSUME TypeOK, \A q \in Runs : Progress(q), NEW r \in Runs, NEW l, NEW a,
           MovesTo(r, l, a), RowsGrow, Progress(r)'
    PROVE  \A q \in Runs : Progress(q)'
<1>1. /\ artifacts \in Nat /\ auctions \in Nat /\ Artifacts \in Nat
      /\ artifacts' \in Nat /\ auctions' \in Nat
  BY Places DEF TypeOK, RowsGrow
<1>2. ASSUME NEW q \in Runs \ {r} PROVE Progress(q)'
  <2>1. Progress(q) /\ pc'[q] = pc[q] /\ at'[q] = at[q]
    BY Moved
  <2> QED
    BY <1>1, <2>1 DEF Progress, RowsGrow
<1> QED
  BY <1>2

\* A step that deposits nothing and does not lead to a deposit.
LEMMA FundingKept ==
    ASSUME TypeOK, FundedByInserter, DepositedOnce, NEW r \in Runs, NEW l, NEW a,
           MovesTo(r, l, a), RowsGrow, UNCHANGED balance, l \notin {"find", "deposit"}
    PROVE  FundedByInserter' /\ DepositedOnce'
<1>1. \A q \in Runs : Funding(q)' => q # r /\ Funding(q) /\ at'[q] = at[q]
  BY Moved DEF Funding
<1> QED
  BY <1>1 DEF FundedByInserter, DepositedOnce, RowsGrow

\* A step of a run that has nothing to deposit, beside an account that is there with
\* its balance, or beside none.
LEMMA FundedKept ==
    ASSUME TypeOK, Funded, NEW r \in Runs, NEW l, NEW a, MovesTo(r, l, a),
           UNCHANGED <<exists, balance>>, ~ Funding(r), UnderWay(r) \/ pc[r] = "idle"
    PROVE  Funded'
<1>1. ASSUME NEW i \in exists, Pending(i) PROVE Pending(i)'
  <2>1. PICK q \in Runs : at[q] = i /\ pc[q] \in {"find", "deposit", "stopped"}
    BY <1>1 DEF Pending
  <2>2. q # r
    BY <2>1 DEF Funding, UnderWay
  <2> QED
    BY <2>1, <2>2, Moved DEF Pending
<1> QED
  BY <1>1 DEF Funded

\* A step that writes neither artifacts nor auctions and does not lead there.
LEMMA CountsKept ==
    ASSUME TypeOK, CountsHold, SeededOnce, WholeBatches, NEW r \in Runs, NEW l, NEW a,
           MovesTo(r, l, a), UNCHANGED <<artifacts, auctions, overlapped>>, UnderWay(r),
           l \notin {"add_artifacts", "add_auction"}
    PROVE  CountsHold' /\ SeededOnce' /\ WholeBatches'
<1>1. \A q \in Runs : UnderWay(q)' => UnderWay(q)
  BY Moved DEF UnderWay
<1>2. \A q \in Runs : /\ pc'[q] = "add_artifacts" => pc[q] = "add_artifacts"
                      /\ pc'[q] = "add_auction" => pc[q] = "add_auction"
  BY Moved
<1> QED
  BY <1>1, <1>2 DEF CountsHold, SeededOnce, WholeBatches

\* Going on after an account that exists: to the next one, or to the artifacts
\* once every account does.
LEMMA NextAccountMoves ==
    ASSUME TypeOK, NEW r \in Runs, NextAccount(r), Progress(r),
           r \in Accepted => at[r] \in exists', RowsGrow
    PROVE  \E l \in {"check", "count_artifacts"}, a \in DOMAIN Accounts :
               MovesTo(r, l, a) /\ Progress(r)'
<1>1. at[r] \in 1 .. Len(Accounts) /\ at \in [Runs -> DOMAIN Accounts]
  BY Places DEF TypeOK
<1>2. r \in Accepted => \A i \in DOMAIN Accounts : i < at[r] => i \in exists'
  BY DEF Progress, RowsGrow
<1>3. "check" \in Labels /\ "count_artifacts" \in Labels
  BY DEF Labels
<1>4. CASE at[r] < Len(Accounts)
  <2>1. at[r] + 1 \in DOMAIN Accounts
    BY <1>1, <1>4, Places
  <2>2. MovesTo(r, "check", at[r] + 1)
    BY <1>3, <1>4, <2>1 DEF NextAccount, Goto, MovesTo
  <2>3. pc'[r] = "check" /\ at'[r] = at[r] + 1
    BY <2>2, Moved
  <2>4. r \in Accepted => \A i \in DOMAIN Accounts : i < at[r] + 1 => i \in exists'
    BY <1>1, <1>2, Places
  <2>5. Progress(r)'
    BY <2>3, <2>4 DEF Progress
  <2> QED
    BY <2>1, <2>2, <2>5
<1>5. CASE ~ at[r] < Len(Accounts)
  <2>1. at[r] = Len(Accounts) /\ at[r] \in DOMAIN Accounts
    BY <1>1, <1>5, Places
  <2>2. MovesTo(r, "count_artifacts", at[r])
    BY <1>1, <1>3, <1>5, <2>1 DEF NextAccount, Goto, MovesTo
  <2>3. pc'[r] = "count_artifacts" /\ at'[r] = at[r]
    BY <2>2, Moved
  <2>4. r \in Accepted => \A i \in DOMAIN Accounts : i \in exists'
    BY <1>1, <1>2, <2>1, Places
  <2>5. r \in Accepted => exists' = DOMAIN Accounts
    BY <2>4 DEF RowsGrow
  <2>6. Progress(r)'
    BY <2>3, <2>4, <2>5 DEF Progress
  <2> QED
    BY <2>1, <2>2, <2>6
<1> QED
  BY <1>4, <1>5

-----------------------------------------------------------------------------
(* The steps *)

\* An empty database and no run under way.
LEMMA InitInvariant == Init => IInv
<1>1. SUFFICES ASSUME Init PROVE IInv
  OBVIOUS
<1>2. 1 \in DOMAIN Accounts
  BY Places
<1>3. TypeOK
  BY <1>1, <1>2 DEF Init, TypeOK, Labels
<1>4. FundedByInserter /\ DepositedOnce /\ CountsHold /\ SeededOnce /\ WholeBatches
  BY <1>1 DEF Init, FundedByInserter, Funding, DepositedOnce, CountsHold, UnderWay,
              SeededOnce, WholeBatches
<1>f. Funded
  BY <1>1 DEF Init, Funded
<1>5. \A r \in Runs : Progress(r)
  BY <1>1, Places DEF Init, Progress
<1> QED
  BY <1>3, <1>4, <1>f, <1>5 DEF IInv

\* A run starts: beside another one, or alone.
LEMMA StartSafe == ASSUME IInv, NEW r \in Runs, Start(r) PROVE IInv'
<1>1. TypeOK /\ (\A q \in Runs : Progress(q)) /\ CountsHold
  BY DEF IInv
<1>2. /\ UNCHANGED dbVars /\ RowsGrow /\ pc[r] = "idle"
      /\ MovesTo(r, "check", at[r])
      /\ overlapped' = (overlapped \/ \E q \in Runs : UnderWay(q))
  BY <1>1 DEF Start, dbVars, RowsGrow, TypeOK, Goto, MovesTo, Labels
<1>3. Progress(r)' /\ TypeOK'
  BY <1>1, <1>2, Moved DEF Progress, TypeOK, dbVars
<1>4. \A q \in Runs : Progress(q)'
  BY <1>1, <1>2, <1>3, ProgressKept
<1>5. FundedByInserter' /\ DepositedOnce'
  BY <1>1, <1>2, FundingKept DEF IInv, dbVars
<1>6. CountsHold'
  <2>1. SUFFICES ASSUME ~ overlapped' PROVE CountsHold'
    BY DEF CountsHold
  <2>2. ~ overlapped /\ \A q \in Runs : ~ UnderWay(q)
    BY <1>2, <2>1
  <2>3. \A q \in Runs : /\ UnderWay(q)' => q = r
                        /\ pc'[q] \notin {"add_artifacts", "add_auction"}
    BY <1>1, <1>2, <2>2, Moved DEF UnderWay
  <2> QED
    BY <2>3 DEF CountsHold
<1>7. SeededOnce' /\ WholeBatches'
  BY <1>2 DEF IInv, SeededOnce, WholeBatches, dbVars
<1>8. Funded'
  BY <1>1, <1>2, FundedKept DEF IInv, dbVars, Funding
<1> QED
  BY <1>3, <1>4, <1>5, <1>6, <1>7, <1>8 DEF IInv

\* A step of r that goes on with the accounts or the counts, and neither
\* deposits nor writes artifacts or auctions, nor is about to.
LEMMA LookingSafe ==
    ASSUME IInv, NEW r \in Runs, NEW l, NEW a, MovesTo(r, l, a), RowsGrow, UnderWay(r),
           UNCHANGED <<balance, artifacts, auctions, overlapped>>, Progress(r)', Funded',
           l \notin {"find", "deposit", "add_artifacts", "add_auction"}
    PROVE  IInv'
<1>1. TypeOK'
  BY Moved DEF IInv, TypeOK, RowsGrow
<1>2. \A q \in Runs : Progress(q)'
  BY ProgressKept DEF IInv
<1>3. FundedByInserter' /\ DepositedOnce'
  BY FundingKept DEF IInv
<1>4. CountsHold' /\ SeededOnce' /\ WholeBatches'
  BY CountsKept DEF IInv
<1> QED
  BY <1>1, <1>2, <1>3, <1>4 DEF IInv

\* create_user looks the name up: the run goes on, or is about to insert.
LEMMA CheckSafe == ASSUME IInv, NEW r \in Runs, Check(r) PROVE IInv'
<1>1. TypeOK /\ Progress(r)
  BY DEF IInv
<1>2. /\ UNCHANGED <<exists, balance, artifacts, auctions, overlapped>>
      /\ RowsGrow /\ pc[r] = "check" /\ UnderWay(r) /\ ~ Funding(r)
  BY <1>1 DEF Check, dbVars, RowsGrow, TypeOK, UnderWay, Funding
<1>3. CASE (r \notin Accepted \/ at[r] \in exists) /\ NextAccount(r)
  <2>1. PICK l \in {"check", "count_artifacts"}, a \in DOMAIN Accounts :
            MovesTo(r, l, a) /\ Progress(r)'
    BY <1>1, <1>2, <1>3, NextAccountMoves
  <2>2. Funded'
    BY <1>1, <1>2, <2>1, FundedKept DEF IInv
  <2> QED
    BY <1>2, <2>1, <2>2, LookingSafe
<1>4. CASE Goto(r, "insert") /\ UNCHANGED at
  <2>1. MovesTo(r, "insert", at[r])
    BY <1>1, <1>4 DEF Goto, MovesTo, TypeOK, Labels
  <2>2. Progress(r)'
    BY <1>1, <1>2, <2>1, Moved DEF Progress
  <2>3. Funded'
    BY <1>1, <1>2, <2>1, FundedKept DEF IInv
  <2> QED
    BY <1>2, <2>1, <2>2, <2>3, LookingSafe
<1> QED
  BY <1>3, <1>4 DEF Check

\* The INSERT: an account somebody else inserted is skipped, a new one is this
\* run's to fund.
LEMMA InsertSafe == ASSUME IInv, NEW r \in Runs, Insert(r) PROVE IInv'
<1>1. TypeOK /\ Progress(r) /\ FundedByInserter /\ DepositedOnce
  BY DEF IInv
<1>2. /\ UNCHANGED <<balance, artifacts, auctions, overlapped>>
      /\ pc[r] = "insert" /\ UnderWay(r)
      /\ at[r] \in DOMAIN Accounts
      /\ exists' = exists \cup {at[r]}
  BY <1>1 DEF Insert, TypeOK, UnderWay
<1>3. RowsGrow /\ at[r] \in exists'
  BY <1>1, <1>2 DEF RowsGrow, TypeOK
<1>m. ASSUME NEW i \in exists, NEW l, NEW a, MovesTo(r, l, a)
      PROVE  balance'[i] = Balance[i] \/ Pending(i)'
  <2>1. CASE balance[i] = Balance[i]
    BY <1>2, <2>1
  <2>2. CASE Pending(i)
    <3>1. PICK q \in Runs : at[q] = i /\ pc[q] \in {"find", "deposit", "stopped"}
      BY <2>2 DEF Pending
    <3>2. q # r
      BY <1>2, <3>1
    <3> QED
      BY <1>1, <1>m, <3>1, <3>2, Moved DEF Pending
  <2> QED
    BY <2>1, <2>2 DEF IInv, Funded
<1>4. CASE NextAccount(r) /\ (at[r] \in exists \/ Balance[at[r]] = 0)
  <2>1. PICK l \in {"check", "count_artifacts"}, a \in DOMAIN Accounts :
            MovesTo(r, l, a) /\ Progress(r)'
    BY <1>1, <1>3, <1>4, NextAccountMoves
  <2>2. at[r] \notin exists => balance'[at[r]] = Balance[at[r]]
    BY <1>1, <1>2, <1>4 DEF FundedByInserter
  <2>3. Funded'
    BY <1>2, <1>m, <2>1, <2>2 DEF Funded
  <2> QED
    BY <1>2, <1>3, <2>1, <2>3, LookingSafe
<1>5. CASE at[r] \notin exists /\ Goto(r, "find") /\ UNCHANGED at
  <2>1. MovesTo(r, "find", at[r])
    BY <1>1, <1>5 DEF Goto, MovesTo, TypeOK, Labels
  <2>2. Progress(r)'
    BY <1>1, <1>2, <1>3, <2>1, Moved DEF Progress
  <2>3. TypeOK'
    BY <1>1, <1>2, <1>3, <2>1, Moved DEF TypeOK, RowsGrow
  <2>4. \A q \in Runs : Progress(q)'
    BY <1>3, <2>1, <2>2, ProgressKept DEF IInv
  <2>5. CountsHold' /\ SeededOnce' /\ WholeBatches'
    BY <1>2, <2>1, CountsKept DEF IInv
  <2>6. FundedByInserter' /\ DepositedOnce'
    <3>1. \A q \in Runs : Funding(q)' => q = r \/ (Funding(q) /\ at'[q] = at[q])
      BY <1>1, <2>1, Moved DEF Funding
    <3>2. at'[r] = at[r] /\ balance[at[r]] = 0
      BY <1>1, <1>2, <1>5 DEF FundedByInserter
    <3>3. \A q \in Runs : Funding(q) => at[q] # at[r]
      BY <1>1, <1>5 DEF FundedByInserter
    <3> QED
      BY <1>1, <1>2, <3>1, <3>2, <3>3 DEF FundedByInserter, DepositedOnce
  <2>7. Pending(at[r])'
    BY <1>1, <1>2, <2>1, Moved DEF Pending
  <2>8. Funded'
    <3> SUFFICES ASSUME NEW i \in exists' PROVE balance'[i] = Balance[i] \/ Pending(i)'
      BY DEF Funded
    <3>1. CASE i = at[r]
      BY <1>1, <2>1, <3>1, Moved DEF Pending
    <3>2. CASE i # at[r]
      BY <1>2, <1>m, <2>1, <3>2
    <3> QED
      BY <3>1, <3>2
  <2> QED
    BY <2>3, <2>4, <2>5, <2>6, <2>8 DEF IInv
<1> QED
  BY <1>4, <1>5 DEF Insert, SkipConflict

\* get_by_username in a session of its own reads what nobody changes.
LEMMA FindSafe == ASSUME IInv, NEW r \in Runs, Find(r) PROVE IInv'
<1>1. TypeOK /\ Progress(r) /\ FundedByInserter /\ DepositedOnce
  BY DEF IInv
<1>2. /\ UNCHANGED <<exists, balance, artifacts, auctions, overlapped>>
      /\ RowsGrow /\ pc[r] = "find" /\ UnderWay(r)
      /\ MovesTo(r, "deposit", at[r])
  BY <1>1 DEF Find, dbVars, RowsGrow, TypeOK, UnderWay, Goto, MovesTo, Labels
<1>3. Progress(r)' /\ TypeOK'
  BY <1>1, <1>2, Moved DEF Progress, TypeOK
<1>4. \A q \in Runs : Progress(q)'
  BY <1>2, <1>3, ProgressKept DEF IInv
<1>5. CountsHold' /\ SeededOnce' /\ WholeBatches'
  BY <1>2, CountsKept DEF IInv
<1>6. \A q \in Runs : (Funding(q)' <=> Funding(q)) /\ at'[q] = at[q]
  BY <1>1, <1>2, Moved DEF Funding
<1>7. FundedByInserter' /\ DepositedOnce'
  BY <1>1, <1>2, <1>6 DEF FundedByInserter, DepositedOnce
<1>8. \A q \in Runs : pc[q] \in {"find", "deposit", "stopped"} =>
          pc'[q] \in {"find", "deposit", "stopped"} /\ at'[q] = at[q]
  BY <1>1, <1>2, Moved
<1>9. Funded'
  <2> SUFFICES ASSUME NEW i \in exists' PROVE balance'[i] = Balance[i] \/ Pending(i)'
    BY DEF Funded
  <2> QED
    BY <1>2, <1>8 DEF IInv, Funded, Pending
<1> QED
  BY <1>3, <1>4, <1>5, <1>7, <1>9 DEF IInv

\* The deposit of the run that inserted the account is the first and the last.
LEMMA DepositSafe == ASSUME IInv, NEW r \in Runs, Deposit(r) PROVE IInv'
<1>1. TypeOK /\ Progress(r) /\ FundedByInserter /\ DepositedOnce
  BY DEF IInv
<1>2. /\ UNCHANGED <<exists, artifacts, auctions, overlapped>>
      /\ RowsGrow /\ pc[r] = "deposit" /\ UnderWay(r) /\ Funding(r)
      /\ at[r] \in DOMAIN Accounts
      /\ NextAccount(r)
      /\ balance' = [balance EXCEPT ![at[r]] = @ + Balance[at[r]]]
  BY <1>1 DEF Deposit, RowsGrow, TypeOK, UnderWay, Funding
<1>3. at[r] \in exists' /\ balance[at[r]] = 0 /\ Balance[at[r]] \in Nat
  BY <1>1, <1>2, Places DEF FundedByInserter
<1>4. PICK l \in {"check", "count_artifacts"}, a \in DOMAIN Accounts :
            MovesTo(r, l, a) /\ Progress(r)'
  BY <1>1, <1>2, <1>3, NextAccountMoves
<1>5. /\ balance' \in [DOMAIN Accounts -> Nat]
      /\ balance'[at[r]] = Balance[at[r]]
      /\ \A i \in DOMAIN Accounts \ {at[r]} : balance'[i] = balance[i]
  BY <1>1, <1>2, <1>3 DEF TypeOK
<1>6. TypeOK'
  BY <1>1, <1>2, <1>4, <1>5, Moved DEF TypeOK, RowsGrow
<1>7. \A q \in Runs : Progress(q)'
  BY <1>2, <1>4, ProgressKept DEF IInv
<1>8. CountsHold' /\ SeededOnce' /\ WholeBatches'
  BY <1>2, <1>4, CountsKept DEF IInv
<1>9. DepositedOnce'
  BY <1>1, <1>5 DEF DepositedOnce
<1>10. FundedByInserter'
  <2>1. \A q \in Runs : Funding(q)' => q # r /\ Funding(q) /\ at'[q] = at[q]
    BY <1>1, <1>4, Moved DEF Funding
  <2>2. \A q \in Runs : Funding(q)' => at[q] # at[r] /\ at[q] \in DOMAIN Accounts
    BY <1>1, <1>2, <2>1 DEF FundedByInserter, TypeOK
  <2> QED
    BY <1>1, <1>2, <1>3, <1>5, <2>1, <2>2 DEF FundedByInserter
<1>11. Funded'
  <2> SUFFICES ASSUME NEW i \in exists' PROVE balance'[i] = Balance[i] \/ Pending(i)'
    BY DEF Funded
  <2>1. CASE i = at[r]
    BY <1>5, <2>1
  <2>2. CASE i # at[r] /\ balance[i] = Balance[i]
    BY <1>1, <1>2, <1>5, <2>2 DEF TypeOK
  <2>3. CASE i # at[r] /\ Pending(i)
    <3>1. PICK q \in Runs : at[q] = i /\ pc[q] \in {"find", "deposit", "stopped"}
      BY <2>3 DEF Pending
    <3> QED
      BY <1>1, <1>4, <2>3, <3>1, Moved DEF Pending
  <2> QED
    BY <1>2, <2>1, <2>2, <2>3 DEF IInv, Funded
<1> QED
  BY <1>6, <1>7, <1>8, <1>9, <1>10, <1>11 DEF IInv

\* The artifacts are counted, written if there are none, and the same for the
\* auction.
LEMMA CountingSafe ==
    ASSUME IInv, NEW r \in Runs,
           CountArtifacts(r) \/ AddArtifacts(r) \/ CountAuctions(r) \/ AddAuction(r)
    PROVE  IInv'
<1>1. /\ TypeOK /\ Progress(r) /\ FundedByInserter /\ DepositedOnce
      /\ CountsHold /\ SeededOnce /\ WholeBatches
  BY DEF IInv
<1>2. /\ UNCHANGED <<exists, balance, at, overlapped>> /\ UnderWay(r)
      /\ artifacts \in Nat /\ auctions \in Nat /\ Artifacts \in Nat \ {0}
      /\ at[r] \in DOMAIN Accounts
  BY <1>1, Places DEF TypeOK, UnderWay, CountArtifacts, AddArtifacts, CountAuctions,
                      AddAuction, dbVars
<1>3. \E l \in Labels : /\ MovesTo(r, l, at[r]) /\ RowsGrow /\ Progress(r)'
                        /\ l \notin {"find", "deposit"}
                        /\ CountsHold' /\ SeededOnce' /\ WholeBatches'
  <2>1. CASE CountArtifacts(r)
    <3>1. UNCHANGED <<artifacts, auctions>> /\ RowsGrow /\ pc[r] = "count_artifacts"
      BY <1>1, <1>2, <2>1 DEF CountArtifacts, dbVars, RowsGrow, TypeOK
    <3>2. CASE artifacts = 0
      <4>1. MovesTo(r, "add_artifacts", at[r])
        BY <1>1, <1>2, <2>1, <3>2 DEF CountArtifacts, Goto, MovesTo, TypeOK, Labels
      <4>2. Progress(r)'
        BY <1>1, <1>2, <3>1, <4>1, Moved DEF Progress
      <4>3. \A q \in Runs : /\ UnderWay(q)' => UnderWay(q)
                            /\ pc'[q] = "add_auction" => pc[q] = "add_auction"
        BY <1>1, <1>2, <4>1, Moved DEF UnderWay
      <4>4. CountsHold' /\ SeededOnce' /\ WholeBatches'
        BY <1>1, <1>2, <3>1, <3>2, <4>3 DEF CountsHold, SeededOnce, WholeBatches
      <4> QED
        BY <3>1, <4>1, <4>2, <4>4 DEF MovesTo
    <3>3. CASE artifacts # 0
      <4>1. MovesTo(r, "count_auctions", at[r])
        BY <1>1, <1>2, <2>1, <3>3 DEF CountArtifacts, Goto, MovesTo, TypeOK, Labels
      <4>2. Progress(r)'
        BY <1>1, <1>2, <3>1, <3>3, <4>1, Moved DEF Progress, WholeBatches
      <4>3. CountsHold' /\ SeededOnce' /\ WholeBatches'
        BY <1>1, <1>2, <3>1, <4>1, CountsKept
      <4> QED
        BY <3>1, <4>1, <4>2, <4>3 DEF MovesTo
    <3> QED
      BY <3>2, <3>3
  <2>2. CASE AddArtifacts(r)
    <3>1. /\ artifacts' = artifacts + Artifacts /\ auctions' = auctions
          /\ RowsGrow /\ pc[r] = "add_artifacts"
      BY <1>1, <1>2, <2>2 DEF AddArtifacts, RowsGrow, TypeOK
    <3>2. MovesTo(r, "count_auctions", at[r])
      BY <1>1, <1>2, <2>2 DEF AddArtifacts, Goto, MovesTo, TypeOK, Labels
    <3>3. Progress(r)'
      BY <1>1, <1>2, <3>1, <3>2, Moved DEF Progress
    <3>4. ~ overlapped' => artifacts = 0 /\ \A q \in Runs : UnderWay(q)' => q = r
      BY <1>1, <1>2, <3>1, <3>2, Moved DEF CountsHold, UnderWay
    <3>5. \A q \in Runs : UnderWay(q)' /\ q = r => pc'[q] = "count_auctions"
      BY <1>1, <3>2, Moved
    <3>6. \A q \in Runs : pc'[q] \in {"add_artifacts", "add_auction"} => UnderWay(q)'
      BY DEF UnderWay
    <3>7. CountsHold'
      BY <3>4, <3>5, <3>6 DEF CountsHold
    <3>8. SeededOnce' /\ WholeBatches'
      BY <1>1, <1>2, <3>1, <3>4 DEF SeededOnce, WholeBatches
    <3> QED
      BY <3>1, <3>2, <3>3, <3>7, <3>8 DEF MovesTo
  <2>3. CASE CountAuctions(r)
    <3>1. UNCHANGED <<artifacts, auctions>> /\ RowsGrow /\ pc[r] = "count_auctions"
      BY <1>1, <1>2, <2>3 DEF CountAuctions, dbVars, RowsGrow, TypeOK
    <3>2. CASE auctions = 0
      <4>1. MovesTo(r, "add_auction", at[r])
        BY <1>1, <1>2, <2>3, <3>2 DEF CountAuctions, Goto, MovesTo, TypeOK, Labels
      <4>2. Progress(r)'
        BY <1>1, <1>2, <3>1, <4>1, Moved DEF Progress
      <4>3. \A q \in Runs : /\ UnderWay(q)' => UnderWay(q)
                            /\ pc'[q] = "add_artifacts" => pc[q] = "add_artifacts"
        BY <1>1, <1>2, <4>1, Moved DEF UnderWay
      <4>4. CountsHold' /\ SeededOnce' /\ WholeBatches'
        BY <1>1, <1>2, <3>1, <3>2, <4>3 DEF CountsHold, SeededOnce, WholeBatches
      <4> QED
        BY <3>1, <4>1, <4>2, <4>4 DEF MovesTo
    <3>3. CASE auctions # 0
      <4>1. MovesTo(r, "finished", at[r])
        BY <1>1, <1>2, <2>3, <3>3 DEF CountAuctions, Goto, MovesTo, TypeOK, Labels
      <4>2. Progress(r)'
        BY <1>1, <1>2, <3>1, <3>3, <4>1, Moved DEF Progress
      <4>3. CountsHold' /\ SeededOnce' /\ WholeBatches'
        BY <1>1, <1>2, <3>1, <4>1, CountsKept
      <4> QED
        BY <3>1, <4>1, <4>2, <4>3 DEF MovesTo
    <3> QED
      BY <3>2, <3>3
  <2>4. CASE AddAuction(r)
    <3>1. /\ auctions' = auctions + 1 /\ artifacts' = artifacts
          /\ RowsGrow /\ pc[r] = "add_auction"
      BY <1>1, <1>2, <2>4 DEF AddAuction, RowsGrow, TypeOK
    <3>2. MovesTo(r, "finished", at[r])
      BY <1>1, <1>2, <2>4 DEF AddAuction, Goto, MovesTo, TypeOK, Labels
    <3>3. Progress(r)'
      BY <1>1, <1>2, <3>1, <3>2, Moved DEF Progress
    <3>4. ~ overlapped' => auctions = 0 /\ \A q \in Runs : ~ UnderWay(q)'
      BY <1>1, <1>2, <3>1, <3>2, Moved DEF CountsHold, UnderWay
    <3>5. \A q \in Runs : pc'[q] \in {"add_artifacts", "add_auction"} => UnderWay(q)'
      BY DEF UnderWay
    <3>6. CountsHold'
      BY <3>4, <3>5 DEF CountsHold
    <3>7. SeededOnce' /\ WholeBatches'
      BY <1>1, <1>2, <3>1, <3>4 DEF SeededOnce, WholeBatches
    <3> QED
      BY <3>1, <3>2, <3>3, <3>6, <3>7 DEF MovesTo
  <2> QED
    BY <2>1, <2>2, <2>3, <2>4
<1>4. PICK l \in Labels : /\ MovesTo(r, l, at[r]) /\ RowsGrow /\ Progress(r)'
                          /\ l \notin {"find", "deposit"}
                          /\ CountsHold' /\ SeededOnce' /\ WholeBatches'
  BY <1>3
<1>5. TypeOK'
  BY <1>1, <1>2, <1>4, Moved DEF TypeOK, RowsGrow
<1>6. \A q \in Runs : Progress(q)'
  BY <1>4, ProgressKept DEF IInv
<1>7. FundedByInserter' /\ DepositedOnce'
  BY <1>1, <1>2, <1>4, FundingKept
<1>8. Funded'
  <2>1. ~ Funding(r)
    BY DEF Funding, CountArtifacts, AddArtifacts, CountAuctions, AddAuction
  <2> QED
    BY <1>1, <1>2, <1>4, <2>1, FundedKept DEF IInv
<1> QED
  BY <1>4, <1>5, <1>6, <1>7, <1>8 DEF IInv

\* An interrupted run leaves what it has committed.
LEMMA StopSafe == ASSUME IInv, NEW r \in Runs, Stop(r) PROVE IInv'
<1>1. TypeOK /\ Progress(r)
  BY DEF IInv
<1>2. /\ UNCHANGED <<exists, balance, artifacts, auctions, overlapped>>
      /\ RowsGrow /\ UnderWay(r) /\ MovesTo(r, "stopped", at[r])
  BY <1>1 DEF Stop, dbVars, RowsGrow, TypeOK, Goto, MovesTo, Labels
<1>3. Progress(r)'
  BY <1>1, <1>2, Moved DEF Progress
<1>4. \A q \in Runs : pc[q] \in {"find", "deposit", "stopped"} =>
          pc'[q] \in {"find", "deposit", "stopped"} /\ at'[q] = at[q]
  BY <1>1, <1>2, Moved
<1>5. Funded'
  <2> SUFFICES ASSUME NEW i \in exists' PROVE balance'[i] = Balance[i] \/ Pending(i)'
    BY DEF Funded
  <2> QED
    BY <1>2, <1>4 DEF IInv, Funded, Pending
<1> QED
  BY <1>2, <1>3, <1>5, LookingSafe

\* Every step of any run keeps the invariant.
LEMMA NextInvariant == IInv /\ [Next]_vars => IInv'
<1> SUFFICES ASSUME IInv, [Next]_vars PROVE IInv'
  OBVIOUS
<1>1. CASE UNCHANGED vars
  <2>1. TypeOK' /\ DepositedOnce' /\ FundedByInserter'
    BY <1>1 DEF vars, dbVars, IInv, TypeOK, DepositedOnce, FundedByInserter, Funding
  <2>2. (\A r \in Runs : Progress(r)') /\ WholeBatches' /\ CountsHold' /\ SeededOnce'
    BY <1>1 DEF vars, dbVars, IInv, Progress, WholeBatches, CountsHold, UnderWay,
                SeededOnce
  <2>3. Funded'
    BY <1>1 DEF vars, dbVars, IInv, Funded, Pending
  <2> QED
    BY <2>1, <2>2, <2>3 DEF IInv
<1>2. ASSUME NEW r \in Runs,
             \/ Start(r) \/ Check(r) \/ Insert(r) \/ Find(r) \/ Deposit(r)
             \/ CountArtifacts(r) \/ AddArtifacts(r) \/ CountAuctions(r) \/ AddAuction(r)
             \/ Stop(r)
      PROVE  IInv'
  BY <1>2, StartSafe, CheckSafe, InsertSafe, FindSafe, DepositSafe, CountingSafe, StopSafe
<1> QED
  BY <1>1, <1>2 DEF Next

\* Every reachable state satisfies it.
LEMMA Invariant == Spec => []IInv
  BY InitInvariant, NextInvariant, PTL DEF Spec

-----------------------------------------------------------------------------
(* The theorems *)

\* No demo user gets his balance twice, however many runs overlap or stop half
\* way: the deposit belongs to the run whose INSERT succeeded (cli.py, seed_demo).
THEOREM NeverDepositedTwice == Spec => []DepositedOnce
<1>1. IInv => DepositedOnce
  BY DEF IInv
<1> QED
  BY <1>1, Invariant, PTL

\* The demo is complete once a run whose password was accepted has finished, whatever
\* the others did; what is missing of a balance is a stopped or an unfinished run's.
THEOREM FinishedRunsSeed == Spec => []FinishedMeansSeeded
<1>1. IInv => FinishedMeansSeeded
  BY DEF IInv, Funded, Progress, FinishedMeansSeeded
<1> QED
  BY <1>1, Invariant, PTL

\* Runs that do not overlap seed artifacts and auction once.
THEOREM NeverSeededTwice == Spec => []SeededOnce
<1>1. IInv => SeededOnce
  BY DEF IInv
<1> QED
  BY <1>1, Invariant, PTL
=============================================================================
