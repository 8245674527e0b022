---------------------------- MODULE AccountsProofs ----------------------------
(***************************************************************************)
(* Theorems about Accounts, for any ids, names, requests and bodies: the   *)
(* table keeps its constraints, and every change of it was asked for by    *)
(* somebody who could.                                                    *)
(***************************************************************************)
EXTENDS Accounts, TLAPS

WithToken == {"profile", "deposit", "patch"}

\* Where a request is tells what kind it is and what its session holds.
Stages == \A p \in Requests :
    /\ pc[p] = "insert" => body[p].kind = "register"
    /\ pc[p] = "verify" => body[p].kind = "login"
    /\ pc[p] \in {"load", "write"} => body[p].kind \in WithToken
    /\ pc[p] = "write" => Exists(body[p].target) /\ loaded[p] # None
    /\ pc[p] \in {"load", "write"} /\ body[p].kind = "patch" =>
           body[p].target # body[p].token
    /\ answer[p] # "none" => pc[p] = "done"
    /\ answer[p] = "ok" /\ body[p].kind = "patch" => body[p].target # body[p].token
    /\ pc[p] \in {"load", "write"} => Exists(body[p].token)

\* Rows stay; an id not given out has no deposits.
RowsStay == \A u \in Users :
    /\ InitialTable[u] # None => Exists(u)
    /\ ~ Exists(u) => deposited[u] = 0

\* A patch that was let in.
LetIn(p) == body[p].kind = "patch" /\ (pc[p] \in {"load", "write"} \/ answer[p] = "ok")

\* A patch was let in for somebody who was an administrator then: he is in every
\* set that AdminsComeFromAdmins speaks of.
PatchersWereAdmins ==
    \A G \in SUBSET Users :
        ClosedUnderPromotion(G) => \A p \in Requests : LetIn(p) => body[p].token \in G

IInv == /\ TypeOK /\ Stages /\ RowsStay /\ UniqueAccounts
        /\ BalanceIsDeposits /\ AdminsComeFromAdmins /\ PatchersWereAdmins

-----------------------------------------------------------------------------
(* Types *)

\* What the kind of a body says of its fields.
LEMMA BodyKinds ==
    ASSUME TypeOK, NEW p \in Requests
    PROVE  /\ body[p].kind \in {"register", "login"} \cup WithToken
           /\ body[p].kind = "register" =>
                  /\ body[p].name \in Names /\ body[p].email \in Emails
                  /\ body[p].secret \in Secrets /\ body[p].role \in Roles
           /\ body[p].kind \in WithToken =>
                  body[p].token \in Users /\ body[p].target \in Users
           /\ body[p].kind = "profile" =>
                  /\ body[p].email \in Emails \cup {None}
                  /\ body[p].secret \in Secrets \cup {None}
           /\ body[p].kind = "deposit" => body[p].amount \in 1 .. MaxBalance
           /\ body[p].kind = "patch" =>
                  /\ body[p].role \in Roles \cup {None}
                  /\ body[p].active \in BOOLEAN \cup {None}
<1>1. body[p] \in Body
  BY AccountsAssumption DEF TypeOK
<1>2. CASE body[p] \in RegisterBody
  BY <1>2 DEF RegisterBody, WithToken
<1>3. CASE body[p] \in LoginBody
  BY <1>3 DEF LoginBody, WithToken
<1>4. CASE body[p] \in ProfileBody
  BY <1>4 DEF ProfileBody, WithToken
<1>5. CASE body[p] \in DepositBody
  BY <1>5 DEF DepositBody, WithToken
<1>6. CASE body[p] \in PatchBody
  BY <1>6 DEF PatchBody, WithToken
<1> QED
  BY <1>1, <1>2, <1>3, <1>4, <1>5, <1>6 DEF Body

\* A step is that of one request that has not ended.
LEMMA Frame ==
    ASSUME TypeOK, NEW p \in Requests, Step(p)
    PROVE  /\ pc[p] # "done"
           /\ body' = body
           /\ pc' \in [Requests -> Labels] /\ answer' \in [Requests -> Answers]
           /\ answer'[p] = answer[p] \/ pc'[p] = "done"
           /\ \A q \in Requests \ {p} :
                 pc'[q] = pc[q] /\ answer'[q] = answer[q] /\ loaded'[q] = loaded[q]
<1> USE DEF TypeOK
<1>1. ASSUME NEW label \in Labels, Goto(p, label) 
      PROVE  pc' \in [Requests -> Labels] /\ \A q \in Requests \ {p} : pc'[q] = pc[q]
  BY <1>1 DEF Goto
<1>2. ASSUME NEW result \in Answers, Finish(p, result)
      PROVE  /\ pc' \in [Requests -> Labels] /\ answer' \in [Requests -> Answers]
             /\ pc'[p] = "done"
             /\ \A q \in Requests \ {p} : pc'[q] = pc[q] /\ answer'[q] = answer[q]
  BY <1>2 DEF Finish, Goto, Labels
<1>3. /\ "insert" \in Labels /\ "verify" \in Labels /\ "load" \in Labels
      /\ "write" \in Labels /\ "done" \in Labels
      /\ "conflict" \in Answers /\ "created" \in Answers /\ "unauthorized" \in Answers
      /\ "forbidden" \in Answers /\ "token" \in Answers /\ "not_found" \in Answers
      /\ "ok" \in Answers /\ "error" \in Answers /\ "own_role" \in Answers
  BY DEF Labels, Answers
<1>4. CASE CheckFree(p)
  BY <1>1, <1>2, <1>3, <1>4 DEF CheckFree
<1>5. CASE Insert(p)
  BY <1>1, <1>2, <1>3, <1>5 DEF Insert
<1>6. CASE Lookup(p)
  BY <1>1, <1>2, <1>3, <1>6 DEF Lookup
<1>7. CASE Verify(p)
  BY <1>1, <1>2, <1>3, <1>7 DEF Verify
<1>8. CASE Authenticate(p)
  <2>1. PICK id \in Decoded(p) :
           LET denial == IF id = None THEN "unauthorized" ELSE Denial(body[p], table[id])
           IN \/ denial # "none" /\ Finish(p, denial) /\ UNCHANGED loaded
              \/ denial = "none" /\ Goto(p, "load") /\ UNCHANGED <<loaded, answer>>
              \/ /\ denial = "none" /\ loaded' = [loaded EXCEPT ![p] = table[id]]
                 /\ Goto(p, "write") /\ UNCHANGED answer
    BY <1>8 DEF Authenticate
  <2>2. Denial(body[p], table[id]) \in {"forbidden", "own_role", "none"}
    BY DEF Denial
  <2> QED
    BY <1>1, <1>2, <1>3, <1>8, <2>1, <2>2 DEF Authenticate
<1>9. CASE Load(p)
  BY <1>1, <1>2, <1>3, <1>9 DEF Load
<1>10. CASE CommitProfile(p)
  BY <1>1, <1>2, <1>3, <1>10 DEF CommitProfile
<1>11. CASE CommitDeposit(p)
  BY <1>1, <1>2, <1>3, <1>11 DEF CommitDeposit
<1>12. CASE CommitPatch(p)
  BY <1>1, <1>2, <1>3, <1>12 DEF CommitPatch
<1> QED
  BY <1>4, <1>5, <1>6, <1>7, <1>8, <1>9, <1>10, <1>11, <1>12 DEF Step

-----------------------------------------------------------------------------
(* What the steps do to the table *)

Unchanged == table' = table /\ deposited' = deposited

Added(p, u) ==
    /\ body[p].kind = "register" /\ pc[p] = "insert"
    /\ ~ Exists(u) /\ ~ Taken(body[p].name, body[p].email)
    /\ NewRow(body[p]) \in Row
    /\ table' = [table EXCEPT ![u] = NewRow(body[p])]
    /\ answer' = [answer EXCEPT ![p] = "created"]
    /\ deposited' = deposited

\* A commit of a session with a token to the row of its target.
Commits(p, row) ==
    /\ pc[p] = "write" /\ pc'[p] = "done" /\ answer' = [answer EXCEPT ![p] = "ok"]
    /\ Exists(body[p].target)
    /\ table' = [table EXCEPT ![body[p].target] = row]

Profiled(p, email, secret) ==
    LET u == body[p].target
    IN /\ body[p].kind = "profile"
       /\ email \in Emails /\ email \in {table[u].email, body[p].email}
       /\ secret \in Secrets /\ secret \in {table[u].secret, body[p].secret}
       /\ \A v \in Users \ {u} : Exists(v) => table[v].email # email
       /\ Commits(p, [table[u] EXCEPT !.email = email, !.secret = secret])
       /\ deposited' = deposited

Paid(p) ==
    LET u == body[p].target
    IN /\ body[p].kind = "deposit"
       /\ body[p].amount \in 1 .. MaxBalance
       /\ table[u].balance + body[p].amount <= MaxBalance
       /\ Commits(p, [table[u] EXCEPT !.balance = @ + body[p].amount])
       /\ deposited' = [deposited EXCEPT ![u] = @ + body[p].amount]

Patched(p, role, active) ==
    LET u == body[p].target
    IN /\ body[p].kind = "patch"
       /\ role \in Roles /\ role \in {table[u].role, body[p].role}
       /\ active \in BOOLEAN /\ active \in {table[u].active, body[p].active}
       /\ Commits(p, [table[u] EXCEPT !.role = role, !.active = active])
       /\ deposited' = deposited

\* An INSERT adds a row that collides with none.
LEMMA InsertFacts ==
    ASSUME TypeOK, Stages, NEW p \in Requests, Insert(p)
    PROVE  Unchanged \/ \E u \in Users : Added(p, u)
<1>1. body[p].kind = "register"
  BY DEF Insert, Stages
<1>2. NewRow(body[p]) \in Row
  BY <1>1, BodyKinds, AccountsAssumption DEF NewRow, Row
<1>3. answer \in [Requests -> Answers]
  BY DEF TypeOK
<1> QED
  BY <1>1, <1>2, <1>3 DEF Insert, Violates, Added, Unchanged, Finish

\* The commit of a profile update writes what it was given and keeps e-mails unique.
LEMMA ProfileFacts ==
    ASSUME TypeOK, Stages, NEW p \in Requests, CommitProfile(p)
    PROVE  Unchanged \/ \E email, secret : Profiled(p, email, secret)
<1> DEFINE u == body[p].target
           secret == IF body[p].secret = None THEN table[u].secret ELSE body[p].secret
<1>1. /\ u \in Users /\ body[p].email \in Emails \cup {None}
      /\ body[p].secret \in Secrets \cup {None}
  BY BodyKinds DEF CommitProfile, WithToken
<1>2. table[u] \in Row /\ table[u] # None
  BY <1>1 DEF TypeOK, Stages, CommitProfile, Exists
<1>3. table[u].email \in Emails /\ table[u].secret \in Secrets
  BY <1>2 DEF Row
<1>4. NewEmail(p) \in Emails /\ NewEmail(p) \in {table[u].email, body[p].email}
  BY <1>1, <1>3 DEF NewEmail, Written
<1>5. secret \in Secrets /\ secret \in {table[u].secret, body[p].secret}
  BY <1>1, <1>3
<1>6. CASE EmailInUse(p)
  BY <1>6 DEF CommitProfile, Unchanged
<1>7. CASE ~ EmailInUse(p)
  <2>1. \A v \in Users \ {u} : Exists(v) => table[v].email # NewEmail(p)
    BY <1>7 DEF EmailInUse
  <2>2. table \in [Users -> Row \cup {None}] /\ answer \in [Requests -> Answers]
        /\ pc \in [Requests -> Labels]
    BY DEF TypeOK
  <2>3. table' = [table EXCEPT ![u] = [table[u] EXCEPT !.email = NewEmail(p), !.secret = secret]]
    <3>1. table' = [table EXCEPT ![u].email = NewEmail(p), ![u].secret = secret]
      BY <1>7 DEF CommitProfile
    <3> HIDE DEF secret
    <3> QED
      BY <1>1, <1>2, <2>2, <3>1 DEF Row
  <2>4. /\ body[p].kind = "profile" /\ pc[p] = "write" /\ pc'[p] = "done"
        /\ answer' = [answer EXCEPT ![p] = "ok"] /\ deposited' = deposited
    BY <1>7, <2>2 DEF CommitProfile, Finish, Goto
  <2>5. Profiled(p, NewEmail(p), secret)
    BY <1>2, <1>4, <1>5, <2>1, <2>3, <2>4 DEF Profiled, Commits, Exists
  <2> QED
    BY <2>5
<1> QED
  BY <1>6, <1>7

\* The commit of a deposit adds to the balance of the row as it is then.
LEMMA DepositFacts ==
    ASSUME TypeOK, Stages, NEW p \in Requests, CommitDeposit(p)
    PROVE  Unchanged \/ Paid(p)
<1> DEFINE u == body[p].target
<1>1. u \in Users /\ body[p].amount \in 1 .. MaxBalance
  BY BodyKinds DEF CommitDeposit, WithToken
<1>2. Exists(u)
  BY DEF Stages, CommitDeposit
<1>3. CASE Sum(p) > MaxBalance /\ UNCHANGED <<table, deposited>>
  BY <1>3 DEF Unchanged
<1>4. CASE Sum(p) <= MaxBalance /\ table' = [table EXCEPT ![u].balance = Sum(p)]
           /\ deposited' = [deposited EXCEPT ![u] = @ + body[p].amount] /\ Finish(p, "ok")
  BY <1>1, <1>2, <1>4 DEF CommitDeposit, Paid, Commits, Sum, Finish, Goto, TypeOK
<1> QED
  BY <1>3, <1>4 DEF CommitDeposit

\* The commit of a patch writes only the columns that were asked for.
LEMMA PatchFacts ==
    ASSUME TypeOK, Stages, NEW p \in Requests, CommitPatch(p)
    PROVE  \E role, active : Patched(p, role, active)
<1> DEFINE u == body[p].target
           role == Written(body[p].role, loaded[p].role, table[u].role)
           active == Written(body[p].active, loaded[p].active, table[u].active)
<1>1. /\ u \in Users /\ body[p].role \in Roles \cup {None}
      /\ body[p].active \in BOOLEAN \cup {None}
  BY BodyKinds DEF CommitPatch, WithToken
<1>2. Exists(u) /\ table[u] \in Row
  BY <1>1 DEF TypeOK, Stages, CommitPatch, Exists
<1>3. table[u].role \in Roles /\ table[u].active \in BOOLEAN
  BY <1>2 DEF Row
<1>4. role \in Roles /\ role \in {table[u].role, body[p].role}
  BY <1>1, <1>3 DEF Written
<1>5. active \in BOOLEAN /\ active \in {table[u].active, body[p].active}
  BY <1>1, <1>3 DEF Written
<1>6. table' = [table EXCEPT ![u].role = role, ![u].active = active]
  BY <1>1, <1>2 DEF CommitPatch, TypeOK, Row
<1> HIDE DEF role, active
<1>7. table' = [table EXCEPT ![u] = [table[u] EXCEPT !.role = role, !.active = active]]
  BY <1>1, <1>2, <1>6 DEF TypeOK, Row
<1>8. /\ body[p].kind = "patch" /\ pc[p] = "write" /\ pc'[p] = "done"
      /\ answer' = [answer EXCEPT ![p] = "ok"] /\ deposited' = deposited
  BY DEF CommitPatch, Finish, Goto, TypeOK
<1>9. Patched(p, role, active)
  BY <1>2, <1>4, <1>5, <1>7, <1>8 DEF Patched, Commits
<1> QED
  BY <1>9

\* Every step leaves the table alone, adds a row, or commits to one.
LEMMA TableSteps ==
    ASSUME TypeOK, Stages, NEW p \in Requests, Step(p)
    PROVE  \/ Unchanged
           \/ \E u \in Users : Added(p, u)
           \/ \E email, secret : Profiled(p, email, secret)
           \/ Paid(p)
           \/ \E role, active : Patched(p, role, active)
<1>1. CASE CheckFree(p) \/ Lookup(p) \/ Verify(p) \/ Authenticate(p) \/ Load(p)
  BY <1>1 DEF CheckFree, Lookup, Verify, Authenticate, Load, Unchanged
<1> QED
  BY <1>1, InsertFacts, ProfileFacts, DepositFacts, PatchFacts DEF Step

-----------------------------------------------------------------------------
(* The invariant *)

\* The initial table has its constraints and no request has done anything.
LEMMA InitInvariant == Init => IInv
<1> SUFFICES ASSUME Init PROVE IInv
  OBVIOUS
<1> USE DEF Init
<1>1. \A u \in Users : Exists(u) => table[u] \in Row /\ table[u].balance \in Nat
  BY AccountsAssumption DEF Exists, Row
<1>2. deposited \in [Users -> Nat]
  BY <1>1
<1>3. TypeOK
  BY <1>2, AccountsAssumption DEF TypeOK, Labels, Answers
<1>4. Stages
  BY DEF Stages, WithToken
<1>5. UniqueAccounts
  BY AccountsAssumption DEF UniqueAccounts, Exists
<1>6. AdminsComeFromAdmins /\ PatchersWereAdmins
  BY DEF AdminsComeFromAdmins, PatchersWereAdmins, ClosedUnderPromotion, OriginalAdmin,
     LetIn, Exists
<1> QED
  BY <1>3, <1>4, <1>5, <1>6 DEF IInv, RowsStay, BalanceIsDeposits, Exists

\* Rows keep their types, whatever is added or committed.
LEMMA StepTyped ==
    ASSUME TypeOK, Stages, NEW p \in Requests, Step(p)
    PROVE  TypeOK'
<1> USE DEF TypeOK
<1>1. table' \in [Users -> Row \cup {None}] /\ deposited' \in [Users -> Nat]
  <2>1. CASE Unchanged
    BY <2>1 DEF Unchanged
  <2>2. ASSUME NEW u \in Users, Added(p, u)
        PROVE  table' \in [Users -> Row \cup {None}] /\ deposited' \in [Users -> Nat]
    BY <2>2 DEF Added
  <2>3. ASSUME Exists(body[p].target), body[p].target \in Users
        PROVE  table[body[p].target] \in Row
    BY <2>3 DEF Exists
  <2>4. ASSUME NEW email, NEW secret, Profiled(p, email, secret)
        PROVE  table' \in [Users -> Row \cup {None}] /\ deposited' \in [Users -> Nat]
    BY <2>3, <2>4, BodyKinds DEF Profiled, Commits, Row, WithToken
  <2>5. CASE Paid(p)
    <3>1. PICK u \in Users : u = body[p].target
      BY <2>5, BodyKinds DEF Paid, WithToken
    <3>2. table[u] \in Row /\ table[u].balance \in Nat /\ MaxBalance \in Nat
      BY <2>3, <2>5, <3>1, AccountsAssumption DEF Paid, Commits, Row
    <3>3. /\ table[u].balance + body[p].amount \in 0 .. MaxBalance
          /\ deposited[u] + body[p].amount \in Nat
      BY <2>5, <3>1, <3>2 DEF Paid
    <3>4. [table[u] EXCEPT !.balance = @ + body[p].amount] \in Row
      BY <3>2, <3>3 DEF Row
    <3> QED
      BY <2>5, <3>1, <3>3, <3>4 DEF Paid, Commits
  <2>6. ASSUME NEW role, NEW active, Patched(p, role, active)
        PROVE  table' \in [Users -> Row \cup {None}] /\ deposited' \in [Users -> Nat]
    BY <2>3, <2>6, BodyKinds DEF Patched, Commits, Row, WithToken
  <2> QED
    BY <2>1, <2>2, <2>4, <2>5, <2>6, TableSteps
<1>2. loaded' \in [Requests -> Row \cup {None}]
  <2>1. CASE Lookup(p)
    BY <2>1 DEF Lookup
  <2>2. CASE Load(p)
    BY <2>2, BodyKinds DEF Load, WithToken, Stages
  <2>3. CASE Authenticate(p)
    <3>1. body[p].target \in Users
      BY <2>3, BodyKinds DEF Authenticate, WithToken
    <3>2. PICK id : loaded' = loaded \/ (body[p].target = id /\ loaded' = [loaded EXCEPT ![p] = table[id]])
      BY <2>3 DEF Authenticate
    <3> QED
      BY <3>1, <3>2
  <2> QED
    BY <2>1, <2>2, <2>3 DEF Step, CheckFree, Insert, Verify, CommitProfile, CommitDeposit,
       CommitPatch
<1> QED
  BY <1>1, <1>2, Frame

\* What an existing row keeps through a step, and where a new one comes from.
LEMMA RowsKept ==
    ASSUME TypeOK, Stages, NEW p \in Requests, Step(p), NEW v \in Users, Exists(v)
    PROVE  Exists(v)' /\ table'[v].name = table[v].name
<1> USE DEF TypeOK
<1>0. table[v] \in Row /\ None \notin Row
  BY AccountsAssumption DEF Exists
<1>1. CASE Unchanged
  BY <1>1 DEF Unchanged, Exists
<1>2. ASSUME NEW u \in Users, Added(p, u)
      PROVE  Exists(v)' /\ table'[v].name = table[v].name
  BY <1>2 DEF Added, Exists
<1>3. ASSUME NEW row, Commits(p, row),
             v = body[p].target => row \in Row /\ row.name = table[v].name
      PROVE  Exists(v)' /\ table'[v].name = table[v].name
  BY <1>0, <1>3 DEF Commits, Exists
<1>4. ASSUME NEW email, NEW secret, Profiled(p, email, secret)
      PROVE  Exists(v)' /\ table'[v].name = table[v].name
  <2>1. v = body[p].target => /\ [table[v] EXCEPT !.email = email, !.secret = secret] \in Row
                              /\ [table[v] EXCEPT !.email = email, !.secret = secret].name
                                 = table[v].name
    BY <1>0, <1>4 DEF Profiled, Row
  <2> QED
    BY <1>3, <1>4, <2>1 DEF Profiled
<1>5. CASE Paid(p)
  <2>1. v = body[p].target => table[v].balance + body[p].amount \in 0 .. MaxBalance
    BY <1>0, <1>5, AccountsAssumption DEF Paid, Row
  <2>2. v = body[p].target => /\ [table[v] EXCEPT !.balance = @ + body[p].amount] \in Row
                              /\ [table[v] EXCEPT !.balance = @ + body[p].amount].name
                                 = table[v].name
    BY <1>0, <2>1 DEF Row
  <2> QED
    BY <1>3, <1>5, <2>2 DEF Paid
<1>6. ASSUME NEW role, NEW active, Patched(p, role, active)
      PROVE  Exists(v)' /\ table'[v].name = table[v].name
  <2>1. v = body[p].target => /\ [table[v] EXCEPT !.role = role, !.active = active] \in Row
                              /\ [table[v] EXCEPT !.role = role, !.active = active].name
                                 = table[v].name
    BY <1>0, <1>6 DEF Patched, Row
  <2> QED
    BY <1>3, <1>6, <2>1 DEF Patched
<1> QED
  BY <1>1, <1>2, <1>4, <1>5, <1>6, TableSteps

\* Names and e-mails stay unique.
LEMMA StepUnique ==
    ASSUME TypeOK, Stages, UniqueAccounts, NEW p \in Requests, Step(p)
    PROVE  UniqueAccounts'
<1> USE DEF TypeOK
<1>0. \A v \in Users : Exists(v) => table[v] \in Row
  BY DEF Exists
<1>1. CASE Unchanged
  BY <1>1 DEF Unchanged, UniqueAccounts, Exists
<1>2. ASSUME NEW u \in Users, Added(p, u) PROVE UniqueAccounts'
  <2>1. /\ table'[u].name = body[p].name /\ table'[u].email = body[p].email
        /\ \A v \in Users \ {u} : table'[v] = table[v]
    BY <1>2 DEF Added, NewRow
  <2>2. \A v \in Users \ {u} : Exists(v) => /\ table[v].name # body[p].name
                                           /\ table[v].email # body[p].email
    BY <1>2 DEF Added, Taken
  <2> QED
    BY <2>1, <2>2 DEF UniqueAccounts, Exists
<1>3. ASSUME NEW email, NEW secret, Profiled(p, email, secret) PROVE UniqueAccounts'
  <2> DEFINE u == body[p].target
  <2>1. u \in Users /\ table[u] \in Row
    BY <1>0, <1>3, BodyKinds DEF Profiled, Commits, WithToken
  <2>2. /\ table'[u].name = table[u].name /\ table'[u].email = email
        /\ \A v \in Users \ {u} : table'[v] = table[v]
    BY <1>3, <2>1 DEF Profiled, Commits, Row
  <2>3. Exists(u) /\ \A v \in Users \ {u} : Exists(v) => table[v].email # email
    BY <1>3 DEF Profiled, Commits
  <2> HIDE DEF u
  <2> QED
    BY <2>1, <2>2, <2>3 DEF UniqueAccounts, Exists
<1>4. ASSUME \A v \in Users : Exists(v)' => /\ Exists(v)
                                           /\ table'[v].name = table[v].name
                                           /\ table'[v].email = table[v].email
      PROVE  UniqueAccounts'
  BY <1>4 DEF UniqueAccounts
<1>5. ASSUME NEW role, NEW active, Patched(p, role, active) PROVE UniqueAccounts'
  <2>1. \A v \in Users : table'[v] = table[v] \/
            (Exists(v) /\ table'[v] = [table[v] EXCEPT !.role = role, !.active = active])
    BY <1>5 DEF Patched, Commits
  <2> QED
    BY <1>0, <1>4, <2>1 DEF Row, Exists
<1>6. CASE Paid(p)
  <2>1. \A v \in Users : table'[v] = table[v] \/
            (Exists(v) /\ table'[v] = [table[v] EXCEPT !.balance = @ + body[p].amount])
    BY <1>6 DEF Paid, Commits
  <2> QED
    BY <1>0, <1>4, <2>1 DEF Row, Exists
<1> QED
  BY <1>1, <1>2, <1>3, <1>5, <1>6, TableSteps

\* Balances stay the sums of deposits, and ids not given out stay without.
LEMMA StepBalance ==
    ASSUME TypeOK, Stages, BalanceIsDeposits, RowsStay, NEW p \in Requests, Step(p)
    PROVE  BalanceIsDeposits' /\ RowsStay'
<1> USE DEF TypeOK
<1>0. \A v \in Users : Exists(v) => table[v] \in Row
  BY DEF Exists
<1>a. \A v \in Users : InitialTable[v] # None => Exists(v)'
  BY RowsKept DEF RowsStay
<1>1. CASE Unchanged
  BY <1>1, <1>a DEF Unchanged, BalanceIsDeposits, RowsStay, Exists
<1>2. ASSUME NEW u \in Users, Added(p, u) PROVE BalanceIsDeposits' /\ RowsStay'
  <2>1. table'[u] = NewRow(body[p]) /\ table'[u].balance = 0 /\ deposited' = deposited
        /\ table'[u] # None
    BY <1>2, AccountsAssumption DEF Added, NewRow
  <2>2. \A v \in Users \ {u} : table'[v] = table[v]
    BY <1>2 DEF Added
  <2>3. deposited[u] = 0
    BY <1>2 DEF Added, RowsStay
  <2> QED
    BY <1>a, <2>1, <2>2, <2>3 DEF BalanceIsDeposits, RowsStay, Exists
<1>3. ASSUME deposited' = deposited,
             \A v \in Users : table'[v] = table[v] \/
                                 (Exists(v) /\ table'[v].balance = table[v].balance)
      PROVE  BalanceIsDeposits' /\ RowsStay'
  <2>1. BalanceIsDeposits'
    BY <1>3 DEF BalanceIsDeposits, Exists
  <2>2. \A v \in Users : ~ Exists(v)' => ~ Exists(v)
    BY RowsKept
  <2> QED
    BY <1>a, <1>3, <2>1, <2>2 DEF RowsStay
<1>4. ASSUME NEW email, NEW secret, Profiled(p, email, secret)
      PROVE  BalanceIsDeposits' /\ RowsStay'
  <2>1. \A v \in Users : table'[v] = table[v] \/
            (Exists(v) /\ table'[v] = [table[v] EXCEPT !.email = email, !.secret = secret])
    BY <1>4 DEF Profiled, Commits
  <2> QED
    BY <1>0, <1>3, <1>4, <2>1 DEF Row, Profiled
<1>5. ASSUME NEW role, NEW active, Patched(p, role, active)
      PROVE  BalanceIsDeposits' /\ RowsStay'
  <2>1. \A v \in Users : table'[v] = table[v] \/
            (Exists(v) /\ table'[v] = [table[v] EXCEPT !.role = role, !.active = active])
    BY <1>5 DEF Patched, Commits
  <2> QED
    BY <1>0, <1>3, <1>5, <2>1 DEF Row, Patched
<1>6. CASE Paid(p)
  <2>0. PICK u \in Users : u = body[p].target
    BY <1>6, BodyKinds DEF Paid, WithToken
  <2>1. Exists(u) /\ table[u] \in Row
    BY <1>0, <1>6, <2>0 DEF Paid, Commits
  <2>2. /\ \A v \in Users \ {u} : table'[v] = table[v] /\ deposited'[v] = deposited[v]
        /\ table'[u].balance = table[u].balance + body[p].amount
        /\ deposited'[u] = deposited[u] + body[p].amount
    BY <1>6, <2>0, <2>1 DEF Paid, Commits, Row
  <2>3. Exists(u)'
    BY <2>1, RowsKept
  <2> QED
    BY <1>a, <2>1, <2>2, <2>3 DEF BalanceIsDeposits, RowsStay, Exists
<1> QED
  BY <1>1, <1>2, <1>4, <1>5, <1>6, TableSteps

\* A request is let in only as the user its token names, who exists and is active;
\* a patch is let in for administrators who patch somebody else.
LEMMA AuthenticateFacts ==
    ASSUME IInv, NEW p \in Requests, Authenticate(p)
    PROVE  /\ pc[p] = "arrived" /\ body[p].kind \in WithToken
           /\ table' = table /\ deposited' = deposited
           /\ \/ pc'[p] = "done" /\ answer'[p] \notin {"ok", "created"}
              \/ /\ answer' = answer
                 /\ Exists(body[p].token)
                 /\ \/ pc'[p] = "load"
                    \/ /\ pc'[p] = "write" /\ loaded'[p] = table[body[p].token]
                       /\ body[p].target = body[p].token
                 /\ body[p].kind = "patch" => /\ table[body[p].token].role = "admin"
                                              /\ body[p].target # body[p].token
<1> USE DEF IInv, TypeOK
<1>1. PICK id \in Decoded(p) :
         LET denial == IF id = None THEN "unauthorized" ELSE Denial(body[p], table[id])
         IN \/ denial # "none" /\ Finish(p, denial) /\ UNCHANGED loaded
            \/ denial = "none" /\ Goto(p, "load") /\ UNCHANGED <<loaded, answer>>
            \/ /\ denial = "none" /\ body[p].target = id
               /\ loaded' = [loaded EXCEPT ![p] = table[id]]
               /\ Goto(p, "write") /\ UNCHANGED answer
  BY DEF Authenticate
<1>2. body[p].kind \in WithToken /\ body[p].token \in Users
  BY BodyKinds DEF Authenticate, WithToken
<1>3. Issued(body[p].token) => Exists(body[p].token)
  BY <1>2 DEF Issued, RowsStay
<1>4. Denial(body[p], table[id]) \in {"forbidden", "own_role", "none"}
  BY DEF Denial
<1>5. Denial(body[p], table[id]) = "none" /\ body[p].kind = "patch" =>
          table[id].role = "admin" /\ body[p].target # body[p].token
  BY DEF Denial
<1>6. id = None \/ (id = body[p].token /\ Issued(id))
  BY DEF Decoded
<1> QED
  BY <1>1, <1>2, <1>3, <1>4, <1>5, <1>6 DEF Authenticate, Finish, Goto

\* A request keeps what it may rely on from one statement to the next.
LEMMA StepStages ==
    ASSUME IInv, NEW p \in Requests, Step(p)
    PROVE  Stages'
<1> USE DEF IInv, TypeOK
<1> DEFINE Stage(q) ==
      /\ pc[q] = "insert" => body[q].kind = "register"
      /\ pc[q] = "verify" => body[q].kind = "login"
      /\ pc[q] \in {"load", "write"} => body[q].kind \in WithToken
      /\ pc[q] = "write" => Exists(body[q].target) /\ loaded[q] # None
      /\ pc[q] \in {"load", "write"} /\ body[q].kind = "patch" =>
             body[q].target # body[q].token
      /\ answer[q] # "none" => pc[q] = "done"
      /\ answer[q] = "ok" /\ body[q].kind = "patch" => body[q].target # body[q].token
      /\ pc[q] \in {"load", "write"} => Exists(body[q].token)
<1>1. Stage(p) /\ \A q \in Requests : Stage(q)
  BY DEF Stages
<1>2. \A q \in Requests \ {p} : Stage(q)'
  <2> SUFFICES ASSUME NEW q \in Requests \ {p} PROVE Stage(q)'
    OBVIOUS
  <2>1. /\ pc'[q] = pc[q] /\ answer'[q] = answer[q] /\ loaded'[q] = loaded[q]
        /\ body' = body
    BY Frame
  <2>2. pc[q] = "write" => Exists(body[q].target)'
    <3> SUFFICES ASSUME pc[q] = "write" PROVE Exists(body[q].target)'
      OBVIOUS
    <3>1. PICK u \in Users : u = body[q].target
      BY <1>1, BodyKinds
    <3>2. Exists(u)'
      BY <1>1, <3>1, RowsKept
    <3> QED
      BY <2>1, <3>1, <3>2 DEF Exists
  <2>3. pc[q] \in {"load", "write"} => Exists(body[q].token)'
    <3> SUFFICES ASSUME pc[q] \in {"load", "write"} PROVE Exists(body[q].token)'
      OBVIOUS
    <3>1. PICK u \in Users : u = body[q].token
      BY <1>1, BodyKinds
    <3>2. Exists(u)'
      BY <1>1, <3>1, RowsKept
    <3> QED
      BY <2>1, <3>1, <3>2 DEF Exists
  <2> QED
    BY <1>1, <2>1, <2>2, <2>3
<1>3. Stage(p)'
  <2>0. /\ pc[p] # "done" /\ body' = body /\ answer[p] = "none"
        /\ answer'[p] = answer[p] \/ pc'[p] = "done"
    BY <1>1, Frame
  <2>1. CASE CheckFree(p) \/ Insert(p) \/ Lookup(p) \/ Verify(p)
    <3>1. /\ pc'[p] \in {"insert", "verify", "done"}
          /\ pc'[p] = "insert" => body[p].kind = "register"
          /\ pc'[p] = "verify" => body[p].kind = "login"
          /\ answer'[p] # "ok"
      BY <2>0, <2>1 DEF CheckFree, Insert, Lookup, Verify, Goto, Finish
    <3> QED
      BY <1>1, <2>0, <3>1
  <2>2. CASE Authenticate(p)
    BY <1>1, <2>0, <2>2, AuthenticateFacts DEF Exists
  <2>3. CASE Load(p)
    <3>1. /\ pc[p] = "load" /\ table' = table
          /\ \/ pc'[p] = "done" /\ answer'[p] = "not_found"
             \/ /\ pc'[p] = "write" /\ answer' = answer
                /\ loaded'[p] = table[body[p].target] /\ Exists(body[p].target)
      BY <2>3 DEF Load, Goto, Finish
    <3> QED
      BY <1>1, <2>0, <3>1 DEF Exists
  <2>4. CASE CommitProfile(p) \/ CommitDeposit(p) \/ CommitPatch(p)
    <3>1. pc[p] = "write" /\ pc'[p] = "done"
      BY <2>4 DEF CommitProfile, CommitDeposit, CommitPatch, Finish, Goto
    <3> QED
      BY <1>1, <2>0, <3>1
  <2> QED
    BY <2>1, <2>2, <2>3, <2>4 DEF Step
<1> QED
  BY <1>2, <1>3 DEF Stages

\* What was answered stays answered.
LEMMA AnswersStay ==
    ASSUME TypeOK, Stages, NEW p \in Requests, Step(p), NEW q \in Requests
    PROVE  /\ body'[q] = body[q]
           /\ answer[q] # "none" => answer'[q] = answer[q] /\ q # p
<1>1. answer[p] = "none"
  BY Frame DEF Stages
<1> QED
  BY <1>1, Frame

\* Only a patch writes the role or the flag of a row.
LEMMA OnlyPatches ==
    ASSUME TypeOK, Stages, NEW p \in Requests, Step(p), NEW u \in Users, Exists(u),
           ~ \E role, active : Patched(p, role, active)
    PROVE  table'[u].role = table[u].role /\ table'[u].active = table[u].active
<1> USE DEF TypeOK
<1>1. table[u] \in Row
  BY DEF Exists
<1>2. CASE Unchanged
  BY <1>2 DEF Unchanged
<1>3. ASSUME NEW v \in Users, Added(p, v)
      PROVE  table'[u].role = table[u].role /\ table'[u].active = table[u].active
  BY <1>3 DEF Added
<1>4. ASSUME NEW email, NEW secret, Profiled(p, email, secret)
      PROVE  table'[u].role = table[u].role /\ table'[u].active = table[u].active
  BY <1>1, <1>4 DEF Profiled, Commits, Row
<1>5. CASE Paid(p)
  BY <1>1, <1>5 DEF Paid, Commits, Row
<1> QED
  BY <1>2, <1>3, <1>4, <1>5, TableSteps

\* What makes an administrator is not undone: a set closed under promotion after a
\* step was closed before it.
LEMMA ClosedBefore ==
    ASSUME IInv, NEW p \in Requests, Step(p), NEW G \in SUBSET Users,
           ClosedUnderPromotion(G)'
    PROVE  ClosedUnderPromotion(G)
<1> USE DEF IInv
<1>1. ASSUME NEW u \in Users, OriginalAdmin(u) PROVE OriginalAdmin(u)'
  <2>1. CASE InitialTable[u] # None /\ InitialTable[u].role = "admin"
    BY <2>1 DEF OriginalAdmin
  <2>2. ASSUME Exists(u), NEW q \in Requests,
               body[q].kind = "register" /\ body[q].role = "admin",
               body[q].name = table[u].name /\ answer[q] = "created"
        PROVE  OriginalAdmin(u)'
    BY <2>2, RowsKept, AnswersStay DEF OriginalAdmin
  <2> QED
    BY <1>1, <2>1, <2>2 DEF OriginalAdmin
<1>2. ASSUME NEW u \in G, NEW v \in Users, Promoted(u, v) PROVE Promoted(u, v)'
  BY <1>2, AnswersStay DEF Promoted
<1> QED
  BY <1>1, <1>2 DEF ClosedUnderPromotion

\* Whoever is an administrator after a step was one, was created as one, or was
\* promoted by this step, by somebody who was one when he was let in.
LEMMA StepAdmins ==
    ASSUME IInv, NEW p \in Requests, Step(p), NEW G \in SUBSET Users,
           ClosedUnderPromotion(G)', NEW u \in Users, Exists(u)', table'[u].role = "admin"
    PROVE  u \in G
<1> USE DEF IInv, TypeOK
<1>1. ClosedUnderPromotion(G)
  BY ClosedBefore
<1>2. CASE Exists(u) /\ table[u].role = "admin"
  BY <1>1, <1>2 DEF AdminsComeFromAdmins
<1>3. CASE ~ Exists(u)
  <2>1. Added(p, u)
    BY <1>3, TableSteps DEF Unchanged, Added, Profiled, Paid, Patched, Commits, Exists
  <2>2. /\ table'[u].role = body[p].role /\ table'[u].name = body[p].name
        /\ body[p].kind = "register" /\ answer'[p] = "created" /\ body' = body
    BY <2>1, Frame DEF Added, NewRow
  <2>3. OriginalAdmin(u)'
    BY <2>2 DEF OriginalAdmin
  <2> QED
    BY <2>3 DEF ClosedUnderPromotion
<1>4. CASE Exists(u) /\ table[u].role # "admin"
  <2>1. table[u] \in Row
    BY <1>4 DEF Exists
  <2>2. PICK role, active : Patched(p, role, active)
    BY <1>4, OnlyPatches
  <2>3. body[p].target = u /\ role = "admin"
    BY <1>4, <2>1, <2>2 DEF Patched, Commits, Row
  <2>4. /\ body[p].kind = "patch" /\ body[p].role = "admin" /\ pc[p] = "write"
        /\ answer'[p] = "ok" /\ body' = body
    BY <1>4, <2>2, <2>3, Frame DEF Patched, Commits
  <2>5. PICK a : a = body[p].token
    OBVIOUS
  <2>6. a \in G
    BY <1>1, <2>4, <2>5 DEF PatchersWereAdmins, LetIn
  <2>7. Promoted(a, u)'
    BY <2>3, <2>4, <2>5 DEF Promoted
  <2> QED
    BY <2>6, <2>7 DEF ClosedUnderPromotion
<1> QED
  BY <1>2, <1>3, <1>4

\* A patch is let in only for whoever is an administrator at that moment.
LEMMA StepPatchers ==
    ASSUME IInv, NEW p \in Requests, Step(p), NEW G \in SUBSET Users,
           ClosedUnderPromotion(G)', NEW q \in Requests, LetIn(q)'
    PROVE  body'[q].token \in G
<1> USE DEF IInv, TypeOK
<1>1. ClosedUnderPromotion(G) /\ body' = body
  BY ClosedBefore, Frame
<1>2. CASE LetIn(q)
  BY <1>1, <1>2 DEF PatchersWereAdmins
<1>3. CASE ~ LetIn(q)
  <2>1. /\ body[q].kind = "patch" /\ pc[q] \notin {"load", "write"} /\ answer[q] # "ok"
        /\ pc'[q] \in {"load", "write"} \/ answer'[q] = "ok"
    BY <1>1, <1>3 DEF LetIn
  <2>2. q = p /\ pc[p] \in {"arrived", "insert", "verify"}
    BY <2>1, Frame DEF Labels
  <2>3. Authenticate(p)
    BY <2>1, <2>2 DEF Step, CheckFree, Insert, Lookup, Verify, Load, CommitProfile,
       CommitDeposit, CommitPatch, Stages
  <2>4. Exists(body[p].token) /\ table[body[p].token].role = "admin"
    BY <2>1, <2>2, <2>3, AuthenticateFacts
  <2>5. body[p].token \in Users
    BY <2>1, <2>2, BodyKinds DEF WithToken
  <2> QED
    BY <1>1, <2>2, <2>4, <2>5 DEF AdminsComeFromAdmins
<1> QED
  BY <1>2, <1>3

\* The invariant holds for ever.
LEMMA Invariant == Spec => []IInv
<1>1. ASSUME IInv, NEW p \in Requests, Step(p) PROVE IInv'
  <2>1. AdminsComeFromAdmins' /\ PatchersWereAdmins'
    BY <1>1, StepAdmins, StepPatchers DEF AdminsComeFromAdmins, PatchersWereAdmins
  <2> QED
    BY <1>1, <2>1, StepTyped, StepStages, StepUnique, StepBalance DEF IInv
<1>2. IInv /\ UNCHANGED vars => IInv'
  BY DEF vars, IInv, TypeOK, Stages, RowsStay, UniqueAccounts, BalanceIsDeposits,
     AdminsComeFromAdmins, PatchersWereAdmins, ClosedUnderPromotion, OriginalAdmin, LetIn,
     Promoted, Exists
<1>3. IInv /\ [Next]_vars => IInv'
  BY <1>1, <1>2 DEF Next
<1> QED
  BY <1>3, InitInvariant, PTL DEF Spec

-----------------------------------------------------------------------------
(* Theorems *)

\* Rows, requests and sessions hold what their types say.
THEOREM AccountsTypeCorrect == Spec => []TypeOK
<1>1. IInv => TypeOK
  BY DEF IInv
<1> QED
  BY <1>1, Invariant, PTL

\* Registration and profile update check and write in two statements, and still no
\* two accounts share a username or an e-mail.
THEOREM AccountsUnique == Spec => []UniqueAccounts
<1>1. IInv => UniqueAccounts
  BY DEF IInv
<1> QED
  BY <1>1, Invariant, PTL

\* Whatever else is written to a row, its balance is the sum of its deposits.
THEOREM NoDepositLost == Spec => []BalanceIsDeposits
<1>1. IInv => BalanceIsDeposits
  BY DEF IInv
<1> QED
  BY <1>1, Invariant, PTL

\* Following promotions backwards from any administrator ends at one who was so from
\* the start or was created by the command line; also when administrators created
\* meanwhile log in and promote others.
THEOREM AdminsHaveASource == Spec => []AdminsComeFromAdmins
<1>1. IInv => AdminsComeFromAdmins
  BY DEF IInv
<1> QED
  BY <1>1, Invariant, PTL

\* A step changes a row only in the columns that the committing request gives.
LEMMA StepAsked ==
    ASSUME TypeOK, Stages, NEW p \in Requests, Step(p),
           NEW u \in Users, Exists(u), table'[u] # table[u]
    PROVE  AskedFor(p, u)
<1> USE DEF TypeOK
<1>1. table[u] \in Row /\ MaxBalance \in Nat
  BY AccountsAssumption DEF Exists
<1>2. ~ Unchanged /\ \A v \in Users : ~ Added(p, v)
  BY DEF Unchanged, Added
<1>3. ASSUME NEW email, NEW secret, Profiled(p, email, secret) PROVE AskedFor(p, u)
  <2>1. body[p].target = u
    BY <1>3 DEF Profiled, Commits
  <2> QED
    BY <1>3, <2>1 DEF Profiled, Commits, AskedFor
<1>4. CASE Paid(p)
  <2>1. body[p].target = u
    BY <1>4 DEF Paid, Commits
  <2>2. table'[u] = [table[u] EXCEPT !.balance = table[u].balance + body[p].amount]
    BY <1>4, <2>1 DEF Paid, Commits
  <2>3. table[u].balance + body[p].amount \in 0 .. MaxBalance
    BY <1>1, <1>4, <2>1 DEF Paid, Row
  <2> QED
    BY <1>4, <2>1, <2>2, <2>3 DEF Paid, Commits, AskedFor
<1>5. ASSUME NEW role, NEW active, Patched(p, role, active) PROVE AskedFor(p, u)
  <2>1. body[p].target = u
    BY <1>5 DEF Patched, Commits
  <2> QED
    BY <1>5, <2>1 DEF Patched, Commits, AskedFor
<1> QED
  BY <1>2, <1>3, <1>4, <1>5, TableSteps

\* No session undoes what another one committed after it had loaded the row.
THEOREM NothingUnasked == Spec => ChangesWereAsked
<1>1. ASSUME IInv, [Next]_vars
      PROVE  [\A u \in Users :
                 Exists(u) /\ table'[u] # table[u] =>
                     \E p \in Requests : AskedFor(p, u)]_vars
  <2>1. CASE Next
    BY <1>1, <2>1, StepAsked DEF Next, IInv
  <2>2. CASE UNCHANGED vars
    BY <2>2
  <2> QED
    BY <1>1, <2>1, <2>2
<1> QED
  BY <1>1, Invariant, PTL DEF Spec, ChangesWereAsked

\* The request that takes the last administrator was let in for somebody who was
\* one, and is none when it commits: an active administrator cannot patch himself.
LEMMA StepLastAdmin ==
    ASSUME IInv, NEW p \in Requests, Step(p), ActiveAdmins # {}, ActiveAdmins' = {}
    PROVE  /\ pc[p] = "write" /\ pc'[p] = "done" /\ body[p].kind = "patch"
           /\ body[p].token \notin ActiveAdmins
<1> USE DEF IInv
<1>1. PICK a \in Users : Exists(a) /\ table[a].role = "admin" /\ table[a].active
  BY DEF ActiveAdmins
<1>2. ~ (Exists(a)' /\ table'[a].role = "admin" /\ table'[a].active)
  BY DEF ActiveAdmins
<1>3. PICK role, active : Patched(p, role, active)
  BY <1>1, <1>2, OnlyPatches, RowsKept
<1>4. pc[p] = "write" /\ pc'[p] = "done" /\ body[p].kind = "patch"
  BY <1>3 DEF Patched, Commits
<1>5. ASSUME NEW b \in Users, b = body[p].token, b \in ActiveAdmins PROVE FALSE
  <2>1. body[p].target # b
    BY <1>4, <1>5 DEF Stages
  <2>2. table'[b] = table[b]
    BY <1>3, <2>1 DEF Patched, Commits, TypeOK
  <2>3. Exists(b) /\ table[b].role = "admin" /\ table[b].active
    BY <1>5 DEF ActiveAdmins
  <2>4. Exists(b)' /\ table'[b].role = "admin" /\ table'[b].active
    BY <2>2, <2>3 DEF Exists
  <2> QED
    BY <2>4 DEF ActiveAdmins
<1> QED
  BY <1>4, <1>5 DEF ActiveAdmins

\* Only a race of two administrators leaves none.
THEOREM LastAdminIsSafe == Spec => LastAdminGoesInARace
<1>1. ASSUME IInv, [Next]_vars
      PROVE  [ActiveAdmins # {} /\ ActiveAdmins' = {} =>
                 \E p \in Requests :
                     /\ pc[p] = "write" /\ pc'[p] = "done" /\ body[p].kind = "patch"
                     /\ body[p].token \notin ActiveAdmins]_vars
  <2>1. CASE Next
    BY <1>1, <2>1, StepLastAdmin DEF Next
  <2>2. CASE UNCHANGED vars
    BY <2>2
  <2> QED
    BY <1>1, <2>1, <2>2
<1> QED
  BY <1>1, Invariant, PTL DEF Spec, LastAdminGoesInARace

-----------------------------------------------------------------------------
(* The refinement of UserTable *)

\* The initial table has the columns UserTable speaks of.
LEMMA TableInit == Init => [u \in Users |-> Visible(u)] \in [Users -> Table!UserRow]
<1> SUFFICES ASSUME Init, NEW u \in Users PROVE Visible(u) \in Table!UserRow
  OBVIOUS
<1>1. MaxBalance \in Nat /\ table \in [Users -> Row \cup {None}]
  BY AccountsAssumption DEF Init
<1>2. CASE Exists(u)
  <2>1. table[u] \in Row
    BY <1>1, <1>2 DEF Exists
  <2> QED
    BY <1>2, <2>1 DEF Visible, Table!UserRow, Table!Roles, Roles, Row
<1>3. CASE ~ Exists(u)
  BY <1>1, <1>3 DEF Visible, Table!UserRow, Table!Roles
<1> QED
  BY <1>2, <1>3

\* A registration counts as a patch of an untouched account, a profile update as
\* nothing, a deposit and a patch as themselves.
LEMMA TableStep ==
    ASSUME TypeOK, Stages, NEW p \in Requests, Step(p)
    PROVE  \/ Table!UserCommit
           \/ [u \in Users |-> Visible(u)]' = [u \in Users |-> Visible(u)]
<1> USE DEF TypeOK
<1>1. CASE Unchanged
  BY <1>1 DEF Unchanged, Visible, Exists
<1>2. ASSUME NEW u \in Users, Added(p, u) PROVE Table!UserCommit
  <2>1. body[p].role \in Roles
    BY <1>2, BodyKinds DEF Added
  <2>2. PICK patch \in [role : Roles, active : BOOLEAN] :
           patch = [role |-> body[p].role, active |-> TRUE]
    BY <2>1
  <2>3. \A v \in Users \ {u} : table'[v] = table[v]
    BY <1>2 DEF Added
  <2>4. \A v \in Users \ {u} : Visible(v)' = Visible(v)
    BY <2>3 DEF Visible, Exists
  <2>5. table'[u] = NewRow(body[p]) /\ table'[u] # None
    BY <1>2, AccountsAssumption DEF Added
  <2>6. Visible(u)' = [role |-> body[p].role, active |-> TRUE, balance |-> 0]
    BY <2>5 DEF Visible, NewRow, Exists
  <2>7. Visible(u) = [role |-> "user", active |-> TRUE, balance |-> 0]
    BY <1>2 DEF Visible, Added
  <2>8. Table!CommitPatch(u, patch)
    <3>1. [v \in Users |-> Visible(v)]' =
             [v \in Users |-> IF v = u THEN [role |-> patch.role, active |-> patch.active,
                                            balance |-> Visible(u).balance]
                             ELSE Visible(v)]
      BY <2>2, <2>4, <2>6, <2>7
    <3> QED
      BY <2>7, <3>1 DEF Table!CommitPatch
  <2> QED
    BY <2>8 DEF Table!UserCommit
<1> DEFINE Shown(row) == [role |-> row.role, active |-> row.active, balance |-> row.balance]
<1>3. ASSUME NEW u \in Users, NEW row \in Row, Commits(p, row), body[p].target = u
      PROVE  /\ \A v \in Users \ {u} : Visible(v)' = Visible(v)
             /\ table[u] \in Row
             /\ Visible(u) = Shown(table[u]) /\ Visible(u)' = Shown(row)
  <2>1. Exists(u) /\ table' = [table EXCEPT ![u] = row] /\ row # None
    BY <1>3, AccountsAssumption DEF Commits
  <2>2. table'[u] = row /\ \A v \in Users \ {u} : table'[v] = table[v]
    BY <2>1
  <2>3. \A v \in Users \ {u} : Visible(v)' = Visible(v)
    BY <2>2 DEF Visible, Exists
  <2>4. table[u] \in Row /\ Visible(u) = Shown(table[u])
    BY <2>1 DEF Visible, Exists
  <2>5. Visible(u)' = Shown(row)
    BY <2>1, <2>2 DEF Visible, Exists
  <2> QED
    BY <2>3, <2>4, <2>5
<1>4. ASSUME NEW email, NEW secret, Profiled(p, email, secret)
      PROVE  [u \in Users |-> Visible(u)]' = [u \in Users |-> Visible(u)]
  <2>1. PICK u \in Users : u = body[p].target /\ table[u] \in Row
    BY <1>4, BodyKinds DEF Profiled, Commits, WithToken, Exists
  <2>2. PICK row : row = [table[u] EXCEPT !.email = email, !.secret = secret]
    OBVIOUS
  <2>3. /\ row \in Row /\ row.role = table[u].role /\ row.active = table[u].active
        /\ row.balance = table[u].balance
    BY <1>4, <2>1, <2>2 DEF Profiled, Row
  <2>4. Commits(p, row)
    BY <1>4, <2>1, <2>2 DEF Profiled
  <2>5. \A v \in Users : Visible(v)' = Visible(v)
    BY <1>3, <2>1, <2>3, <2>4
  <2> QED
    BY <2>5
<1>5. ASSUME Paid(p) PROVE Table!UserCommit
  <2>1. PICK u \in Users : u = body[p].target /\ table[u] \in Row
    BY <1>5, BodyKinds DEF Paid, Commits, WithToken, Exists
  <2>2. PICK amount \in 1 .. MaxBalance : amount = body[p].amount
    BY <1>5 DEF Paid
  <2>3. PICK row : row = [table[u] EXCEPT !.balance = table[u].balance + amount]
    OBVIOUS
  <2>4. /\ table[u].balance + amount <= MaxBalance /\ table[u].balance \in Nat
        /\ MaxBalance \in Nat
    BY <1>5, <2>1, <2>2, AccountsAssumption DEF Paid, Row
  <2>5. table[u].balance + amount \in 0 .. MaxBalance
    BY <2>4
  <2>6. /\ row \in Row /\ row.role = table[u].role /\ row.active = table[u].active
        /\ row.balance = table[u].balance + amount
    BY <2>1, <2>3, <2>5 DEF Row
  <2>7. Commits(p, row)
    BY <1>5, <2>1, <2>2, <2>3 DEF Paid
  <2>8. /\ \A v \in Users \ {u} : Visible(v)' = Visible(v)
        /\ Visible(u) = Shown(table[u]) /\ Visible(u)' = Shown(row)
    BY <1>3, <2>1, <2>6, <2>7
  <2>9. Table!CommitDeposit(u, amount)
    <3>1. [v \in Users |-> Visible(v)]' =
             [v \in Users |-> IF v = u THEN [role |-> Visible(u).role, active |-> Visible(u).active,
                                            balance |-> Visible(u).balance + amount]
                             ELSE Visible(v)]
      BY <2>6, <2>8
    <3>2. Visible(u).balance + amount <= MaxBalance
      BY <2>4, <2>8
    <3>3. [v \in Users |-> Visible(v)]' =
             [[v \in Users |-> Visible(v)] EXCEPT ![u].balance = @ + amount]
      BY <2>8, <3>1
    <3> QED
      BY <3>2, <3>3 DEF Table!CommitDeposit
  <2> QED
    BY <2>9 DEF Table!UserCommit
<1>6. ASSUME NEW role, NEW active, Patched(p, role, active) PROVE Table!UserCommit
  <2>1. PICK u \in Users : u = body[p].target /\ table[u] \in Row
    BY <1>6, BodyKinds DEF Patched, Commits, WithToken, Exists
  <2>2. PICK patch \in [role : Roles, active : BOOLEAN] :
           patch = [role |-> role, active |-> active]
    BY <1>6 DEF Patched
  <2>3. PICK row : row = [table[u] EXCEPT !.role = role, !.active = active]
    OBVIOUS
  <2>4. /\ row \in Row /\ row.role = role /\ row.active = active
        /\ row.balance = table[u].balance
    BY <1>6, <2>1, <2>3 DEF Patched, Row
  <2>5. Commits(p, row)
    BY <1>6, <2>1, <2>3 DEF Patched
  <2>6. /\ \A v \in Users \ {u} : Visible(v)' = Visible(v)
        /\ Visible(u) = Shown(table[u]) /\ Visible(u)' = Shown(row)
    BY <1>3, <2>1, <2>4, <2>5
  <2>7. Table!CommitPatch(u, patch)
    <3>1. [v \in Users |-> Visible(v)]' =
             [v \in Users |-> IF v = u THEN [role |-> patch.role, active |-> patch.active,
                                            balance |-> Visible(u).balance]
                             ELSE Visible(v)]
      BY <2>2, <2>4, <2>6
    <3> QED
      BY <2>6, <3>1 DEF Table!CommitPatch
  <2> QED
    BY <2>7 DEF Table!UserCommit
<1> QED
  BY <1>1, <1>2, <1>4, <1>5, <1>6, TableSteps

\* Registration, profiles, deposits and patches together do what UserTable says,
\* so what Bidding was shown to do over UserTable it does over Accounts.
THEOREM AccountsRefineUserTable == Spec => ImplementsUserTable
<1>1. ASSUME IInv, [Next]_vars
      PROVE  [Table!UserCommit]_([u \in Users |-> Visible(u)])
  <2>1. CASE Next
    BY <1>1, <2>1, TableStep DEF Next, IInv
  <2>2. CASE UNCHANGED vars
    BY <2>2 DEF vars, Visible, Exists
  <2> QED
    BY <1>1, <2>1, <2>2
<1> QED
  BY <1>1, TableInit, Invariant, PTL DEF Spec, ImplementsUserTable, Table!UserTableSpec
=============================================================================
