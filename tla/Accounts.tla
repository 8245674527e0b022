------------------------------- MODULE Accounts -------------------------------
(***************************************************************************)
(* The users table and the requests that read and write it: registration,  *)
(* login, profile update, deposit and the administrator's patch            *)
(* (services/users.py, routes/auth.py, routes/users.py, routes/admin.py,   *)
(* api/deps.py).                                                           *)
(*                                                                         *)
(* A request is a process with one database session.  One action is one    *)
(* statement, or the Python code between two awaits:                       *)
(*                                                                         *)
(*   register          arrived -CheckFree-> insert -Insert-> done          *)
(*   login             arrived -Lookup-> verify -Verify-> done             *)
(*   profile, deposit, patch                                               *)
(*                     arrived -Authenticate-> load -Load-> write -> done  *)
(*                                                                         *)
(* Names and e-mails are the lower-cased ones the schemas pass on.         *)
(***************************************************************************)
EXTENDS Integers, FiniteSets

CONSTANTS Users,       \* the ids the table may give out
          Names,       \* usernames
          Emails,      \* e-mail addresses
          Secrets,     \* passwords; a hash is identified with its password
          MaxBalance,  \* the largest value of Numeric(18, 2)
          Requests,    \* the HTTP requests
          Bodies,      \* the requests clients may send, with the token they hold
          InitialTable,\* the table the model starts from
          None         \* a field left out of a request, a missing row

Roles == {"user", "admin"}

Row == [name : Names, email : Emails, secret : Secrets, role : Roles,
        active : BOOLEAN, balance : 0 .. MaxBalance]

\* The bodies the schemas accept (schemas/user.py); `token' is the user id in the
\* bearer token, if one was issued.  extra="forbid" keeps every other field out.
RegisterBody == [kind : {"register"}, name : Names, email : Emails, secret : Secrets,
                 role : Roles]
LoginBody == [kind : {"login"}, name : Names, secret : Secrets]
ProfileBody == [kind : {"profile"}, token : Users, target : Users,
                email : Emails \cup {None}, secret : Secrets \cup {None}]
DepositBody == [kind : {"deposit"}, token : Users, target : Users,
                amount : 1 .. MaxBalance]
PatchBody == [kind : {"patch"}, token : Users, target : Users,
              role : Roles \cup {None}, active : BOOLEAN \cup {None}]

Body == RegisterBody \cup LoginBody \cup ProfileBody \cup DepositBody \cup PatchBody

ASSUME AccountsAssumption ==
    /\ MaxBalance \in Nat
    /\ IsFiniteSet(Users)
    /\ \A b \in Bodies : b \in Body
    /\ InitialTable \in [Users -> Row \cup {None}]
    /\ \A u, v \in Users :   \* unique columns
          InitialTable[u] # None /\ InitialTable[v] # None /\ u # v =>
              /\ InitialTable[u].name # InitialTable[v].name
              /\ InitialTable[u].email # InitialTable[v].email
    /\ None \notin Row /\ None \notin Emails /\ None \notin Secrets
    /\ None \notin Roles /\ None \notin BOOLEAN

VARIABLES
    table,      \* the rows of users by id, None for an id not given out
    body,       \* what each request asks
    pc,         \* where each request is
    loaded,     \* the User object of each request's session
    answer,     \* what each finished request answered
    deposited   \* history: the sum of the deposits committed to each user

vars == <<table, body, pc, loaded, answer, deposited>>

Labels == {"arrived", "insert", "verify", "load", "write", "done"}

Answers == {"none", "ok", "created", "token", "conflict", "unauthorized",
            "forbidden", "own_role", "not_found", "error"}

TypeOK ==
    /\ table \in [Users -> Row \cup {None}]
    /\ body \in [Requests -> Bodies]
    /\ pc \in [Requests -> Labels]
    /\ loaded \in [Requests -> Row \cup {None}]
    /\ answer \in [Requests -> Answers]
    /\ deposited \in [Users -> Nat]

Exists(u) == table[u] # None

Init ==
    /\ table = InitialTable
    /\ body \in [Requests -> Bodies]
    /\ pc = [p \in Requests |-> "arrived"]
    /\ loaded = [p \in Requests |-> None]
    /\ answer = [p \in Requests |-> "none"]
    /\ deposited = [u \in Users |-> IF Exists(u) THEN table[u].balance ELSE 0]

Goto(p, label) == pc' = [pc EXCEPT ![p] = label]

Finish(p, result) ==
    /\ Goto(p, "done")
    /\ answer' = [answer EXCEPT ![p] = result]

-----------------------------------------------------------------------------
(* Registration: create_user *)

Taken(name, email) ==
    \E u \in Users : Exists(u) /\ (table[u].name = name \/ table[u].email = email)

\* SELECT ... WHERE username = :name OR email = :email
CheckFree(p) ==
    /\ pc[p] = "arrived"
    /\ body[p].kind = "register"
    /\ \/ ~ Taken(body[p].name, body[p].email) /\ Goto(p, "insert") /\ UNCHANGED answer
       \/ Taken(body[p].name, body[p].email) /\ Finish(p, "conflict")
    /\ UNCHANGED <<table, body, loaded, deposited>>

\* Mutant: the columns are not unique, the check above is all there is.
NoConstraint(name, email) == FALSE

\* The unique constraints of username and email refuse the INSERT.
Violates(name, email) == Taken(name, email)

\* Mutant: the balance has no default.
NewRowWithoutDefault(b) ==
    [name |-> b.name, email |-> b.email, secret |-> b.secret, role |-> b.role,
     active |-> TRUE, balance |-> None]

NewRow(b) == [name |-> b.name, email |-> b.email, secret |-> b.secret,
              role |-> b.role, active |-> TRUE, balance |-> 0]

\* The INSERT, after the password was hashed in a thread.
Insert(p) ==
    /\ pc[p] = "insert"
    /\ \/ /\ ~ Violates(body[p].name, body[p].email)
          /\ \E u \in Users :
                /\ ~ Exists(u)
                /\ table' = [table EXCEPT ![u] = NewRow(body[p])]
          /\ Finish(p, "created")
       \/ /\ Violates(body[p].name, body[p].email)
          /\ Finish(p, "conflict")
          /\ UNCHANGED table
    /\ UNCHANGED <<body, loaded, deposited>>

-----------------------------------------------------------------------------
(* Login: authenticate *)

\* SELECT ... WHERE username = :name
Lookup(p) ==
    /\ pc[p] = "arrived"
    /\ body[p].kind = "login"
    /\ \/ \E u \in Users : /\ Exists(u)
                           /\ table[u].name = body[p].name
                           /\ loaded' = [loaded EXCEPT ![p] = table[u]]
       \/ /\ \A u \in Users : Exists(u) => table[u].name # body[p].name
          /\ UNCHANGED loaded
    /\ Goto(p, "verify")
    /\ UNCHANGED <<table, body, answer, deposited>>

\* bcrypt in a thread; a name nobody has is checked against a dummy hash.
VerifyPassword(secret, row) == row # None /\ row.secret = secret

\* verify_password, then is_active of the row read before it.
Verify(p) ==
    LET matches == VerifyPassword(body[p].secret, loaded[p])
    IN /\ pc[p] = "verify"
       /\ \/ ~ matches /\ Finish(p, "unauthorized")
          \/ matches /\ ~ loaded[p].active /\ Finish(p, "forbidden")
          \/ matches /\ loaded[p].active /\ Finish(p, "token")
       /\ UNCHANGED <<table, body, loaded, deposited>>

-----------------------------------------------------------------------------
(* Requests with a token *)

\* Mutant: the patch route asks for any active user instead of an administrator.
DenialWithoutRole(b, me) ==
    IF ~ me.active THEN "forbidden"
    ELSE IF b.kind = "patch" THEN IF b.target = b.token THEN "own_role" ELSE "none"
    ELSE IF me.role # "admin" /\ b.target # b.token THEN "forbidden"
    ELSE "none"

\* Mutant: administrators may patch themselves.
DenialWithoutOwn(b, me) ==
    IF ~ me.active THEN "forbidden"
    ELSE IF b.kind = "patch" /\ me.role # "admin" THEN "forbidden"
    ELSE IF b.kind # "patch" /\ me.role # "admin" /\ b.target # b.token THEN "forbidden"
    ELSE "none"

\* What get_current_user, require_admin and ensure_self_or_admin refuse, and
\* the administrator's patch of his own account; "none" when nothing.
Denial(b, me) ==
    IF ~ me.active THEN "forbidden"
    ELSE IF b.kind = "patch" /\ me.role # "admin" THEN "forbidden"
    ELSE IF b.kind = "patch" /\ b.target = b.token THEN "own_role"
    ELSE IF b.kind # "patch" /\ me.role # "admin" /\ b.target # b.token THEN "forbidden"
    ELSE "none"

\* A token for u has been given out: before the model starts, to an account that
\* exists then, or since, by a login with the name of the account.
Issued(u) ==
    \/ InitialTable[u] # None
    \/ /\ Exists(u)
       /\ \E q \in Requests : /\ body[q].kind = "login" /\ body[q].name = table[u].name
                             /\ answer[q] = "token"

\* The user a token names, None when decoding raises: it expires while its holder
\* uses it, a client may send none, or one with another key's signature, and a
\* token nobody was given cannot be sent.
Decoded(p) == {None} \cup {u \in {body[p].token} : Issued(u)}

\* The requester's row is read; when he is the target himself, the session's
\* identity map answers the second get without another SELECT.
Authenticate(p) ==
    /\ pc[p] = "arrived"
    /\ body[p].kind \in {"profile", "deposit", "patch"}
    /\ \E id \in Decoded(p) :
          LET denial == IF id = None THEN "unauthorized" ELSE Denial(body[p], table[id])
          IN \/ denial # "none" /\ Finish(p, denial) /\ UNCHANGED loaded
             \/ /\ denial = "none"
                /\ body[p].target # id
                /\ Goto(p, "load")
                /\ UNCHANGED <<loaded, answer>>
             \/ /\ denial = "none"
                /\ body[p].target = id
                /\ loaded' = [loaded EXCEPT ![p] = table[id]]
                /\ Goto(p, "write")
                /\ UNCHANGED answer
    /\ UNCHANGED <<table, body, deposited>>

\* session.get(User, target), 404 when there is none.
Load(p) ==
    /\ pc[p] = "load"
    /\ loaded' = [loaded EXCEPT ![p] = table[body[p].target]]
    /\ \/ Exists(body[p].target) /\ Goto(p, "write") /\ UNCHANGED answer
       \/ ~ Exists(body[p].target) /\ Finish(p, "not_found")
    /\ UNCHANGED <<table, body, deposited>>

\* Mutant: the UPDATE writes the attribute whether or not it was set.
WriteAll(given, old, current) == IF given = None THEN old ELSE given

\* The unit of work writes a column only if the request set the attribute to a
\* value other than the loaded one.
Written(given, old, current) == IF given \in {None, old} THEN current ELSE given

\* The e-mail the commit of a profile update would leave.
NewEmail(p) == Written(body[p].email, loaded[p].email, table[body[p].target].email)

EmailInUse(p) ==
    \E u \in Users \ {body[p].target} : Exists(u) /\ table[u].email = NewEmail(p)

\* A new hash differs from the old one, so a given password is always written.
CommitProfile(p) ==
    LET u == body[p].target
    IN /\ pc[p] = "write"
       /\ body[p].kind = "profile"
       /\ \/ /\ ~ EmailInUse(p)
             /\ table' = [table EXCEPT ![u].email = NewEmail(p),
                                       ![u].secret = IF body[p].secret = None THEN @
                                                     ELSE body[p].secret]
             /\ Finish(p, "ok")
          \/ EmailInUse(p) /\ Finish(p, "conflict") /\ UNCHANGED table
       /\ UNCHANGED <<body, loaded, deposited>>

\* Mutant: the sum is computed in Python from the loaded balance.
ReadThenAdd(p) == loaded[p].balance + body[p].amount

\* balance = balance + :amount, evaluated by the database.
Sum(p) == table[body[p].target].balance + body[p].amount

\* A sum beyond the column is an error the route does not handle (500).
CommitDeposit(p) ==
    LET u == body[p].target
    IN /\ pc[p] = "write"
       /\ body[p].kind = "deposit"
       /\ \/ /\ Sum(p) <= MaxBalance
             /\ table' = [table EXCEPT ![u].balance = Sum(p)]
             /\ deposited' = [deposited EXCEPT ![u] = @ + body[p].amount]
             /\ Finish(p, "ok")
          \/ Sum(p) > MaxBalance /\ Finish(p, "error") /\ UNCHANGED <<table, deposited>>
       /\ UNCHANGED <<body, loaded>>

CommitPatch(p) ==
    LET u == body[p].target
    IN /\ pc[p] = "write"
       /\ body[p].kind = "patch"
       /\ table' = [table EXCEPT
             ![u].role = Written(body[p].role, loaded[p].role, @),
             ![u].active = Written(body[p].active, loaded[p].active, @)]
       /\ Finish(p, "ok")
       /\ UNCHANGED <<body, loaded, deposited>>

Step(p) ==
    \/ CheckFree(p)
    \/ Insert(p)
    \/ Lookup(p)
    \/ Verify(p)
    \/ Authenticate(p)
    \/ Load(p)
    \/ CommitProfile(p)
    \/ CommitDeposit(p)
    \/ CommitPatch(p)

Next == \E p \in Requests : Step(p)

Spec == Init /\ [][Next]_vars

-----------------------------------------------------------------------------
(* Properties *)

\* No two accounts share a username or an e-mail, although registration and
\* profile update check first and write after an await.
UniqueAccounts ==
    \A u, v \in Users :
        Exists(u) /\ Exists(v) /\ u # v =>
            table[u].name # table[v].name /\ table[u].email # table[v].email

\* No deposit is lost: a balance is the sum of the deposits that were committed,
\* whatever other requests wrote to the row meanwhile.
BalanceIsDeposits == \A u \in Users : Exists(u) => table[u].balance = deposited[u]

\* The request commits to the row, and what the row becomes is what it was but for
\* the columns the request gives.
AskedFor(p, u) ==
    /\ pc[p] = "write" /\ pc'[p] = "done" /\ body[p].target = u
    /\ \/ /\ body[p].kind = "deposit"
          /\ \E sum \in 0 .. MaxBalance :
                table'[u] = [table[u] EXCEPT !.balance = sum]
       \/ /\ body[p].kind = "profile"
          /\ \E email \in {table[u].email, body[p].email},
                secret \in {table[u].secret, body[p].secret} :
                table'[u] = [table[u] EXCEPT !.email = email, !.secret = secret]
       \/ /\ body[p].kind = "patch"
          /\ \E role \in {table[u].role, body[p].role},
                active \in {table[u].active, body[p].active} :
                table'[u] = [table[u] EXCEPT !.role = role, !.active = active]

\* A step changes only what the committing request asks for: a concurrent block,
\* role change, deposit or new password is never undone by a session that loaded
\* the row before it.
ChangesWereAsked ==
    [][\A u \in Users :
          Exists(u) /\ table'[u] # table[u] =>
              \E p \in Requests : AskedFor(p, u)]_vars

\* An administrator nobody on the site made: from the start, or by create-admin.
OriginalAdmin(u) ==
    \/ InitialTable[u] # None /\ InitialTable[u].role = "admin"
    \/ /\ Exists(u)
       /\ \E p \in Requests : /\ body[p].kind = "register" /\ body[p].role = "admin"
                             /\ body[p].name = table[u].name /\ answer[p] = "created"

Promoted(u, v) ==
    \E p \in Requests : /\ body[p].kind = "patch" /\ body[p].role = "admin"
                        /\ body[p].token = u /\ body[p].target = v /\ answer[p] = "ok"

\* The original administrators are in G, and so is whom one of G promoted.
ClosedUnderPromotion(G) ==
    /\ \A u \in Users : OriginalAdmin(u) => u \in G
    /\ \A u \in G, v \in Users : Promoted(u, v) => v \in G

\* Every administrator has been promoted by one who has been promoted by one, and
\* so on back to an original one: administrators are in the smallest set that is
\* closed under promotion, that is, in every such set.  That the requester's role is
\* read from the row when his request arrives, and tokens are for ids never given
\* out twice, is what this rests on.
AdminsComeFromAdmins ==
    \A G \in SUBSET Users :
        ClosedUnderPromotion(G) =>
            \A u \in Users : Exists(u) /\ table[u].role = "admin" => u \in G

\* The check that administrators do not patch themselves keeps the last one, but
\* for a race: when the last active administrator goes, it is by the request of
\* somebody who was an administrator when it was let in, and is none any more.
ActiveAdmins == {u \in Users : Exists(u) /\ table[u].role = "admin" /\ table[u].active}

LastAdminGoesInARace ==
    [][ActiveAdmins # {} /\ ActiveAdmins' = {} =>
          \E p \in Requests :
              /\ pc[p] = "write" /\ pc'[p] = "done" /\ body[p].kind = "patch"
              /\ body[p].token \notin ActiveAdmins]_vars

\* Seen from the rest of the system the requests do nothing but what UserTable
\* says; an id not given out yet counts as a new account.
Visible(u) ==
    IF Exists(u)
    THEN [role |-> table[u].role, active |-> table[u].active,
          balance |-> table[u].balance]
    ELSE [role |-> "user", active |-> TRUE, balance |-> 0]

Table == INSTANCE UserTable WITH
    users <- [u \in Users |-> Visible(u)],
    Deposits <- 1 .. MaxBalance,
    Patches <- [role : Roles, active : BOOLEAN]

ImplementsUserTable == Table!UserTableSpec
=============================================================================
