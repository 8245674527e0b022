--------------------------------- MODULE Pool ---------------------------------
(***************************************************************************)
(* The requests of one server process and the connections of its engine    *)
(* (app/db/session.py).                                                    *)
(*                                                                         *)
(* A request has one session.  The session takes a connection from the     *)
(* pool at its first statement after a commit or rollback, waiting when    *)
(* all are out, and gives it back at the next commit or rollback or at the *)
(* end of the request.  What it awaits in between (a password    *)
(* hash, a broadcast) it awaits with the connection in hand.  What the     *)
(* statements do is the subject of Bidding and Accounts.                   *)
(***************************************************************************)
EXTENDS Integers, FiniteSets

CONSTANTS Requests,
          Kinds,       \* the kinds of requests sent
          Capacity,    \* pool_size + max_overflow
          MaxRetries,  \* MAX_RETRIES of services/auctions.py
          MayTimeOut   \* whether waiting for a connection may take too long

ASSUME PoolAssumption ==
    /\ IsFiniteSet(Requests)
    /\ Kinds \subseteq {"bid", "close", "write", "read"}
    /\ Capacity \in Nat \ {0}
    /\ MaxRetries \in Nat \ {0}
    /\ MayTimeOut \in BOOLEAN

VARIABLES
    kind,      \* what each request is; "write" is any other that commits
    pc,        \* where each request is
    held,      \* the requests that have a connection
    waiting,   \* the requests that wait for one
    tries,     \* failed attempts of the retry loops
    recorded,  \* requests whose transaction committed
    told,      \* requests whose broadcast ended
    answer     \* what each finished request answered

vars == <<kind, pc, held, waiting, tries, recorded, told, answer>>

\* "work" is one round of a service function up to its commit or refusal;
\* "again" and "refresh" are statements that need a connection afresh.
Labels == {"arrived", "work", "again", "refresh", "broadcast", "ended"}

Answers == {"none", "ok", "refused", "busy", "error"}

TypeOK ==
    /\ kind \in [Requests -> Kinds]
    /\ pc \in [Requests -> Labels]
    /\ held \subseteq Requests
    /\ Cardinality(held) <= Capacity
    /\ waiting \subseteq Requests
    /\ tries \in [Requests -> 0 .. MaxRetries]
    /\ recorded \subseteq Requests
    /\ told \subseteq Requests
    /\ answer \in [Requests -> Answers]

Init ==
    /\ kind \in [Requests -> Kinds]
    /\ pc = [r \in Requests |-> "arrived"]
    /\ held = {}
    /\ waiting = {}
    /\ tries = [r \in Requests |-> 0]
    /\ recorded = {}
    /\ told = {}
    /\ answer = [r \in Requests |-> "none"]

Goto(r, label) == pc' = [pc EXCEPT ![r] = label]

\* A commit or rollback gives the connection back, and so does the end of
\* `async with SessionLocal()'.
Release(r) == held' = held \ {r}

Finish(r, result) ==
    /\ Goto(r, "ended")
    /\ answer' = [answer EXCEPT ![r] = result]
    /\ Release(r)

-----------------------------------------------------------------------------
(* The pool *)

\* The statements for which a session without a connection asks for one.
Needs(r) == pc[r] \in {"arrived", "again", "refresh"} /\ r \notin held

Ask(r) ==
    /\ Needs(r)
    /\ r \notin waiting
    /\ waiting' = waiting \cup {r}
    /\ UNCHANGED <<kind, pc, held, tries, recorded, told, answer>>

Free == Cardinality(held) < Capacity

\* A request that comes when a connection is just back may take it before those
\* that wait longer.
Checkout(r) ==
    /\ r \in waiting
    /\ Free
    /\ held' = held \cup {r}
    /\ waiting' = waiting \ {r}
    /\ pc' = [pc EXCEPT ![r] = IF @ = "refresh" THEN @ ELSE "work"]
    /\ UNCHANGED <<kind, tries, recorded, told, answer>>

\* Mutant: the retry loop takes the pool's timeout for a conflict it lost.
TimeOutAsBusy(r) ==
    /\ MayTimeOut
    /\ r \in waiting
    /\ ~ Free
    /\ Finish(r, "busy")
    /\ waiting' = waiting \ {r}
    /\ UNCHANGED <<kind, tries, recorded, told>>

\* sqlalchemy's pool_timeout: the exception ends the request with a 500.
TimeOut(r) ==
    /\ MayTimeOut
    /\ r \in waiting
    /\ ~ Free
    /\ Finish(r, "error")
    /\ waiting' = waiting \ {r}
    /\ UNCHANGED <<kind, tries, recorded, told>>

-----------------------------------------------------------------------------
(* The requests *)

\* A request that only reads, a login say, ends with its statements.
Serve(r) ==
    /\ pc[r] = "work" /\ kind[r] = "read"
    /\ Finish(r, "ok")
    /\ UNCHANGED <<kind, waiting, tries, recorded, told>>

\* A check raises, or a commit that is not tried again fails.
Refuse(r) ==
    /\ pc[r] = "work"
    /\ Finish(r, "refused")
    /\ UNCHANGED <<kind, waiting, tries, recorded, told>>

\* Mutant: the bid is read again in a session of its own while the first keeps
\* its connection.
CommitAndKeep(r) ==
    /\ pc[r] = "work" /\ kind[r] # "read"
    /\ recorded' = recorded \cup {r}
    /\ Goto(r, IF kind[r] = "close" THEN "broadcast" ELSE "refresh")
    /\ waiting' = IF kind[r] = "close" THEN waiting ELSE waiting \cup {r}
    /\ UNCHANGED <<kind, held, tries, told, answer>>

\* Every service function but close_auction reads the row it wrote again.
Commit(r) ==
    /\ pc[r] = "work" /\ kind[r] # "read"
    /\ recorded' = recorded \cup {r}
    /\ Goto(r, IF kind[r] = "close" THEN "broadcast" ELSE "refresh")
    /\ Release(r)
    /\ UNCHANGED <<kind, waiting, tries, told, answer>>

\* StaleDataError: another transaction committed first.
Conflict(r) ==
    /\ pc[r] = "work" /\ kind[r] \in {"bid", "close"}
    /\ tries' = [tries EXCEPT ![r] = @ + 1]
    /\ \/ tries[r] + 1 < MaxRetries /\ Goto(r, "again") /\ Release(r) /\ UNCHANGED answer
       \/ tries[r] + 1 = MaxRetries /\ Finish(r, "busy")
    /\ UNCHANGED <<kind, waiting, recorded, told>>

\* The refresh opens a transaction, which the broadcast and the answer keep open.
Refresh(r) ==
    /\ pc[r] = "refresh" /\ r \in held
    /\ \/ kind[r] = "bid" /\ Goto(r, "broadcast") /\ UNCHANGED <<held, answer>>
       \/ kind[r] = "write" /\ Finish(r, "ok")
    /\ UNCHANGED <<kind, waiting, tries, recorded, told>>

\* Mutant: the connection of an answered bid does not go back.
AnswerAndKeep(r) ==
    /\ pc[r] = "broadcast"
    /\ told' = told \cup {r}
    /\ Goto(r, "ended")
    /\ answer' = [answer EXCEPT ![r] = "ok"]
    /\ UNCHANGED <<kind, held, waiting, tries, recorded>>

\* Every subscriber's send ended (CastEnds of Rooms).
Answer(r) ==
    /\ pc[r] = "broadcast"
    /\ told' = told \cup {r}
    /\ Finish(r, "ok")
    /\ UNCHANGED <<kind, waiting, tries, recorded>>

Work(r) == Serve(r) \/ Refuse(r) \/ Commit(r) \/ Conflict(r) \/ Refresh(r) \/ Answer(r)

Next == \E r \in Requests : Ask(r) \/ Checkout(r) \/ TimeOut(r) \/ Work(r)

Spec == Init /\ [][Next]_vars

\* Statements and broadcasts end, and the pool serves those that wait.  No request is
\* made to arrive, none has to time out.
FairSpec ==
    /\ Spec
    /\ \A r \in Requests :
          /\ WF_vars(pc[r] # "arrived" /\ Ask(r))
          /\ WF_vars(Checkout(r))
          /\ WF_vars(Work(r))

-----------------------------------------------------------------------------
(* Properties *)

\* Nobody waits for a connection while holding one, and the ended hold none:
\* connections are never waited for in a circle, and none leaks.
HoldersWork ==
    \A r \in Requests :
        /\ r \in held => r \notin waiting /\ pc[r] # "ended"
        /\ pc[r] = "ended" => r \notin waiting

\* An answer tells what became of the request, although a connection may have to
\* be waited for, in vain, between the commit and the answer: what was answered
\* well is recorded, what was refused or given up is not and may be sent again.
AnswersAreTrue ==
    \A r \in Requests :
        /\ answer[r] = "ok" /\ kind[r] # "read" => r \in recorded
        /\ answer[r] \in {"refused", "busy"} => r \notin recorded

\* Every request that waits for a connection ends, even if no wait is ever cut
\* short: the pool cannot deadlock, although bids take two connections in turn
\* and broadcast with the second in hand.
WaitersEnd == \A r \in Requests : r \in waiting ~> pc[r] = "ended"

\* "Every accepted bid must be sent to all subscribers of the lot"
\* (docs/architecture.md:15): a bid that committed is broadcast before its
\* request ends.
AcceptedIsBroadcast ==
    \A r \in Requests : kind[r] = "bid" /\ r \in recorded /\ pc[r] = "ended" => r \in told
=============================================================================
