------------------------------- MODULE Bidding -------------------------------
(***************************************************************************)
(* Bids on one auction, and its closing: app/services/bidding.py,          *)
(* app/services/auctions.py and their routes in app/api/routes/auctions.py.*)
(*                                                                         *)
(* Every HTTP request is a process that awaits the database between its    *)
(* statements.  One action is what happens at one statement (its effect on *)
(* the database and the Python code up to the next await):                 *)
(*                                                                         *)
(*   arrived -Authenticate-> read_auction -ReadAuction-> read_user         *)
(*     -ReadUser-> validate -Validate-> commit -CommitBid-> broadcast      *)
(*     -Broadcast-> done                                                   *)
(*                                                                         *)
(* with Stale leading from commit back to read_auction, and every refusal  *)
(* to done.  A request to close skips read_user and validate.  The flushed *)
(* UPDATE holds the row lock until its COMMIT, so both are one action.     *)
(***************************************************************************)
EXTENDS UserTable, Sequences

CONSTANTS BidRequests,    \* POST /auctions/{id}/bids requests
          CloseRequests,  \* POST /auctions/{id}/close requests
          Amounts,        \* the amounts bid
          StartPrice,     \* starting_price of the auction
          MaxRetries,     \* MAX_RETRIES of services/auctions.py
          LastInstant,    \* the clock runs from 0 to LastInstant
          Schedules,      \* the [starts, ends] pairs an auction may be created with
          InitialUsers,   \* the users tables the model may start from
          Clients,        \* who may send the requests: functions to Users
          Offers,         \* what they may bid: functions to Amounts
          MayCrash,       \* whether the server may stop, or fail a request, midway
          None            \* NULL

Requests == BidRequests \cup CloseRequests
Instants == 0 .. LastInstant

\* The bodies create_auction accepts.
AuctionCreate == {body \in [starts : Nat, ends : Nat] : body.starts < body.ends}

ASSUME BiddingAssumption ==
    /\ BidRequests \cap CloseRequests = {}
    /\ Amounts \subseteq Nat \ {0}
    /\ StartPrice \in Nat \ {0}
    /\ MaxRetries \in Nat \ {0}
    /\ LastInstant \in Nat
    /\ Schedules \subseteq AuctionCreate
    /\ InitialUsers \subseteq [Users -> UserRow]
    /\ Clients \subseteq [Requests -> Users]
    /\ Offers \subseteq [Requests -> Amounts]
    /\ MayCrash \in BOOLEAN
    /\ None \notin Users

Statuses == {"scheduled", "active", "finished"}

\* A row of the auctions table, and any snapshot of it a session holds.
AuctionRow == [status : Statuses, price : Nat, leader : Users \cup {None},
               version : Nat, starts : Nat, ends : Nat]

\* A row of the bids table; `request' is not a column, it tells whose INSERT
\* this is.  Ids follow the order of commits: a bid is inserted by a session
\* that has seen the previous commit.
BidRow == [request : BidRequests, user : Users, amount : Amounts]

Labels == {"arrived", "read_auction", "read_user", "validate", "commit",
           "broadcast", "done", "lost"}

Answers == {"none", "accepted", "closed", "forbidden", "not_active", "leading",
            "too_low", "poor", "busy", "already_closed"}

Messages == [type : {"new_bid", "auction_closed"}, request : Requests,
             user : Users \cup {None}, amount : Nat]

VARIABLES
    auction,    \* the row of the auction
    bids,       \* the rows of bids of this auction, by id
    now,        \* the clock
    client,     \* the user each request's token names
    offer,      \* the amount of each request's body (unused when closing)
    pc,         \* where each request is
    seen,       \* the Auction object of each request's session
    funds,      \* the balance of the User object of each request's session
    tries,      \* the failed attempts of each request's retry loop
    answer,     \* what each finished request answered
    announced,  \* the messages sent to the auction's room
    since       \* history: the row's version at each request's first read

dbVars == <<users, auction, bids>>
inputs == <<client, offer>>
vars == <<users, auction, bids, now, client, offer, pc, seen, funds, tries,
          answer, announced, since>>

TypeOK ==
    /\ users \in [Users -> UserRow]
    /\ auction \in AuctionRow
    /\ bids \in Seq(BidRow)
    /\ now \in Instants
    /\ client \in [Requests -> Users]
    /\ offer \in [Requests -> Amounts]
    /\ pc \in [Requests -> Labels]
    /\ seen \in [Requests -> AuctionRow]
    /\ funds \in [Requests -> 0 .. MaxBalance]
    /\ tries \in [Requests -> 0 .. MaxRetries]
    /\ answer \in [Requests -> Answers]
    /\ announced \subseteq Messages
    /\ since \in [Requests -> Nat]

-----------------------------------------------------------------------------
(* The auction row *)

\* The row create_auction leaves, for an auction created at instant t.
CreatedAuction(schedule, t) ==
    [status  |-> IF schedule.starts <= t THEN "active" ELSE "scheduled",
     price   |-> StartPrice,
     leader  |-> None,
     version |-> 1,
     starts  |-> schedule.starts,
     ends    |-> schedule.ends]

\* Mutant: an explicit close does not take precedence over the times.
StatusByTime(row, t) ==
    IF t < row.starts THEN "scheduled"
    ELSE IF t >= row.ends THEN "finished"
    ELSE "active"

EffectiveStatus(row, t) ==
    IF row.status = "finished" THEN "finished"
    ELSE IF t < row.starts THEN "scheduled"
    ELSE IF t >= row.ends THEN "finished"
    ELSE "active"

\* Mutant: no "you are already the highest bidder".
RefusalWithoutLeader(row, u, amount, balance, t) ==
    IF EffectiveStatus(row, t) # "active" THEN "not_active"
    ELSE IF IF row.leader = None THEN amount < row.price ELSE amount <= row.price
         THEN "too_low"
    ELSE IF balance < amount THEN "poor"
    ELSE "none"

\* Mutant: the balance is compared with the current price, not with the bid.
RefusalByPrice(row, u, amount, balance, t) ==
    IF EffectiveStatus(row, t) # "active" THEN "not_active"
    ELSE IF row.leader = u THEN "leading"
    ELSE IF IF row.leader = None THEN amount < row.price ELSE amount <= row.price
         THEN "too_low"
    ELSE IF balance < row.price THEN "poor"
    ELSE "none"

\* Mutant: the stored status is checked, which stays "active" past ends_at.
RefusalByStoredStatus(row, u, amount, balance, t) ==
    IF row.status # "active" THEN "not_active"
    ELSE IF row.leader = u THEN "leading"
    ELSE IF IF row.leader = None THEN amount < row.price ELSE amount <= row.price
         THEN "too_low"
    ELSE IF balance < amount THEN "poor"
    ELSE "none"

\* What _validate_bid finds wrong with a bid, "none" when it raises nothing.
\* The order is the order of the checks.
Refusal(row, u, amount, balance, t) ==
    IF EffectiveStatus(row, t) # "active" THEN "not_active"
    ELSE IF row.leader = u THEN "leading"
    ELSE IF IF row.leader = None THEN amount < row.price ELSE amount <= row.price
         THEN "too_low"
    ELSE IF balance < amount THEN "poor"
    ELSE "none"

-----------------------------------------------------------------------------
(* The steps of a request *)

Init ==
    /\ users \in InitialUsers
    /\ now = 0
    /\ \E schedule \in Schedules : auction = CreatedAuction(schedule, now)
    /\ bids = << >>
    /\ client \in Clients
    /\ offer \in Offers
    /\ pc = [p \in Requests |-> "arrived"]
    /\ seen = [p \in Requests |-> auction]
    /\ funds = [p \in Requests |-> 0]
    /\ tries = [p \in Requests |-> 0]
    /\ answer = [p \in Requests |-> "none"]
    /\ announced = {}
    /\ since = [p \in Requests |-> auction.version]

Goto(p, label) == pc' = [pc EXCEPT ![p] = label]

Finish(p, result) ==
    /\ Goto(p, "done")
    /\ answer' = [answer EXCEPT ![p] = result]

\* require_user for a bid, require_admin for a closing: get_current_user reads
\* the row by the id in the token.
Admitted(p) ==
    /\ users[client[p]].active
    /\ users[client[p]].role = IF p \in BidRequests THEN "user" ELSE "admin"

Authenticate(p) ==
    /\ pc[p] = "arrived"
    /\ \/ Admitted(p) /\ Goto(p, "read_auction") /\ UNCHANGED answer
       \/ ~ Admitted(p) /\ Finish(p, "forbidden")
    /\ UNCHANGED <<dbVars, now, inputs, seen, funds, tries, announced, since>>

\* session.get(Auction, id, populate_existing=True).  Closing looks at the
\* stored status here, with no await before it.
ReadAuction(p) ==
    /\ pc[p] = "read_auction"
    /\ seen' = [seen EXCEPT ![p] = auction]
    /\ since' = [since EXCEPT ![p] = IF tries[p] = 0 THEN auction.version ELSE @]
    /\ \/ p \in BidRequests /\ Goto(p, "read_user") /\ UNCHANGED answer
       \/ /\ p \in CloseRequests
          /\ auction.status # "finished"
          /\ Goto(p, "commit")
          /\ UNCHANGED answer
       \/ /\ p \in CloseRequests
          /\ auction.status = "finished"
          /\ Finish(p, "already_closed")
    /\ UNCHANGED <<dbVars, now, inputs, funds, tries, announced>>

\* session.get(User, id, populate_existing=True); the role is not checked again.
ReadUser(p) ==
    /\ pc[p] = "read_user"
    /\ funds' = [funds EXCEPT ![p] = users[client[p]].balance]
    /\ \/ users[client[p]].active /\ Goto(p, "validate") /\ UNCHANGED answer
       \/ ~ users[client[p]].active /\ Finish(p, "forbidden")
    /\ UNCHANGED <<dbVars, now, inputs, seen, tries, announced, since>>

\* _validate_bid on the two snapshots and the clock.
Validate(p) ==
    LET refusal == Refusal(seen[p], client[p], offer[p], funds[p], now)
    IN /\ pc[p] = "validate"
       /\ \/ refusal = "none" /\ Goto(p, "commit") /\ UNCHANGED answer
          \/ refusal # "none" /\ Finish(p, refusal)
       /\ UNCHANGED <<dbVars, now, inputs, seen, funds, tries, announced, since>>

\* Mutant: no version_id_col, the UPDATE always matches.
Unversioned(p) == pc[p] = "commit"

\* UPDATE auctions ... WHERE version = :seen matches the row.
Fresh(p) == auction.version = seen[p].version

\* The UPDATE writes the changed columns only; the INSERT of the bid is in the
\* same transaction.
CommitBid(p) ==
    /\ pc[p] = "commit"
    /\ p \in BidRequests
    /\ Fresh(p)
    /\ auction' = [auction EXCEPT !.price = offer[p],
                                  !.leader = client[p],
                                  !.version = seen[p].version + 1]
    /\ bids' = Append(bids, [request |-> p, user |-> client[p], amount |-> offer[p]])
    /\ Goto(p, "broadcast")
    /\ UNCHANGED <<users, now, inputs, seen, funds, tries, answer, announced, since>>

\* The Auction object keeps what it read (expire_on_commit=False).
CommitClose(p) ==
    /\ pc[p] = "commit"
    /\ p \in CloseRequests
    /\ Fresh(p)
    /\ auction' = [auction EXCEPT !.status = "finished",
                                  !.version = seen[p].version + 1]
    /\ seen' = [seen EXCEPT ![p] = [seen[p] EXCEPT !.status = "finished",
                                                   !.version = auction'.version]]
    /\ Goto(p, "broadcast")
    /\ UNCHANGED <<users, bids, now, inputs, funds, tries, answer, announced, since>>

\* Mutant: one attempt less.
OneTryLess(p) == tries[p] + 2 < MaxRetries

\* The retry loop has another round for a request whose commit failed.
MoreTries(p) == tries[p] + 1 < MaxRetries

\* Mutant: the INSERT of the bid survives the failed UPDATE.
KeepInsert(p) ==
    /\ bids' = IF p \in BidRequests
               THEN Append(bids, [request |-> p, user |-> client[p], amount |-> offer[p]])
               ELSE bids
    /\ UNCHANGED <<users, auction>>

RollBack(p) == UNCHANGED dbVars

\* Mutant: the write is tried again without reading the auction afresh.
RetryWrite(p) ==
    /\ pc[p] = "commit"
    /\ ~ Fresh(p)
    /\ RollBack(p)
    /\ UNCHANGED <<now, inputs, pc, seen, funds, tries, answer, announced, since>>

\* StaleDataError: roll back, then read again or give up.
Stale(p) ==
    /\ pc[p] = "commit"
    /\ ~ Fresh(p)
    /\ RollBack(p)
    /\ tries' = [tries EXCEPT ![p] = @ + 1]
    /\ \/ MoreTries(p) /\ Goto(p, "read_auction") /\ UNCHANGED answer
       \/ ~ MoreTries(p) /\ Finish(p, "busy")
    /\ UNCHANGED <<now, inputs, seen, funds, announced, since>>

\* What the route sends to the room before it answers.
Message(p) ==
    IF p \in BidRequests
    THEN [type |-> "new_bid", request |-> p, user |-> client[p], amount |-> offer[p]]
    ELSE [type |-> "auction_closed", request |-> p, user |-> seen[p].leader,
          amount |-> seen[p].price]

Broadcast(p) ==
    /\ pc[p] = "broadcast"
    /\ announced' = announced \cup {Message(p)}
    /\ Finish(p, IF p \in BidRequests THEN "accepted" ELSE "closed")
    /\ UNCHANGED <<dbVars, now, inputs, seen, funds, tries, since>>

Step(p) ==
    \/ Authenticate(p)
    \/ ReadAuction(p)
    \/ ReadUser(p)
    \/ Validate(p)
    \/ CommitBid(p)
    \/ CommitClose(p)
    \/ Stale(p)
    \/ Broadcast(p)

-----------------------------------------------------------------------------
(* The rest of the world *)

Tick ==
    /\ now < LastInstant
    /\ now' = now + 1
    /\ UNCHANGED <<dbVars, inputs, pc, seen, funds, tries, answer, announced, since>>

\* Another request changes the users table.
OtherCommit ==
    /\ UserCommit
    /\ UNCHANGED <<auction, bids, now, inputs, pc, seen, funds, tries, answer,
                   announced, since>>

Running(p) == pc[p] \notin {"arrived", "done", "lost"}

\* The server process stops, or an error nobody handles (the connection to the
\* database breaks, the pool has none left) ends some requests: they finish
\* without a definite answer, open transactions are rolled back, committed rows
\* stay.
Crash ==
    /\ MayCrash
    /\ \E hit \in SUBSET {p \in Requests : Running(p)} :
          /\ hit # {}
          /\ pc' = [p \in Requests |-> IF p \in hit THEN "lost" ELSE pc[p]]
    /\ UNCHANGED <<dbVars, now, inputs, seen, funds, tries, answer, announced, since>>

Next ==
    \/ \E p \in Requests : Step(p)
    \/ Tick
    \/ OtherCommit
    \/ Crash

Spec == Init /\ [][Next]_vars

\* The event loop runs every request that can run, and the database answers.
FairSpec == Spec /\ \A p \in Requests : WF_vars(Step(p))

-----------------------------------------------------------------------------
(* Safety *)

Leading == bids[Len(bids)]

\* The row and the log are written by one transaction and agree: before the
\* first bid the price is the starting price, afterwards price and leader are
\* those of the last accepted bid, whatever sessions interleaved.
RowMatchesLog ==
    IF bids = << >>
    THEN auction.leader = None /\ auction.price = StartPrice
    ELSE auction.leader = Leading.user /\ auction.price = Leading.amount

\* Accepted bids rise strictly from the starting price, and nobody outbids
\* himself, although each was validated against a snapshot.
LogRises ==
    \A i \in DOMAIN bids :
        IF i = 1 THEN bids[i].amount >= StartPrice
        ELSE /\ bids[i].amount > bids[i - 1].amount
             /\ bids[i].user # bids[i - 1].user

\* No update of the row is lost: its version counts every accepted bid and the
\* closing, which therefore happens at most once.
VersionCountsCommits ==
    auction.version = 1 + Len(bids) + (IF auction.status = "finished" THEN 1 ELSE 0)

\* A bid is in the log exactly when its request committed; a retry never records
\* it twice and a refused request leaves nothing behind.  Only a crash or an
\* unhandled error leaves the client without knowing which.
RecordedOnce ==
    /\ \A i, j \in DOMAIN bids : bids[i].request = bids[j].request => i = j
    /\ \A p \in BidRequests :
          LET recorded == \E i \in DOMAIN bids : bids[i].request = p
          IN /\ pc[p] = "broadcast" \/ answer[p] = "accepted" => recorded
             /\ recorded => \/ pc[p] \in {"broadcast", "lost"}
                            \/ answer[p] = "accepted"

\* Every accepted bid is within the balance of its bidder: funds are checked on
\* a row read before the commit, which only deposits can have changed since.
BidsCovered == \A i \in DOMAIN bids : bids[i].amount <= users[bids[i].user].balance

\* The winner and the final price announced when an auction is closed come from
\* the session's own object; they are those of the row, for good.
WinnerIsFinal ==
    \A m \in announced :
        m.type = "auction_closed" =>
            /\ auction.status = "finished"
            /\ m.user = auction.leader
            /\ m.amount = auction.price

\* A request answers "busy" only if at least MaxRetries other transactions
\* changed the auction while it ran: conflicts mean that somebody progressed.
BusyMeansOvertaken ==
    \A p \in Requests :
        answer[p] = "busy" => auction.version >= since[p] + MaxRetries

\* Why a bid above the price may be gone although its request was answered.
\* Besides the refusals that are not about the price there are two ways: giving
\* up after MaxRetries conflicts, and "you are already the highest bidder"
\* (bidding.py:54) said on a row, read while the request ran, that the bidder's
\* own recorded bid still led, even if he has been overtaken since.  A bid that
\* was accepted, or called too low on whatever stale row, never exceeds the price.
BidsForgottenForCause ==
    \A p \in BidRequests :
        pc[p] = "done" /\ offer[p] > auction.price =>
            \/ answer[p] \in {"forbidden", "not_active"}
            \/ answer[p] = "poor" /\ funds[p] < offer[p]
            \/ answer[p] = "busy" /\ auction.version >= since[p] + MaxRetries
            \/ LET led == seen[p].version - 1    \* the bid that leads the row read
               IN /\ answer[p] = "leading"
                  /\ seen[p].version >= since[p]
                  /\ led \in DOMAIN bids
                  /\ bids[led].user = client[p]

\* No bid is accepted before the auction starts.
NoEarlyBid == bids # << >> => now >= auction.starts

\* The price never rolls back, the log only grows, and a finished auction does
\* not change any more.
NeverRollsBack ==
    [][/\ auction'.price >= auction.price
       /\ Len(bids') >= Len(bids)
       /\ SubSeq(bids', 1, Len(bids)) = bids
       /\ auction.status = "finished" => UNCHANGED <<auction, bids>>]_vars

\* What the service promises: every accepted bid and the closing happen at one
\* instant of an ascending auction.
Promise == INSTANCE EnglishAuction WITH
    Bidders <- Users, Attempts <- BidRequests, log <- bids,
    open <- (auction.status # "finished")

ImplementsEnglishAuction == Promise!Spec

-----------------------------------------------------------------------------
(* What tests and comments of the repository say, and the code does not keep *)

\* "the highest of all attempted bids can never be lost"
\* (tests/test_auctions.py:194): when different users bid at the same moment on
\* a running auction they can all afford, the highest offer is the final price.
HighestBidNeverLost ==
    (\A p \in Requests : pc[p] = "done") =>
        \A p \in BidRequests : offer[p] <= auction.price

\* "a demoted or deactivated user loses access immediately" (api/deps.py:29):
\* no bid is recorded for a user who is blocked or no longer a bidder.
BlockedUserNeverBids ==
    [][bids' # bids =>
          LET u == bids'[Len(bids')].user
          IN users[u].active /\ users[u].role = "user"]_vars

-----------------------------------------------------------------------------
(* Liveness *)

\* Every request ends: it is answered, or lost to a crash or an error.  The retry loop
\* cannot keep it for ever.
EveryRequestEnds == \A p \in Requests : <>(pc[p] \in {"done", "lost"})
=============================================================================
