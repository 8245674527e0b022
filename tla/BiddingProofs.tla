---------------------------- MODULE BiddingProofs ----------------------------
(***************************************************************************)
(* Theorems about Bidding, for any users, requests, amounts, schedule and  *)
(* number of retries.                                                      *)
(***************************************************************************)
EXTENDS BiddingInvariant, TLAPS

\* The variables have their types after the initial state and every step: the
\* first fact every other proof rests on.
LEMMA InitTyped == Init => Typed
<1>1. SUFFICES ASSUME Init PROVE Typed
  OBVIOUS
<1>2. PICK schedule \in Schedules : auction = CreatedAuction(schedule, now)
  BY <1>1 DEF Init
<1>3. schedule \in [starts : Nat, ends : Nat]
  BY <1>2, BiddingAssumption DEF AuctionCreate
<1>4. auction \in AuctionRow
  BY <1>2, <1>3, BiddingAssumption DEF CreatedAuction, AuctionRow, Statuses
<1>5. users \in [Users -> UserRow] /\ client \in [Requests -> Users]
      /\ offer \in [Requests -> Amounts]
  BY <1>1, BiddingAssumption DEF Init
<1>6. auction.version \in Nat
  BY <1>4 DEF AuctionRow
<1>7. bids \in Seq(BidRow)
  BY <1>1 DEF Init
<1>8. 0 \in 0 .. MaxBalance /\ 0 \in 0 .. MaxRetries /\ 0 \in Instants
  BY BiddingAssumption, UserTableAssumption DEF Instants
<1>9. /\ pc \in [Requests -> Labels]
      /\ seen \in [Requests -> AuctionRow]
      /\ funds \in [Requests -> 0 .. MaxBalance]
      /\ tries \in [Requests -> 0 .. MaxRetries]
      /\ answer \in [Requests -> Answers]
      /\ since \in [Requests -> Nat]
      /\ announced \subseteq Messages
  BY <1>1, <1>4, <1>6, <1>8 DEF Init, Labels, Answers
<1> QED
  BY <1>1, <1>4, <1>5, <1>7, <1>8, <1>9, BiddingAssumption DEF Init, TypeOK, Typed, TriesBounded

\* A commit of another session to the users table keeps its type.
LEMMA UserCommitType ==
    ASSUME users \in [Users -> UserRow], UserCommit
    PROVE  users' \in [Users -> UserRow]
<1>1. PICK u \in Users : \/ \E patch \in Patches : CommitPatch(u, patch)
                         \/ \E amount \in Deposits : CommitDeposit(u, amount)
  BY DEF UserCommit
<1>2. CASE \E patch \in Patches : CommitPatch(u, patch)
  <2>1. PICK patch \in Patches : CommitPatch(u, patch)
    BY <1>2
  <2>2. patch.role \in Roles /\ patch.active \in BOOLEAN
    BY <2>1, UserTableAssumption
  <2> QED
    BY <2>1, <2>2 DEF CommitPatch, UserRow
<1>3. CASE \E amount \in Deposits : CommitDeposit(u, amount)
  <2>1. PICK amount \in Deposits : CommitDeposit(u, amount)
    BY <1>3
  <2>2. amount \in Nat \ {0} /\ MaxBalance \in Nat
    BY <2>1, UserTableAssumption
  <2>3. users[u].balance + amount \in 0 .. MaxBalance
    BY <2>1, <2>2 DEF CommitDeposit, UserRow
  <2> QED
    BY <2>1, <2>3 DEF CommitDeposit, UserRow
<1> QED
  BY <1>1, <1>2, <1>3

\* Each statement of a request keeps every variable within its type.
LEMMA StepTyped ==
    ASSUME Typed, NEW p \in Requests, Step(p)
    PROVE  Typed'
<1> USE DEF Typed, TypeOK
<1>1. ASSUME pc[p] # "done", tries' = tries, NEW label \in Labels, Goto(p, label)
      PROVE  pc' \in [Requests -> Labels] /\ TriesBounded'
  BY <1>1 DEF Goto, TriesBounded
<1>2. ASSUME tries' = tries, NEW result \in Answers, Finish(p, result)
      PROVE  /\ pc' \in [Requests -> Labels] /\ TriesBounded'
             /\ answer' \in [Requests -> Answers]
  BY <1>2 DEF Finish, Goto, Labels, TriesBounded
<1>a. /\ "read_auction" \in Labels /\ "read_user" \in Labels
      /\ "validate" \in Labels /\ "commit" \in Labels /\ "broadcast" \in Labels
  BY DEF Labels
<1>b. /\ "forbidden" \in Answers /\ "accepted" \in Answers /\ "closed" \in Answers
      /\ "already_closed" \in Answers /\ "busy" \in Answers
  BY DEF Answers
<1>3. CASE Authenticate(p)
  <2>1. /\ UNCHANGED <<users, auction, bids, now, client, offer, seen, funds,
                       tries, announced, since>>
        /\ pc[p] # "done"
    BY <1>3 DEF Authenticate, dbVars, inputs
  <2>2. CASE Goto(p, "read_auction") /\ UNCHANGED answer
    BY <1>1, <1>a, <2>1, <2>2
  <2>3. CASE Finish(p, "forbidden")
    BY <1>2, <1>b, <2>1, <2>3
  <2> QED
    BY <1>3, <2>2, <2>3 DEF Authenticate
<1>4. CASE ReadAuction(p)
  <2>1. /\ UNCHANGED <<users, auction, bids, now, client, offer, funds, tries,
                       announced>>
        /\ pc[p] # "done"
    BY <1>4 DEF ReadAuction, dbVars, inputs
  <2>2. seen' \in [Requests -> AuctionRow] /\ since' \in [Requests -> Nat]
    BY <1>4 DEF ReadAuction, AuctionRow
  <2>3. CASE Goto(p, "read_user") /\ UNCHANGED answer
    BY <1>1, <1>a, <2>1, <2>2, <2>3
  <2>4. CASE Goto(p, "commit") /\ UNCHANGED answer
    BY <1>1, <1>a, <2>1, <2>2, <2>4
  <2>5. CASE Finish(p, "already_closed")
    BY <1>2, <1>b, <2>1, <2>2, <2>5
  <2> QED
    BY <1>4, <2>3, <2>4, <2>5 DEF ReadAuction
<1>5. CASE ReadUser(p)
  <2>1. /\ UNCHANGED <<users, auction, bids, now, client, offer, seen, tries,
                       announced, since>>
        /\ pc[p] # "done"
    BY <1>5 DEF ReadUser, dbVars, inputs
  <2>2. funds' \in [Requests -> 0 .. MaxBalance]
    BY <1>5 DEF ReadUser, UserRow
  <2>3. CASE Goto(p, "validate") /\ UNCHANGED answer
    BY <1>1, <1>a, <2>1, <2>2, <2>3
  <2>4. CASE Finish(p, "forbidden")
    BY <1>2, <1>b, <2>1, <2>2, <2>4
  <2> QED
    BY <1>5, <2>3, <2>4 DEF ReadUser
<1>6. CASE Validate(p)
  <2> DEFINE refusal == Refusal(seen[p], client[p], offer[p], funds[p], now)
  <2>1. /\ UNCHANGED <<users, auction, bids, now, client, offer, seen, funds,
                       tries, announced, since>>
        /\ pc[p] # "done"
    BY <1>6 DEF Validate, dbVars, inputs
  <2>2. refusal \in Answers
    BY DEF Refusal, Answers
  <2>3. CASE Goto(p, "commit") /\ UNCHANGED answer
    BY <1>1, <1>a, <2>1, <2>3
  <2>4. CASE Finish(p, refusal)
    BY <1>2, <2>1, <2>2, <2>4
  <2> QED
    BY <1>6, <2>3, <2>4 DEF Validate
<1>7. CASE CommitBid(p)
  <2>1. /\ UNCHANGED <<users, now, client, offer, seen, funds, tries, answer,
                       announced, since>>
        /\ pc[p] # "done" /\ Goto(p, "broadcast")
    BY <1>7 DEF CommitBid, inputs
  <2>2. /\ client[p] \in Users /\ offer[p] \in Amounts /\ offer[p] \in Nat
        /\ seen[p].version + 1 \in Nat
    <3>1. seen[p] \in AuctionRow /\ client[p] \in Users /\ offer[p] \in Amounts
      OBVIOUS
    <3>2. Amounts \subseteq Nat
      BY BiddingAssumption
    <3>3. seen[p].version \in Nat
      BY <3>1 DEF AuctionRow
    <3>4. offer[p] \in Nat
      BY <3>1, <3>2
    <3> QED
      BY <3>1, <3>3, <3>4
  <2>3. auction' \in AuctionRow
    BY <1>7, <2>2 DEF CommitBid, AuctionRow
  <2>4. [request |-> p, user |-> client[p], amount |-> offer[p]] \in BidRow
    BY <1>7, <2>2 DEF CommitBid, BidRow
  <2>5. bids' \in Seq(BidRow)
    BY <1>7, <2>4 DEF CommitBid
  <2> QED
    BY <1>1, <1>a, <2>1, <2>3, <2>5
<1>8. CASE CommitClose(p)
  <2>1. /\ UNCHANGED <<users, bids, now, client, offer, funds, tries, answer,
                       announced, since>>
        /\ pc[p] # "done" /\ Goto(p, "broadcast")
    BY <1>8 DEF CommitClose, inputs
  <2>2. seen[p].version + 1 \in Nat /\ "finished" \in Statuses
    BY DEF AuctionRow, Statuses
  <2>3. auction' \in AuctionRow
    BY <1>8, <2>2 DEF CommitClose, AuctionRow
  <2>4. [seen[p] EXCEPT !.status = "finished", !.version = auction'.version]
          \in AuctionRow
    BY <2>2, <2>3 DEF AuctionRow
  <2>5. seen' \in [Requests -> AuctionRow]
    BY <1>8, <2>4 DEF CommitClose
  <2> QED
    BY <1>1, <1>a, <2>1, <2>3, <2>5
<1>9. CASE Stale(p)
  <2>1. /\ UNCHANGED <<users, auction, bids, now, client, offer, seen, funds,
                       announced, since>>
        /\ pc[p] # "done"
        /\ tries' = [tries EXCEPT ![p] = @ + 1]
    BY <1>9 DEF Stale, RollBack, dbVars, inputs
  <2>2. MaxRetries \in Nat \ {0} /\ tries[p] < MaxRetries
    BY <2>1, BiddingAssumption DEF TriesBounded
  <2>3. tries' \in [Requests -> 0 .. MaxRetries]
    BY <2>1, <2>2
  <2>4. CASE MoreTries(p) /\ Goto(p, "read_auction") /\ UNCHANGED answer
    <3>1. TriesBounded'
      BY <2>1, <2>4 DEF MoreTries, Goto, TriesBounded
    <3> QED
      BY <1>a, <2>1, <2>3, <2>4, <3>1 DEF Goto
  <2>5. CASE Finish(p, "busy")
    <3>1. TriesBounded'
      BY <2>1, <2>5 DEF Finish, Goto, TriesBounded
    <3>2. "done" \in Labels
      BY DEF Labels
    <3> QED
      BY <1>b, <2>1, <2>3, <2>5, <3>1, <3>2 DEF Finish, Goto
  <2> QED
    BY <1>9, <2>4, <2>5 DEF Stale
<1>10. CASE Broadcast(p)
  <2>1. /\ UNCHANGED <<users, auction, bids, now, client, offer, seen, funds,
                       tries, since>>
        /\ announced' = announced \cup {Message(p)}
    BY <1>10 DEF Broadcast, dbVars, inputs
  <2>2. Message(p) \in Messages
    BY BiddingAssumption DEF Message, Messages, AuctionRow
  <2>3. pc' \in [Requests -> Labels] /\ TriesBounded' /\ answer' \in [Requests -> Answers]
    BY <1>2, <1>10, <1>b, <2>1 DEF Broadcast
  <2> QED
    BY <2>1, <2>2, <2>3
<1> QED
  BY <1>3, <1>4, <1>5, <1>6, <1>7, <1>8, <1>9, <1>10 DEF Step

\* So does every step of the system, or of nothing.
LEMMA NextTyped == Typed /\ [Next]_vars => Typed'
<1> SUFFICES ASSUME Typed, [Next]_vars PROVE Typed'
  OBVIOUS
<1>1. ASSUME NEW p \in Requests, Step(p) PROVE Typed'
  BY <1>1, StepTyped
<1>2. CASE Tick
  <2>1. now' \in Instants
    BY <1>2, BiddingAssumption DEF Tick, Typed, TypeOK, Instants
  <2> QED
    BY <1>2, <2>1 DEF Tick, Typed, TypeOK, TriesBounded, dbVars, inputs
<1>3. CASE OtherCommit
  BY <1>3, UserCommitType DEF OtherCommit, Typed, TypeOK, TriesBounded, inputs
<1>4. CASE Crash
  BY <1>4 DEF Crash, Running, Typed, TypeOK, TriesBounded, dbVars, inputs, Labels
<1>5. CASE UNCHANGED vars
  BY <1>5 DEF vars, Typed, TypeOK, TriesBounded
<1> QED
  BY <1>1, <1>2, <1>3, <1>4, <1>5 DEF Next

\* Every reachable state is well typed.
THEOREM TypeCorrect == Spec => []TypeOK
<1>1. Typed => TypeOK
  BY DEF Typed
<1> QED
  BY <1>1, InitTyped, NextTyped, PTL DEF Spec

-----------------------------------------------------------------------------
(* Safety *)

\* The labels before a request's commit: it has recorded nothing there.
Before == {"arrived", "read_auction", "read_user", "validate", "commit"}

\* A step of p leaves the session of every other request alone.
OnlyMoves(p) ==
    \A q \in Requests \ {p} :
        /\ pc'[q] = pc[q] /\ seen'[q] = seen[q] /\ funds'[q] = funds[q]
        /\ tries'[q] = tries[q] /\ answer'[q] = answer[q] /\ since'[q] = since[q]

\* The state in which every request starts.
LEMMA InitInvariant == Init => IInv
<1> SUFFICES ASSUME Init PROVE IInv
  OBVIOUS
<1>1. Typed
  BY InitTyped
<1>2. PICK schedule \in Schedules : auction = CreatedAuction(schedule, now)
  BY DEF Init
<1>3. auction.leader = None /\ auction.price = StartPrice /\ auction.version = 1
      /\ auction.status # "finished"
  BY <1>2 DEF CreatedAuction
<1>4. bids = << >> /\ announced = {}
  BY DEF Init
<1>5. \A p \in Requests : /\ pc[p] = "arrived" /\ seen[p] = auction
                          /\ tries[p] = 0 /\ answer[p] = "none"
                          /\ since[p] = auction.version
  BY DEF Init
<1>6. Tables
  BY <1>3, <1>4 DEF Tables, RowMatchesLog, LogRises, VersionCountsCommits,
                    BidsCovered, NoEarlyBid
<1>7. Outcomes
  BY <1>4, <1>5 DEF Outcomes, RecordedOnce, WinnerIsFinal, BusyMeansOvertaken,
                    JudgedBidsCounted, Requests
<1>8. ASSUME NEW p \in Requests PROVE Local(p)
  BY <1>3, <1>5 DEF Local, Snapshot, Checked, Committed, Overtaken, Answered
<1> QED
  BY <1>1, <1>6, <1>7, <1>8 DEF IInv

\* A step that writes no table and sends nothing: it suffices that the request
\* itself keeps its part of the invariant, and what it answers if it finishes.
LEMMA QuietStep ==
    ASSUME IInv, Typed', NEW p \in Requests, OnlyMoves(p),
           UNCHANGED <<users, auction, bids, now, client, offer, announced>>,
           pc[p] \in Before,
           \/ pc'[p] \in Before /\ answer'[p] = answer[p]
           \/ pc'[p] = "done" /\ answer'[p] # "accepted",
           answer'[p] = "busy" => auction.version >= since'[p] + MaxRetries,
           answer'[p] = "too_low" /\ p \in BidRequests => offer[p] <= auction.price,
           Local(p)'
    PROVE  IInv'
<1>1. Tables'
  BY DEF IInv, Tables, RowMatchesLog, Leading, LogRises, VersionCountsCommits,
         BidsCovered, NoEarlyBid
<1>2. answer[p] = "none"
  BY DEF IInv, Local, Answered, Before
<1>3. RecordedOnce'
  <2>1. ASSUME NEW q \in BidRequests
        PROVE  LET recorded == \E i \in DOMAIN bids : bids[i].request = q
               IN /\ pc'[q] = "broadcast" \/ answer'[q] = "accepted" => recorded
                  /\ recorded => \/ pc'[q] \in {"broadcast", "lost"}
                                 \/ answer'[q] = "accepted"
    <3>1. LET recorded == \E i \in DOMAIN bids : bids[i].request = q
          IN /\ pc[q] = "broadcast" \/ answer[q] = "accepted" => recorded
             /\ recorded => pc[q] \in {"broadcast", "lost"} \/ answer[q] = "accepted"
      BY DEF IInv, Outcomes, RecordedOnce
    <3>2. CASE q = p
      BY <1>2, <3>1, <3>2 DEF Before
    <3>3. CASE q # p
      BY <3>1, <3>3 DEF OnlyMoves, Requests
    <3> QED
      BY <3>2, <3>3
  <2> QED
    BY <2>1 DEF IInv, Outcomes, RecordedOnce
<1>4. WinnerIsFinal'
  BY DEF IInv, Outcomes, WinnerIsFinal
<1>5. BusyMeansOvertaken'
  BY DEF IInv, Outcomes, BusyMeansOvertaken, OnlyMoves
<1>6. JudgedBidsCounted'
  BY <1>2 DEF IInv, Outcomes, JudgedBidsCounted, OnlyMoves, Requests
<1>7. ASSUME NEW q \in Requests PROVE Local(q)'
  <2>1. CASE q = p
    BY <2>1
  <2>2. CASE q # p
    <3>1. Local(q)
      BY DEF IInv
    <3> QED
      BY <2>2, <3>1 DEF OnlyMoves, Local, Snapshot, Checked, Committed, Overtaken, Answered
  <2> QED
    BY <2>1, <2>2
<1> QED
  BY <1>1, <1>3, <1>4, <1>5, <1>6, <1>7 DEF IInv, Outcomes

\* Nobody else moves in a step of p.
LEMMA StepMovesOne ==
    ASSUME Typed, NEW p \in Requests, Step(p)
    PROVE  OnlyMoves(p)
<1>1. /\ pc \in [Requests -> Labels] /\ seen \in [Requests -> AuctionRow]
      /\ funds \in [Requests -> 0 .. MaxBalance] /\ answer \in [Requests -> Answers]
      /\ tries \in [Requests -> 0 .. MaxRetries] /\ since \in [Requests -> Nat]
  BY DEF Typed, TypeOK
<1> QED
  BY <1>1 DEF OnlyMoves, Step, Authenticate, ReadAuction, ReadUser, Validate,
              CommitBid, CommitClose, Stale, RollBack, Broadcast, Goto, Finish,
              dbVars, inputs

\* The numbers the conditions compare.
LEMMA Numbers ==
    ASSUME Typed, NEW p \in Requests
    PROVE  /\ auction.version \in Nat /\ auction.price \in Nat /\ auction.starts \in Nat
           /\ seen[p].version \in Nat /\ seen[p].price \in Nat /\ seen[p].starts \in Nat
           /\ offer[p] \in Nat /\ client[p] \in Users /\ client[p] # None
           /\ tries[p] \in Nat /\ since[p] \in Nat /\ now \in Nat
           /\ funds[p] \in Int /\ users[client[p]].balance \in Int
           /\ MaxRetries \in Nat
<1>1. auction \in AuctionRow /\ seen[p] \in AuctionRow /\ offer[p] \in Amounts
      /\ client[p] \in Users /\ users[client[p]] \in UserRow /\ tries[p] \in Nat
      /\ since[p] \in Nat /\ now \in Nat /\ funds[p] \in Int
  BY BiddingAssumption DEF Typed, TypeOK, Instants
<1>2. Amounts \subseteq Nat /\ None \notin Users /\ MaxRetries \in Nat
  BY BiddingAssumption
<1>3. users[client[p]].balance \in Int
  BY <1>1 DEF UserRow
<1> QED
  BY <1>1, <1>2, <1>3 DEF AuctionRow

\* Admitting or refusing a request (api/deps.py) keeps the invariant.
LEMMA AuthenticateSafe ==
    ASSUME IInv, Typed', NEW p \in Requests, Authenticate(p)
    PROVE  IInv'
<1>1. OnlyMoves(p)
  BY StepMovesOne DEF IInv, Step
<1>2. /\ UNCHANGED <<users, auction, bids, now, client, offer, announced, seen,
                     funds, tries, since>>
      /\ pc[p] = "arrived"
      /\ \/ pc'[p] = "read_auction" /\ answer'[p] = answer[p]
         \/ pc'[p] = "done" /\ answer'[p] = "forbidden"
  BY DEF Authenticate, Goto, Finish, dbVars, inputs, IInv, Typed, TypeOK
<1>3. Local(p)
  BY DEF IInv
<1>4. Local(p)'
  BY <1>2, <1>3 DEF Local, Snapshot, Checked, Committed, Overtaken, Answered
<1>5. answer[p] = "none"
  BY <1>2, <1>3 DEF Local, Answered
<1> QED
  BY <1>1, <1>2, <1>4, <1>5, QuietStep DEF Before

\* A fresh read of the row (services/bidding.py, line 24) gives a current snapshot.
LEMMA ReadAuctionSafe ==
    ASSUME IInv, Typed', NEW p \in Requests, ReadAuction(p)
    PROVE  IInv'
<1>1. OnlyMoves(p)
  BY StepMovesOne DEF IInv, Step
<1>2. /\ UNCHANGED <<users, auction, bids, now, client, offer, announced, funds, tries>>
      /\ pc[p] = "read_auction"
      /\ seen'[p] = auction
      /\ since'[p] = IF tries[p] = 0 THEN auction.version ELSE since[p]
      /\ \/ p \in BidRequests /\ pc'[p] = "read_user" /\ answer'[p] = answer[p]
         \/ /\ p \in CloseRequests /\ auction.status # "finished"
            /\ pc'[p] = "commit" /\ answer'[p] = answer[p]
         \/ pc'[p] = "done" /\ answer'[p] = "already_closed"
  BY DEF ReadAuction, Goto, Finish, dbVars, inputs, IInv, Typed, TypeOK
<1>3. Local(p) /\ Typed
  BY DEF IInv
<1>4. BidRequests \cap CloseRequests = {}
  BY BiddingAssumption
<1>5. Local(p)'
  BY <1>2, <1>3, <1>4, Numbers
     DEF Local, Snapshot, Checked, Committed, Overtaken, Answered
<1>6. answer[p] = "none"
  BY <1>2, <1>3 DEF Local, Answered
<1> QED
  BY <1>1, <1>2, <1>5, <1>6, QuietStep DEF Before, IInv

\* The balance read here is a lower bound of the balance from now on.
LEMMA ReadUserSafe ==
    ASSUME IInv, Typed', NEW p \in Requests, ReadUser(p)
    PROVE  IInv'
<1>1. OnlyMoves(p)
  BY StepMovesOne DEF IInv, Step
<1>2. /\ UNCHANGED <<users, auction, bids, now, client, offer, announced, seen,
                     tries, since>>
      /\ pc[p] = "read_user"
      /\ funds'[p] = users[client[p]].balance
      /\ \/ pc'[p] = "validate" /\ answer'[p] = answer[p]
         \/ pc'[p] = "done" /\ answer'[p] = "forbidden"
  BY DEF ReadUser, Goto, Finish, dbVars, inputs, IInv, Typed, TypeOK
<1>3. Local(p) /\ Typed
  BY DEF IInv
<1>4. Local(p)'
  BY <1>2, <1>3, Numbers DEF Local, Snapshot, Checked, Committed, Overtaken, Answered
<1>5. answer[p] = "none"
  BY <1>2, <1>3 DEF Local, Answered
<1> QED
  BY <1>1, <1>2, <1>4, <1>5, QuietStep DEF Before, IInv

\* What _validate_bid lets pass satisfies the conditions on a bid to be
\* committed, and what it calls too low is not above the price it saw.
LEMMA RefusalMeaning ==
    ASSUME NEW row, NEW u, NEW amount \in Nat, NEW balance \in Int, NEW t \in Nat,
           row.price \in Nat, row.starts \in Nat, row.ends \in Nat
    PROVE  /\ Refusal(row, u, amount, balance, t) = "none" =>
                 /\ row.status # "finished"
                 /\ row.leader # u
                 /\ IF row.leader = None THEN amount >= row.price ELSE amount > row.price
                 /\ amount <= balance
                 /\ t >= row.starts
           /\ Refusal(row, u, amount, balance, t) = "too_low" => amount <= row.price
           /\ Refusal(row, u, amount, balance, t) = "poor" => balance < amount
           /\ Refusal(row, u, amount, balance, t) = "leading" =>
                 row.status # "finished" /\ row.leader = u
           /\ Refusal(row, u, amount, balance, t)
                 \in {"none", "not_active", "leading", "too_low", "poor"}
  BY DEF Refusal, EffectiveStatus

\* _validate_bid establishes what the commit relies on, from the snapshots alone.
LEMMA ValidateSafe ==
    ASSUME IInv, Typed', NEW p \in Requests, Validate(p)
    PROVE  IInv'
<1> DEFINE refusal == Refusal(seen[p], client[p], offer[p], funds[p], now)
<1>1. OnlyMoves(p)
  BY StepMovesOne DEF IInv, Step
<1>2. /\ UNCHANGED <<users, auction, bids, now, client, offer, announced, seen,
                     funds, tries, since>>
      /\ pc[p] = "validate"
      /\ \/ refusal = "none" /\ pc'[p] = "commit" /\ answer'[p] = answer[p]
         \/ refusal # "none" /\ pc'[p] = "done" /\ answer'[p] = refusal
  BY DEF Validate, Goto, Finish, dbVars, inputs, IInv, Typed, TypeOK
<1>3. Local(p) /\ Typed
  BY DEF IInv
<1>4. seen[p].ends \in Nat
  BY <1>3 DEF Typed, TypeOK, AuctionRow
<1>5. /\ refusal = "none" =>
            /\ seen[p].status # "finished"
            /\ seen[p].leader # client[p]
            /\ IF seen[p].leader = None THEN offer[p] >= seen[p].price
                                        ELSE offer[p] > seen[p].price
            /\ offer[p] <= funds[p]
            /\ now >= seen[p].starts
      /\ refusal = "too_low" => offer[p] <= seen[p].price
      /\ refusal \in {"none", "not_active", "leading", "too_low", "poor"}
  BY <1>3, <1>4, Numbers, RefusalMeaning
<1> HIDE DEF refusal
<1>6. Local(p)'
  BY <1>2, <1>3, <1>5, Numbers DEF Local, Snapshot, Checked, Committed, Overtaken, Answered
<1>7. answer[p] = "none" /\ seen[p].price <= auction.price
  BY <1>2, <1>3 DEF Local, Answered, Snapshot
<1>8. refusal = "too_low" => offer[p] <= auction.price
  BY <1>3, <1>5, <1>7, Numbers
<1> QED
  BY <1>1, <1>2, <1>5, <1>6, <1>7, <1>8, QuietStep DEF Before, IInv

\* A failed commit changes nothing but the count of tries, each paid for by
\* another commit.
LEMMA StaleSafe ==
    ASSUME IInv, Typed', NEW p \in Requests, Stale(p)
    PROVE  IInv'
<1>1. OnlyMoves(p)
  BY StepMovesOne DEF IInv, Step
<1>2. /\ UNCHANGED <<users, auction, bids, now, client, offer, announced, seen,
                     funds, since>>
      /\ pc[p] = "commit"
      /\ ~ Fresh(p)
      /\ tries'[p] = tries[p] + 1
      /\ \/ pc'[p] = "read_auction" /\ answer'[p] = answer[p]
         \/ tries[p] + 1 >= MaxRetries /\ pc'[p] = "done" /\ answer'[p] = "busy"
  <2>1. Typed
    BY DEF IInv
  <2>2. ~ MoreTries(p) => tries[p] + 1 >= MaxRetries
    BY <2>1, Numbers DEF MoreTries
  <2> QED
    BY <2>2 DEF Stale, RollBack, Goto, Finish, dbVars, inputs, IInv, Typed, TypeOK
<1>3. Local(p) /\ Typed
  BY DEF IInv
<1>4. seen[p].version < auction.version /\ since[p] + tries[p] <= seen[p].version
  BY <1>2, <1>3, Numbers DEF Local, Snapshot, Overtaken, Fresh
<1>5. since'[p] + tries'[p] <= auction.version
  BY <1>2, <1>3, <1>4, Numbers
<1>6. Local(p)'
  BY <1>2, <1>3, <1>5 DEF Local, Snapshot, Checked, Committed, Overtaken, Answered
<1>7. answer[p] = "none"
  BY <1>2, <1>3 DEF Local, Answered
<1>8. answer'[p] = "busy" => auction.version >= since'[p] + MaxRetries
  BY <1>2, <1>3, <1>5, <1>7, Numbers
<1> QED
  BY <1>1, <1>2, <1>6, <1>7, <1>8, QuietStep DEF Before, IInv

\* The heart of optimistic locking: a session whose UPDATE matches the version
\* writes over exactly the row it validated.
LEMMA CommitBidFacts ==
    ASSUME IInv, NEW p \in Requests, CommitBid(p)
    PROVE  /\ pc[p] = "commit" /\ p \in BidRequests /\ answer[p] = "none"
           /\ auction.status # "finished"
           /\ auction.leader # client[p]
           /\ IF auction.leader = None THEN offer[p] >= auction.price
                                       ELSE offer[p] > auction.price
           /\ offer[p] <= users[client[p]].balance
           /\ now >= auction.starts
           /\ auction' = [auction EXCEPT !.price = offer[p], !.leader = client[p],
                                         !.version = auction.version + 1]
           /\ bids' = Append(bids, [request |-> p, user |-> client[p],
                                    amount |-> offer[p]])
           /\ pc'[p] = "broadcast"
           /\ UNCHANGED <<users, now, client, offer, seen, funds, tries, answer,
                          announced, since>>
<1>1. Local(p) /\ Typed
  BY DEF IInv
<1>2. pc[p] = "commit" /\ p \in BidRequests /\ seen[p].version = auction.version
  BY DEF CommitBid, Fresh
<1>3. seen[p] = auction
  BY <1>1, <1>2 DEF Local, Snapshot
<1>4. answer[p] = "none"
  BY <1>1, <1>2 DEF Local, Answered
<1>5. pc'[p] = "broadcast"
  BY <1>1, <1>2 DEF CommitBid, Goto, Typed, TypeOK
<1>6. /\ auction.status # "finished"
      /\ auction.leader # client[p]
      /\ IF auction.leader = None THEN offer[p] >= auction.price
                                  ELSE offer[p] > auction.price
      /\ offer[p] <= users[client[p]].balance
      /\ now >= auction.starts
  BY <1>1, <1>2, <1>3 DEF Local, Checked
<1> QED
  BY <1>2, <1>3, <1>4, <1>5, <1>6 DEF CommitBid, inputs

\* The commit of a bid keeps row, log, version and funds in agreement.
LEMMA CommitBidTables ==
    ASSUME IInv, NEW p \in Requests, CommitBid(p)
    PROVE  Tables'
<1> DEFINE row == [request |-> p, user |-> client[p], amount |-> offer[p]]
<1>0. /\ pc[p] = "commit" /\ p \in BidRequests /\ answer[p] = "none"
      /\ auction.status # "finished"
      /\ auction.leader # client[p]
      /\ IF auction.leader = None THEN offer[p] >= auction.price
                                  ELSE offer[p] > auction.price
      /\ offer[p] <= users[client[p]].balance
      /\ now >= auction.starts
      /\ pc'[p] = "broadcast"
      /\ UNCHANGED <<users, now, client, offer, seen, funds, tries, answer,
                     announced, since>>
  BY CommitBidFacts
<1>1. Typed /\ Tables
  BY DEF IInv
<1>2. bids \in Seq(BidRow) /\ auction \in AuctionRow
  BY <1>1 DEF Typed, TypeOK
<1>3. /\ bids' = Append(bids, row)
      /\ Len(bids) \in Nat
      /\ Len(bids') = Len(bids) + 1
      /\ DOMAIN bids' = 1 .. Len(bids) + 1
      /\ DOMAIN bids = 1 .. Len(bids)
      /\ bids'[Len(bids) + 1] = row
      /\ \A i \in 1 .. Len(bids) : bids'[i] = bids[i]
  <2>1. bids' = Append(bids, row)
    BY CommitBidFacts
  <2>2. row \in BidRow
    BY <1>1, CommitBidFacts, BiddingAssumption DEF BidRow, Typed, TypeOK
  <2> QED
    BY <1>2, <2>1, <2>2
<1>4. bids' # << >>
  BY <1>3
<1>5. /\ auction'.price = offer[p] /\ auction'.leader = client[p]
      /\ auction'.version = auction.version + 1
      /\ auction'.status = auction.status /\ auction'.starts = auction.starts
  BY <1>2, CommitBidFacts DEF AuctionRow
<1>6. row.user = client[p] /\ row.amount = offer[p]
  OBVIOUS
<1> HIDE DEF row
<1>7. RowMatchesLog'
  BY <1>3, <1>4, <1>5, <1>6 DEF RowMatchesLog, Leading
<1>8. LogRises'
  <2>1. ASSUME NEW i \in DOMAIN bids'
        PROVE  IF i = 1 THEN bids'[i].amount >= StartPrice
               ELSE /\ bids'[i].amount > bids'[i - 1].amount
                    /\ bids'[i].user # bids'[i - 1].user
    <3>1. CASE i \in 1 .. Len(bids)
      <4>1. i # 1 => i - 1 \in 1 .. Len(bids)
        BY <1>3, <3>1
      <4>2. IF i = 1 THEN bids[i].amount >= StartPrice
            ELSE /\ bids[i].amount > bids[i - 1].amount
                 /\ bids[i].user # bids[i - 1].user
        BY <1>1, <1>3, <3>1 DEF Tables, LogRises
      <4> QED
        BY <1>3, <3>1, <4>1, <4>2
    <3>2. CASE i = Len(bids) + 1 /\ bids = << >>
      <4>1. i = 1 /\ auction.leader = None /\ auction.price = StartPrice
        BY <1>1, <1>3, <3>2 DEF Tables, RowMatchesLog
      <4> QED
        BY <1>0, <1>3, <1>6, <3>2, <4>1
    <3>3. CASE i = Len(bids) + 1 /\ bids # << >>
      <4>1. Len(bids) >= 1 /\ i - 1 = Len(bids) /\ i - 1 \in 1 .. Len(bids)
        BY <1>2, <1>3, <3>3
      <4>2. auction.leader = bids[Len(bids)].user /\ auction.price = bids[Len(bids)].amount
        BY <1>1, <3>3 DEF Tables, RowMatchesLog, Leading
      <4>3. bids[Len(bids)] \in BidRow
        BY <1>2, <4>1
      <4>4. auction.leader # None
        BY <4>2, <4>3, BiddingAssumption DEF BidRow
      <4>5. offer[p] > auction.price /\ auction.leader # client[p]
        BY <1>0, <4>4
      <4>6. bids'[i] = row /\ bids'[i - 1] = bids[Len(bids)]
        BY <1>3, <3>3, <4>1
      <4> QED
        BY <1>6, <4>1, <4>2, <4>5, <4>6
    <3> QED
      BY <1>3, <3>1, <3>2, <3>3
  <2> QED
    BY <2>1 DEF LogRises
<1>9. VersionCountsCommits'
  BY <1>0, <1>1, <1>2, <1>3, <1>5 DEF Tables, VersionCountsCommits
<1>10. BidsCovered'
  <2>1. users' = users /\ offer[p] <= users[client[p]].balance
    BY <1>0
  <2>2. \A i \in 1 .. Len(bids) : bids[i].amount <= users[bids[i].user].balance
    BY <1>1, <1>3 DEF Tables, BidsCovered
  <2>3. ASSUME NEW i \in DOMAIN bids'
        PROVE  bids'[i].amount <= users[bids'[i].user].balance
    BY <1>3, <1>6, <2>1, <2>2
  <2> QED
    BY <2>1, <2>3 DEF BidsCovered
<1>11. NoEarlyBid'
  BY <1>0, <1>5 DEF NoEarlyBid
<1> QED
  BY <1>7, <1>8, <1>9, <1>10, <1>11 DEF Tables

\* The commit of a bid keeps the whole invariant, the other requests' part of
\* it included: their snapshots become older, never wrong.
LEMMA CommitBidSafe ==
    ASSUME IInv, Typed', NEW p \in Requests, CommitBid(p)
    PROVE  IInv'
<1> DEFINE row == [request |-> p, user |-> client[p], amount |-> offer[p]]
<1>0. /\ pc[p] = "commit" /\ p \in BidRequests /\ answer[p] = "none"
      /\ auction.status # "finished"
      /\ auction.leader # client[p]
      /\ IF auction.leader = None THEN offer[p] >= auction.price
                                  ELSE offer[p] > auction.price
      /\ offer[p] <= users[client[p]].balance
      /\ now >= auction.starts
      /\ pc'[p] = "broadcast"
      /\ UNCHANGED <<users, now, client, offer, seen, funds, tries, answer,
                     announced, since>>
  BY CommitBidFacts
<1>1. Typed /\ Outcomes /\ \A q \in Requests : Local(q)
  BY DEF IInv
<1>a. /\ auction.version \in Nat /\ auction.price \in Nat /\ auction.starts \in Nat
      /\ offer[p] \in Nat /\ p \notin CloseRequests
  BY <1>0, <1>1, Numbers, BiddingAssumption
<1>2. OnlyMoves(p)
  BY <1>1, StepMovesOne DEF Step
<1>3. bids \in Seq(BidRow) /\ auction \in AuctionRow /\ row \in BidRow
  BY <1>1, CommitBidFacts, BiddingAssumption DEF Typed, TypeOK, BidRow
<1>4. /\ DOMAIN bids' = 1 .. Len(bids) + 1
      /\ DOMAIN bids = 1 .. Len(bids)
      /\ Len(bids) \in Nat
      /\ bids'[Len(bids) + 1].request = p
      /\ \A i \in 1 .. Len(bids) : bids'[i] = bids[i]
  <2>1. bids' = Append(bids, row) /\ row.request = p
    BY CommitBidFacts
  <2> QED
    BY <1>3, <2>1
<1>5. /\ auction'.price = offer[p] /\ auction'.leader = client[p]
      /\ auction'.version = auction.version + 1
      /\ auction'.status = auction.status /\ auction'.starts = auction.starts
      /\ auction.price <= offer[p]
  <2>1. auction' = [auction EXCEPT !.price = offer[p], !.leader = client[p],
                                   !.version = auction.version + 1]
    BY CommitBidFacts
  <2> QED
    BY <1>0, <1>3, <1>a, <2>1 DEF AuctionRow
<1>6. RecordedOnce'
  <2>1. \A i \in 1 .. Len(bids) : bids[i].request # p
    BY <1>0, <1>1, <1>4 DEF Outcomes, RecordedOnce
  <2>2. \A i, j \in DOMAIN bids' : bids'[i].request = bids'[j].request => i = j
    BY <1>1, <1>4, <2>1 DEF Outcomes, RecordedOnce
  <2>3. ASSUME NEW q \in BidRequests
        PROVE  LET recorded == \E i \in DOMAIN bids' : bids'[i].request = q
               IN /\ pc'[q] = "broadcast" \/ answer'[q] = "accepted" => recorded
                  /\ recorded => \/ pc'[q] \in {"broadcast", "lost"}
                                 \/ answer'[q] = "accepted"
    <3>1. CASE q = p
      <4>1. Len(bids) + 1 \in DOMAIN bids'
        BY <1>4
      <4> QED
        BY <1>0, <1>4, <3>1, <4>1
    <3>2. CASE q # p
      <4>1. (\E i \in DOMAIN bids' : bids'[i].request = q)
              <=> (\E i \in DOMAIN bids : bids[i].request = q)
        BY <1>4, <3>2
      <4>2. pc'[q] = pc[q] /\ answer'[q] = answer[q]
        BY <1>2, <3>2 DEF OnlyMoves, Requests
      <4> QED
        BY <1>1, <4>1, <4>2 DEF Outcomes, RecordedOnce
    <3> QED
      BY <3>1, <3>2
  <2> QED
    BY <2>2, <2>3 DEF RecordedOnce
<1>7. WinnerIsFinal'
  BY <1>0, <1>1 DEF Outcomes, WinnerIsFinal
<1>8. BusyMeansOvertaken'
  <2>1. ASSUME NEW q \in Requests, answer[q] = "busy"
        PROVE  auction'.version >= since[q] + MaxRetries
    <3>1. auction.version >= since[q] + MaxRetries
      BY <1>1, <2>1 DEF Outcomes, BusyMeansOvertaken
    <3> QED
      BY <1>1, <1>5, <3>1, Numbers
  <2> QED
    BY <1>0, <2>1 DEF BusyMeansOvertaken
<1>9. JudgedBidsCounted'
  <2>1. ASSUME NEW q \in BidRequests, answer[q] \in {"accepted", "too_low"}
        PROVE  offer[q] <= auction'.price
    <3>1. offer[q] <= auction.price /\ q \in Requests
      BY <1>1, <2>1 DEF Outcomes, JudgedBidsCounted, Requests
    <3> QED
      BY <1>1, <1>5, <3>1, Numbers
  <2> QED
    BY <1>0, <2>1 DEF JudgedBidsCounted
<1>10. ASSUME NEW q \in Requests PROVE Local(q)'
  <2>1. Local(q) /\ Local(p)
    BY <1>1
  <2>2. CASE q = p
    <3>1. seen[p].starts = auction.starts /\ since[p] + tries[p] <= auction.version
      BY <2>1 DEF Local, Snapshot, Overtaken
    <3>2. since[p] + tries[p] <= auction'.version
      BY <1>1, <1>5, <3>1, Numbers
    <3>3. Snapshot(p)' /\ Checked(p)' /\ Overtaken(p)'
      BY <1>0, <1>5, <3>1, <3>2 DEF Snapshot, Checked, Overtaken
    <3>4. Committed(p)' /\ Answered(p)'
      BY <1>0, <1>5, <1>a DEF Committed, Answered
    <3> QED
      BY <2>2, <3>3, <3>4 DEF Local
  <2>3. CASE q # p
    <3>1. pc'[q] = pc[q] /\ seen'[q] = seen[q] /\ answer'[q] = answer[q]
          /\ UNCHANGED <<users, now, client, offer, funds, tries, since>>
      BY <1>0, <1>2, <2>3 DEF OnlyMoves
    <3>2. Snapshot(q)'
      BY <1>1, <1>5, <2>1, <3>1, Numbers DEF Local, Snapshot
    <3>3. Checked(q)' /\ Answered(q)'
      BY <2>1, <3>1 DEF Local, Checked, Answered
    <3>4. Committed(q)'
      <4>1. offer[q] \in Nat
        BY <1>1, Numbers
      <4>2. q \in CloseRequests => pc[q] # "broadcast"
        BY <1>0, <2>1 DEF Local, Committed
      <4>3. pc[q] = "broadcast" /\ q \in BidRequests => offer[q] <= auction.price
        BY <2>1 DEF Local, Committed
      <4>4. pc[q] = "broadcast" /\ q \in BidRequests => offer[q] <= auction'.price
        BY <1>5, <1>a, <4>1, <4>3
      <4> QED
        BY <3>1, <4>2, <4>4 DEF Committed
    <3>5. Overtaken(q)'
      BY <1>1, <1>5, <2>1, <3>1, Numbers DEF Local, Overtaken
    <3> QED
      BY <3>2, <3>3, <3>4, <3>5 DEF Local
  <2> QED
    BY <2>2, <2>3
<1> QED
  BY <1>6, <1>7, <1>8, <1>9, <1>10, CommitBidTables DEF IInv, Outcomes

\* The commit of the closing keeps the invariant; no bid can follow it.
LEMMA CommitCloseSafe ==
    ASSUME IInv, Typed', NEW p \in Requests, CommitClose(p)
    PROVE  IInv'
<1>1. Typed /\ Tables /\ Outcomes /\ \A q \in Requests : Local(q)
  BY DEF IInv
<1>2. OnlyMoves(p)
  BY <1>1, StepMovesOne DEF Step
<1>3. /\ pc[p] = "commit" /\ p \in CloseRequests /\ p \notin BidRequests
      /\ auction.version = seen[p].version
      /\ UNCHANGED <<users, bids, now, client, offer, funds, tries, answer,
                     announced, since>>
  BY BiddingAssumption DEF CommitClose, Fresh, inputs
<1>4. seen[p] = auction /\ auction.status # "finished" /\ answer[p] = "none"
  BY <1>1, <1>3 DEF Local, Snapshot, Checked, Answered
<1>5. pc'[p] = "broadcast"
  BY <1>1 DEF CommitClose, Goto, Typed, TypeOK
<1>6. auction \in AuctionRow /\ auction.version \in Nat /\ auction.price \in Nat
  BY <1>1 DEF Typed, TypeOK, AuctionRow
<1>7. /\ auction'.status = "finished"
      /\ auction'.version = auction.version + 1
      /\ auction'.price = auction.price
      /\ auction'.leader = auction.leader
      /\ auction'.starts = auction.starts
  <2>1. auction' = [auction EXCEPT !.status = "finished", !.version = auction.version + 1]
    BY <1>3 DEF CommitClose
  <2> QED
    BY <1>6, <2>1 DEF AuctionRow
<1>8. /\ seen'[p].leader = auction.leader
      /\ seen'[p].price = auction.price
      /\ seen'[p].starts = auction.starts
  <2>1. seen'[p] = [seen[p] EXCEPT !.status = "finished", !.version = auction'.version]
    BY <1>1 DEF CommitClose, Typed, TypeOK
  <2> QED
    BY <1>4, <1>6, <2>1 DEF AuctionRow
<1>9. Tables'
  <2>1. Len(bids) \in Nat
    BY <1>1 DEF Typed, TypeOK
  <2>2. VersionCountsCommits'
    BY <1>1, <1>3, <1>4, <1>7, <2>1 DEF Tables, VersionCountsCommits
  <2>3. RowMatchesLog' /\ LogRises' /\ BidsCovered' /\ NoEarlyBid'
    BY <1>1, <1>3, <1>7 DEF Tables, RowMatchesLog, Leading, LogRises, BidsCovered, NoEarlyBid
  <2> QED
    BY <2>2, <2>3 DEF Tables
<1>10. RecordedOnce'
  <2>1. \A q \in BidRequests : pc'[q] = pc[q] /\ answer'[q] = answer[q]
    BY <1>2, <1>3 DEF OnlyMoves, Requests
  <2> QED
    BY <1>1, <1>3, <2>1 DEF Outcomes, RecordedOnce
<1>11. WinnerIsFinal'
  BY <1>1, <1>3, <1>4 DEF Outcomes, WinnerIsFinal
<1>12. BusyMeansOvertaken'
  <2>1. ASSUME NEW q \in Requests, answer[q] = "busy"
        PROVE  auction'.version >= since[q] + MaxRetries
    <3>1. auction.version >= since[q] + MaxRetries
      BY <1>1, <2>1 DEF Outcomes, BusyMeansOvertaken
    <3> QED
      BY <1>1, <1>7, <3>1, Numbers
  <2> QED
    BY <1>3, <2>1 DEF BusyMeansOvertaken
<1>13. JudgedBidsCounted'
  BY <1>1, <1>3, <1>7 DEF Outcomes, JudgedBidsCounted
<1>14. ASSUME NEW q \in Requests PROVE Local(q)'
  <2>1. Local(q)
    BY <1>1
  <2>2. CASE q = p
    <3>1. since[p] + tries[p] <= auction'.version
      BY <1>1, <1>7, <2>1, <2>2, Numbers DEF Local, Overtaken
    <3> QED
      BY <1>3, <1>4, <1>5, <1>7, <1>8, <2>2, <3>1
         DEF Local, Snapshot, Checked, Committed, Overtaken, Answered
  <2>3. CASE q # p
    <3>1. /\ pc'[q] = pc[q] /\ seen'[q] = seen[q] /\ answer'[q] = answer[q]
          /\ UNCHANGED <<users, now, client, offer, funds, tries, since>>
      BY <1>2, <1>3, <2>3 DEF OnlyMoves
    <3>2. Snapshot(q)'
      BY <1>1, <1>7, <2>1, <3>1, Numbers DEF Local, Snapshot
    <3>3. Checked(q)' /\ Answered(q)'
      BY <2>1, <3>1 DEF Local, Checked, Answered
    <3>4. Committed(q)'
      BY <1>7, <2>1, <3>1 DEF Local, Committed
    <3>5. Overtaken(q)'
      BY <1>1, <1>7, <2>1, <3>1, Numbers DEF Local, Overtaken
    <3> QED
      BY <3>2, <3>3, <3>4, <3>5 DEF Local
  <2> QED
    BY <2>2, <2>3
<1> QED
  BY <1>9, <1>10, <1>11, <1>12, <1>13, <1>14 DEF IInv, Outcomes

\* The message sent after the commit tells what the row still says.
LEMMA BroadcastSafe ==
    ASSUME IInv, Typed', NEW p \in Requests, Broadcast(p)
    PROVE  IInv'
<1>1. Typed /\ Tables /\ Outcomes /\ \A q \in Requests : Local(q)
  BY DEF IInv
<1>2. OnlyMoves(p)
  BY <1>1, StepMovesOne DEF Step
<1>3. /\ pc[p] = "broadcast" /\ pc'[p] = "done"
      /\ answer'[p] = IF p \in BidRequests THEN "accepted" ELSE "closed"
      /\ announced' = announced \cup {Message(p)}
      /\ UNCHANGED <<users, auction, bids, now, client, offer, seen, funds,
                     tries, since>>
  BY <1>1 DEF Broadcast, Goto, Finish, dbVars, inputs, Typed, TypeOK
<1>4. Tables'
  BY <1>1, <1>3 DEF Tables, RowMatchesLog, Leading, LogRises,
                    VersionCountsCommits, BidsCovered, NoEarlyBid
<1>5. RecordedOnce'
  <2>1. ASSUME NEW q \in BidRequests
        PROVE  LET recorded == \E i \in DOMAIN bids : bids[i].request = q
               IN /\ pc'[q] = "broadcast" \/ answer'[q] = "accepted" => recorded
                  /\ recorded => \/ pc'[q] \in {"broadcast", "lost"}
                                 \/ answer'[q] = "accepted"
    <3>1. LET recorded == \E i \in DOMAIN bids : bids[i].request = q
          IN /\ pc[q] = "broadcast" \/ answer[q] = "accepted" => recorded
             /\ recorded => pc[q] \in {"broadcast", "lost"} \/ answer[q] = "accepted"
      BY <1>1 DEF Outcomes, RecordedOnce
    <3>2. CASE q = p
      BY <1>3, <3>1, <3>2
    <3>3. CASE q # p
      BY <1>2, <3>1, <3>3 DEF OnlyMoves, Requests
    <3> QED
      BY <3>2, <3>3
  <2> QED
    BY <1>1, <1>3, <2>1 DEF Outcomes, RecordedOnce
<1>6. WinnerIsFinal'
  <2>1. ASSUME NEW m \in announced', m.type = "auction_closed"
        PROVE  /\ auction.status = "finished"
               /\ m.user = auction.leader
               /\ m.amount = auction.price
    <3>1. CASE m \in announced
      BY <1>1, <2>1, <3>1 DEF Outcomes, WinnerIsFinal
    <3>2. CASE m = Message(p)
      <4>1. p \in CloseRequests /\ m.user = seen[p].leader /\ m.amount = seen[p].price
        BY <2>1, <3>2 DEF Message, Requests
      <4> QED
        BY <1>1, <1>3, <4>1 DEF Local, Committed
    <3> QED
      BY <1>3, <3>1, <3>2
  <2> QED
    BY <1>3, <2>1 DEF WinnerIsFinal
<1>7. BusyMeansOvertaken'
  BY <1>1, <1>2, <1>3 DEF Outcomes, BusyMeansOvertaken, OnlyMoves
<1>8. JudgedBidsCounted'
  <2>1. p \in BidRequests => offer[p] <= auction.price
    BY <1>1, <1>3 DEF Local, Committed
  <2> QED
    BY <1>1, <1>2, <1>3, <2>1 DEF Outcomes, JudgedBidsCounted, OnlyMoves, Requests
<1>9. ASSUME NEW q \in Requests PROVE Local(q)'
  <2>1. Local(q)
    BY <1>1
  <2> QED
    BY <1>2, <1>3, <2>1
       DEF OnlyMoves, Local, Snapshot, Checked, Committed, Overtaken, Answered
<1> QED
  BY <1>4, <1>5, <1>6, <1>7, <1>8, <1>9 DEF IInv, Outcomes

\* Balances only rise, whoever writes the users table.
LEMMA BalancesRise ==
    ASSUME users \in [Users -> UserRow], UserCommit, NEW u \in Users
    PROVE  users'[u].balance >= users[u].balance
<1>1. users[u].balance \in Nat /\ users[u] \in UserRow /\ Deposits \subseteq Nat
  BY UserTableAssumption DEF UserRow
<1>2. PICK v \in Users : \/ \E patch \in Patches : CommitPatch(v, patch)
                         \/ \E amount \in Deposits : CommitDeposit(v, amount)
  BY DEF UserCommit
<1>3. CASE \E patch \in Patches : CommitPatch(v, patch)
  BY <1>1, <1>3 DEF CommitPatch, UserRow
<1>4. CASE \E amount \in Deposits : CommitDeposit(v, amount)
  BY <1>1, <1>4 DEF CommitDeposit, UserRow
<1> QED
  BY <1>2, <1>3, <1>4

\* Patches and deposits of other sessions keep the invariant: balances only rise.
LEMMA OtherCommitSafe ==
    ASSUME IInv, Typed', OtherCommit
    PROVE  IInv'
<1>1. Typed /\ Tables /\ Outcomes /\ \A q \in Requests : Local(q)
  BY DEF IInv
<1>2. UNCHANGED <<auction, bids, now, client, offer, pc, seen, funds, tries,
                  answer, announced, since>>
  BY DEF OtherCommit, inputs
<1>3. /\ users \in [Users -> UserRow] /\ users' \in [Users -> UserRow]
      /\ bids \in Seq(BidRow)
  BY <1>1 DEF Typed, TypeOK
<1>4. \A u \in Users : /\ users'[u].balance >= users[u].balance
                       /\ users'[u].balance \in Int /\ users[u].balance \in Int
  BY <1>3, BalancesRise DEF OtherCommit, UserRow
<1>5. BidsCovered'
  <2>1. ASSUME NEW i \in DOMAIN bids
        PROVE  bids[i].amount <= users'[bids[i].user].balance
    <3>1. bids[i] \in BidRow
      BY <1>3
    <3>2. bids[i].user \in Users /\ bids[i].amount \in Nat
      BY <3>1, BiddingAssumption DEF BidRow
    <3>3. bids[i].amount <= users[bids[i].user].balance
      BY <1>1 DEF Tables, BidsCovered
    <3> QED
      BY <1>4, <3>2, <3>3
  <2> QED
    BY <1>2, <2>1 DEF BidsCovered
<1>6. Tables'
  BY <1>1, <1>2, <1>5 DEF Tables, RowMatchesLog, Leading, LogRises,
                          VersionCountsCommits, NoEarlyBid
<1>7. Outcomes'
  BY <1>1, <1>2 DEF Outcomes, RecordedOnce, WinnerIsFinal, BusyMeansOvertaken,
                    JudgedBidsCounted
<1>8. ASSUME NEW q \in Requests PROVE Local(q)'
  <2>1. Local(q)
    BY <1>1
  <2>2. funds[q] <= users[client[q]].balance => funds[q] <= users'[client[q]].balance
    BY <1>1, <1>4, Numbers
  <2>3. offer[q] <= users[client[q]].balance => offer[q] <= users'[client[q]].balance
    BY <1>1, <1>4, Numbers
  <2>4. Checked(q)'
    BY <1>2, <2>1, <2>2, <2>3 DEF Local, Checked
  <2> QED
    BY <1>2, <2>1, <2>4 DEF Local, Snapshot, Committed, Overtaken, Answered
<1> QED
  BY <1>6, <1>7, <1>8 DEF IInv

\* Time passes: what had started has still started.
LEMMA TickSafe ==
    ASSUME IInv, Typed', Tick
    PROVE  IInv'
<1>1. Typed /\ Tables /\ Outcomes /\ \A q \in Requests : Local(q)
  BY DEF IInv
<1>2. /\ UNCHANGED <<users, auction, bids, client, offer, pc, seen, funds, tries,
                     answer, announced, since>>
      /\ now' = now + 1
  BY DEF Tick, dbVars, inputs
<1>3. auction.starts \in Nat /\ now \in Nat
  BY <1>1, BiddingAssumption DEF Typed, TypeOK, AuctionRow, Instants
<1>4. Tables'
  BY <1>1, <1>2, <1>3 DEF Tables, RowMatchesLog, Leading, LogRises,
                          VersionCountsCommits, BidsCovered, NoEarlyBid
<1>5. Outcomes'
  BY <1>1, <1>2 DEF Outcomes, RecordedOnce, WinnerIsFinal, BusyMeansOvertaken,
                    JudgedBidsCounted
<1>6. ASSUME NEW q \in Requests PROVE Local(q)'
  <2>1. Local(q) /\ seen[q].starts \in Nat
    BY <1>1, Numbers
  <2> QED
    BY <1>2, <1>3, <2>1 DEF Local, Snapshot, Checked, Committed, Overtaken, Answered
<1> QED
  BY <1>4, <1>5, <1>6 DEF IInv

\* A restart of the process, or an error, loses requests, never rows.
LEMMA CrashSafe ==
    ASSUME IInv, Typed', Crash
    PROVE  IInv'
<1>1. Typed /\ Tables /\ Outcomes /\ \A q \in Requests : Local(q)
  BY DEF IInv
<1>2. /\ UNCHANGED <<users, auction, bids, now, client, offer, seen, funds,
                     tries, answer, announced, since>>
      /\ \A q \in Requests : pc'[q] = pc[q] \/ (pc'[q] = "lost" /\ Running(q))
  BY DEF Crash, dbVars, inputs
<1>3. Tables'
  BY <1>1, <1>2 DEF Tables, RowMatchesLog, Leading, LogRises,
                    VersionCountsCommits, BidsCovered, NoEarlyBid
<1>4. RecordedOnce'
  <2>1. ASSUME NEW q \in BidRequests
        PROVE  LET recorded == \E i \in DOMAIN bids : bids[i].request = q
               IN /\ pc'[q] = "broadcast" \/ answer[q] = "accepted" => recorded
                  /\ recorded => pc'[q] \in {"broadcast", "lost"} \/ answer[q] = "accepted"
    <3>1. LET recorded == \E i \in DOMAIN bids : bids[i].request = q
          IN /\ pc[q] = "broadcast" \/ answer[q] = "accepted" => recorded
             /\ recorded => pc[q] \in {"broadcast", "lost"} \/ answer[q] = "accepted"
      BY <1>1 DEF Outcomes, RecordedOnce
    <3>2. pc'[q] = pc[q] \/ pc'[q] = "lost"
      BY <1>2 DEF Requests
    <3> QED
      BY <3>1, <3>2
  <2> QED
    BY <1>1, <1>2, <2>1 DEF Outcomes, RecordedOnce
<1>5. WinnerIsFinal' /\ BusyMeansOvertaken' /\ JudgedBidsCounted'
  BY <1>1, <1>2 DEF Outcomes, WinnerIsFinal, BusyMeansOvertaken, JudgedBidsCounted
<1>6. ASSUME NEW q \in Requests PROVE Local(q)'
  <2>1. Local(q) /\ (pc'[q] = pc[q] \/ (pc'[q] = "lost" /\ pc[q] # "done"))
    BY <1>1, <1>2 DEF Running
  <2> QED
    BY <1>2, <2>1 DEF Local, Snapshot, Checked, Committed, Overtaken, Answered
<1> QED
  BY <1>3, <1>4, <1>5, <1>6 DEF IInv, Outcomes

\* A step of nothing.
LEMMA StutterSafe ==
    ASSUME IInv, Typed', UNCHANGED vars
    PROVE  IInv'
<1>1. Tables'
  BY DEF IInv, vars, Tables, RowMatchesLog, Leading, LogRises,
         VersionCountsCommits, BidsCovered, NoEarlyBid
<1>2. Outcomes'
  BY DEF IInv, vars, Outcomes, RecordedOnce, WinnerIsFinal, BusyMeansOvertaken,
         JudgedBidsCounted
<1>3. \A q \in Requests : Local(q)'
  BY DEF IInv, vars, Local, Snapshot, Checked, Committed, Overtaken, Answered
<1> QED
  BY <1>1, <1>2, <1>3 DEF IInv

\* Every step keeps the inductive invariant, one case per action.
LEMMA NextInvariant == IInv /\ [Next]_vars => IInv'
<1> SUFFICES ASSUME IInv, [Next]_vars PROVE IInv'
  OBVIOUS
<1>1. Typed'
  BY NextTyped DEF IInv
<1>2. ASSUME NEW p \in Requests, Step(p) PROVE IInv'
  <2>1. CASE Authenticate(p)
    BY <1>1, <2>1, AuthenticateSafe
  <2>2. CASE ReadAuction(p)
    BY <1>1, <2>2, ReadAuctionSafe
  <2>3. CASE ReadUser(p)
    BY <1>1, <2>3, ReadUserSafe
  <2>4. CASE Validate(p)
    BY <1>1, <2>4, ValidateSafe
  <2>5. CASE CommitBid(p)
    BY <1>1, <2>5, CommitBidSafe
  <2>6. CASE CommitClose(p)
    BY <1>1, <2>6, CommitCloseSafe
  <2>7. CASE Stale(p)
    BY <1>1, <2>7, StaleSafe
  <2>8. CASE Broadcast(p)
    BY <1>1, <2>8, BroadcastSafe
  <2> QED
    BY <1>2, <2>1, <2>2, <2>3, <2>4, <2>5, <2>6, <2>7, <2>8 DEF Step
<1>3. CASE Tick
  BY <1>1, <1>3, TickSafe
<1>4. CASE OtherCommit
  BY <1>1, <1>4, OtherCommitSafe
<1>5. CASE Crash
  BY <1>1, <1>5, CrashSafe
<1>6. CASE UNCHANGED vars
  BY <1>1, <1>6, StutterSafe
<1> QED
  BY <1>2, <1>3, <1>4, <1>5, <1>6 DEF Next

\* The inductive invariant holds in every reachable state.
LEMMA Invariant == Spec => []IInv
  BY InitInvariant, NextInvariant, PTL DEF Spec

-----------------------------------------------------------------------------
(* The theorems *)

\* The auction row always shows the last accepted bid: bid and price are written
\* by one transaction, guarded by the version (services/bidding.py).
THEOREM LogAndRowAgree == Spec => []RowMatchesLog
<1>1. IInv => RowMatchesLog
  BY DEF IInv, Tables, Outcomes
<1> QED
  BY <1>1, Invariant, PTL

\* Accepted bids rise strictly and alternate between users, however the
\* sessions of any number of requests interleave.
THEOREM AcceptedBidsRise == Spec => []LogRises
<1>1. IInv => LogRises
  BY DEF IInv, Tables, Outcomes
<1> QED
  BY <1>1, Invariant, PTL

\* Every accepted bid and the closing are counted by the version: no update of
\* the row overwrites another, and the auction is closed at most once.
THEOREM NoUpdateLost == Spec => []VersionCountsCommits
<1>1. IInv => VersionCountsCommits
  BY DEF IInv, Tables, Outcomes
<1> QED
  BY <1>1, Invariant, PTL

\* The retry loop records a bid at most once, and an error answer means that
\* nothing was recorded.
THEOREM BidRecordedOnce == Spec => []RecordedOnce
<1>1. IInv => RecordedOnce
  BY DEF IInv, Tables, Outcomes
<1> QED
  BY <1>1, Invariant, PTL

\* Every accepted bid is within its bidder's balance although the balance is
\* read before the commit.
THEOREM AcceptedBidsCovered == Spec => []BidsCovered
<1>1. IInv => BidsCovered
  BY DEF IInv, Tables, Outcomes
<1> QED
  BY <1>1, Invariant, PTL

\* No bid is accepted before starts_at.
THEOREM NoBidBeforeStart == Spec => []NoEarlyBid
<1>1. IInv => NoEarlyBid
  BY DEF IInv, Tables, Outcomes
<1> QED
  BY <1>1, Invariant, PTL

\* The winner and price announced at the closing are those of the row for ever.
THEOREM WinnerAnnouncedIsFinal == Spec => []WinnerIsFinal
<1>1. IInv => WinnerIsFinal
  BY DEF IInv, Tables, Outcomes
<1> QED
  BY <1>1, Invariant, PTL

\* Giving up after MAX_RETRIES conflicts means that as many other transactions
\* changed the auction meanwhile.
THEOREM BusyMeansProgress == Spec => []BusyMeansOvertaken
<1>1. IInv => BusyMeansOvertaken
  BY DEF IInv, Tables, Outcomes
<1> QED
  BY <1>1, Invariant, PTL

\* The log only grows: what a snapshot says of it stays true.
LEMMA LogKept ==
    ASSUME IInv, [Next]_vars
    PROVE  \A i \in DOMAIN bids : i \in DOMAIN bids' /\ bids'[i] = bids[i]
<1>1. CASE UNCHANGED bids
  BY <1>1
<1>2. ASSUME NEW p \in Requests, CommitBid(p)
      PROVE  \A i \in DOMAIN bids : i \in DOMAIN bids' /\ bids'[i] = bids[i]
  BY <1>2 DEF CommitBid, IInv, Typed, TypeOK
<1> QED
  BY <1>1, <1>2 DEF Next, Step, Authenticate, ReadAuction, ReadUser, Validate,
     CommitClose, Stale, RollBack, Broadcast, Tick, OtherCommit, Crash, vars, dbVars

\* A snapshot kept over a step still names the bid that led it.
LEMMA LedKept ==
    ASSUME IInv, [Next]_vars, NEW q \in Requests, Led(q), seen'[q] = seen[q]
    PROVE  Led(q)'
  BY LogKept DEF Led

\* The request that moves either kept its snapshot, or has just read the row,
\* which the last bid leads, or has closed the auction.
LEMMA LedStep ==
    ASSUME IInv, NEW p \in Requests, Step(p), Led(p)
    PROVE  Led(p)'
<1>1. [Next]_vars
  BY DEF Next
<1>2. CASE ReadAuction(p)
  <2>1. seen'[p] = auction /\ bids' = bids
    BY <1>2 DEF ReadAuction, dbVars, IInv, Typed, TypeOK
  <2>2. RowMatchesLog /\ VersionCountsCommits /\ bids \in Seq(BidRow)
    BY DEF IInv, Tables, Typed, TypeOK
  <2>3. ASSUME auction.status # "finished", auction.leader # None
        PROVE  /\ auction.version - 1 \in DOMAIN bids
               /\ bids[auction.version - 1].user = auction.leader
    <3>1. bids # << >> /\ auction.leader = bids[Len(bids)].user
      BY <2>2, <2>3 DEF RowMatchesLog, Leading
    <3>2. auction.version - 1 = Len(bids)
      BY <2>2, <2>3 DEF VersionCountsCommits
    <3> QED
      BY <2>2, <3>1, <3>2
  <2> QED
    BY <2>1, <2>3 DEF Led
<1>3. CASE CommitClose(p)
  BY <1>3 DEF CommitClose, Led, IInv, Typed, TypeOK, AuctionRow
<1>4. CASE ~ ReadAuction(p) /\ ~ CommitClose(p)
  <2>1. UNCHANGED seen
    BY <1>4 DEF Step, Authenticate, ReadUser, Validate, CommitBid, Stale, Broadcast
  <2> QED
    BY <1>1, <2>1, LedKept
<1> QED
  BY <1>2, <1>3, <1>4

\* A request refused as "poor" or "leading" was so on the snapshots it holds.
LEMMA ReasonStep ==
    ASSUME IInv, NEW p \in Requests, Step(p)
    PROVE  Reason(p)'
<1>1. Local(p) /\ Typed
  BY DEF IInv
<1>2. pc[p] # "done" /\ answer[p] = "none"
  BY <1>1 DEF Local, Answered, Step, Authenticate, ReadAuction, ReadUser, Validate,
     CommitBid, CommitClose, Stale, Broadcast
<1>3. CASE Validate(p)
  <2> DEFINE refusal == Refusal(seen[p], client[p], offer[p], funds[p], now)
  <2>1. /\ UNCHANGED <<client, offer, seen, funds, since>>
        /\ pc[p] = "validate"
        /\ \/ pc'[p] = "commit" /\ answer'[p] = answer[p]
           \/ refusal # "none" /\ answer'[p] = refusal
    BY <1>1, <1>3 DEF Validate, Goto, Finish, inputs, Typed, TypeOK
  <2>2. /\ refusal = "poor" => funds[p] < offer[p]
        /\ refusal = "leading" => seen[p].status # "finished" /\ seen[p].leader = client[p]
        /\ refusal \in {"none", "not_active", "leading", "too_low", "poor"}
    <3>1. seen[p].ends \in Nat
      BY <1>1 DEF Typed, TypeOK, AuctionRow
    <3> QED
      BY <1>1, <3>1, Numbers, RefusalMeaning
  <2>3. seen[p].version >= since[p]
    BY <1>1, <2>1, Numbers DEF Local, Overtaken
  <2> HIDE DEF refusal
  <2> QED
    BY <1>2, <2>1, <2>2, <2>3 DEF Reason
<1>4. CASE ~ Validate(p)
  <2>1. \/ pc'[p] # "done" /\ answer'[p] = answer[p]
        \/ answer'[p] \in {"forbidden", "busy", "accepted"}
        \/ p \notin BidRequests /\ answer'[p] \in {"already_closed", "closed"}
    BY <1>1, <1>4, BiddingAssumption DEF Step, Authenticate, ReadAuction, ReadUser, CommitBid, CommitClose,
       Stale, Broadcast, Goto, Finish, Typed, TypeOK
  <2> QED
    BY <1>2, <2>1 DEF Reason
<1> QED
  BY <1>3, <1>4

\* The reasons of the answers hold in every reachable state.
LEMMA ReasonsHold == Spec => []Reasons
<1>1. Init => Reasons
  <2> SUFFICES ASSUME Init PROVE Reasons
    OBVIOUS
  <2>1. PICK schedule \in Schedules : auction = CreatedAuction(schedule, now)
    BY DEF Init
  <2> QED
    BY <2>1 DEF Init, CreatedAuction, Reasons, Led, Reason
<1>2. IInv /\ Reasons /\ [Next]_vars => Reasons'
  <2> SUFFICES ASSUME IInv, Reasons, [Next]_vars, NEW q \in Requests
               PROVE  Led(q)' /\ Reason(q)'
    BY DEF Reasons
  <2>1. Led(q) /\ Reason(q)
    BY DEF Reasons
  <2>2. ASSUME NEW p \in Requests, Step(p) PROVE Led(q)' /\ Reason(q)'
    <3>1. CASE q = p
      BY <2>1, <2>2, <3>1, LedStep, ReasonStep
    <3>2. CASE q # p
      <4>1. OnlyMoves(p) /\ UNCHANGED inputs
        BY <2>2, StepMovesOne DEF IInv, Step, Authenticate, ReadAuction, ReadUser,
           Validate, CommitBid, CommitClose, Stale, Broadcast
      <4> QED
        BY <2>1, <3>2, <4>1, LedKept DEF OnlyMoves, Reason, inputs
    <3> QED
      BY <3>1, <3>2
  <2>3. CASE Tick \/ OtherCommit \/ UNCHANGED vars
    BY <2>1, <2>3, LedKept DEF Tick, OtherCommit, vars, inputs, Reason
  <2>4. CASE Crash
    <3>1. UNCHANGED <<inputs, seen, funds, answer, since>> /\ (pc'[q] = "done" => pc[q] = "done")
      BY <2>4 DEF Crash
    <3> QED
      BY <2>1, <3>1, LedKept DEF inputs, Reason
  <2> QED
    BY <2>2, <2>3, <2>4 DEF Next
<1> QED
  BY <1>1, <1>2, Invariant, PTL DEF Spec

\* A bid above the price is gone only because of its bidder's account, the
\* auction's status, MaxRetries conflicts, or a row that its bidder led when it
\* was read.
THEOREM NoBidForgottenWithoutCause == Spec => []BidsForgottenForCause
<1>1. ASSUME IInv, Reasons, NEW p \in BidRequests, pc[p] = "done", offer[p] > auction.price
      PROVE  \/ answer[p] \in {"forbidden", "not_active"}
             \/ answer[p] = "poor" /\ funds[p] < offer[p]
             \/ answer[p] = "busy" /\ auction.version >= since[p] + MaxRetries
             \/ /\ answer[p] = "leading"
                /\ seen[p].version >= since[p]
                /\ seen[p].version - 1 \in DOMAIN bids
                /\ bids[seen[p].version - 1].user = client[p]
  <2>1. /\ p \in Requests /\ Typed /\ Reason(p) /\ Led(p)
        /\ answer[p] \in Answers \ {"none"}
    BY <1>1 DEF Requests, IInv, Typed, TypeOK, Reasons, Reason
  <2>2. answer[p] \notin {"accepted", "too_low"}
    BY <1>1, <2>1, Numbers DEF IInv, Outcomes, JudgedBidsCounted
  <2>3. answer[p] \notin {"closed", "already_closed"}
    BY <1>1, <2>1 DEF Reason
  <2>4. CASE answer[p] = "leading"
    BY <2>1, <2>4, Numbers DEF Reason, Led
  <2>5. CASE answer[p] = "busy"
    BY <1>1, <2>1, <2>5 DEF IInv, Outcomes, BusyMeansOvertaken
  <2>6. CASE answer[p] = "poor"
    BY <2>1, <2>6 DEF Reason
  <2> QED
    BY <2>1, <2>2, <2>3, <2>4, <2>5, <2>6 DEF Answers
<1>2. IInv /\ Reasons => BidsForgottenForCause
  BY <1>1 DEF BidsForgottenForCause
<1> QED
  BY <1>2, Invariant, ReasonsHold, PTL

\* What a step may do to the tables, proved for every step at once: nothing, or
\* the commit of one bid, or the commit of the closing.
LEMMA TableSteps ==
    ASSUME IInv, [Next]_vars
    PROVE  \/ UNCHANGED <<auction, bids>>
           \/ \E p \in Requests : CommitBid(p)
           \/ \E p \in Requests : CommitClose(p)
<1>1. CASE \E p \in Requests : Step(p)
  BY <1>1 DEF Step, Authenticate, ReadAuction, ReadUser, Validate, Stale, RollBack,
              Broadcast, dbVars
<1>2. CASE Tick \/ OtherCommit \/ Crash \/ UNCHANGED vars
  BY <1>2 DEF Tick, OtherCommit, Crash, dbVars, vars
<1> QED
  BY <1>1, <1>2 DEF Next

\* The commit of a closing touches the status and the version of the row only.
LEMMA CloseFacts ==
    ASSUME IInv, NEW p \in Requests, CommitClose(p)
    PROVE  /\ auction.status # "finished" /\ auction'.status = "finished"
           /\ auction'.price = auction.price /\ bids' = bids
<1>1. Local(p) /\ auction \in AuctionRow
  BY DEF IInv, Typed, TypeOK
<1>2. seen[p] = auction /\ auction.status # "finished"
  BY <1>1 DEF CommitClose, Fresh, Local, Snapshot, Checked
<1> QED
  BY <1>1, <1>2 DEF CommitClose, AuctionRow

\* The price never rolls back, the log only grows, a closed auction is final:
\* the property of every step that docs/architecture.md:14 asks of the price.
THEOREM PriceNeverRollsBack == Spec => NeverRollsBack
<1>1. ASSUME IInv, [Next]_vars
      PROVE  /\ auction'.price >= auction.price
             /\ Len(bids') >= Len(bids)
             /\ SubSeq(bids', 1, Len(bids)) = bids
             /\ auction.status = "finished" => UNCHANGED <<auction, bids>>
  <2>1. /\ auction \in AuctionRow /\ auction.price \in Nat
        /\ bids \in Seq(BidRow) /\ Len(bids) \in Nat
    BY <1>1 DEF IInv, Typed, TypeOK, AuctionRow
  <2>2. SubSeq(bids, 1, Len(bids)) = bids
    BY <2>1
  <2>3. CASE UNCHANGED <<auction, bids>>
    BY <2>1, <2>2, <2>3
  <2>4. ASSUME NEW p \in Requests, CommitBid(p)
        PROVE  /\ auction'.price >= auction.price
               /\ Len(bids') >= Len(bids)
               /\ SubSeq(bids', 1, Len(bids)) = bids
               /\ auction.status # "finished"
    <3> DEFINE row == [request |-> p, user |-> client[p], amount |-> offer[p]]
    <3>1. /\ auction.status # "finished"
          /\ IF auction.leader = None THEN offer[p] >= auction.price
                                      ELSE offer[p] > auction.price
          /\ auction' = [auction EXCEPT !.price = offer[p], !.leader = client[p],
                                        !.version = auction.version + 1]
          /\ bids' = Append(bids, row)
          /\ p \in BidRequests
      BY <1>1, <2>4, CommitBidFacts
    <3>2. offer[p] \in Nat /\ auction'.price = offer[p]
      BY <1>1, <2>1, <3>1, Numbers DEF IInv, AuctionRow
    <3>3. row \in BidRow
      BY <1>1, <3>1 DEF IInv, Typed, TypeOK, BidRow
    <3> HIDE DEF row
    <3>4. Len(bids') = Len(bids) + 1 /\ SubSeq(bids', 1, Len(bids)) = bids
      BY <2>1, <3>1, <3>3
    <3> QED
      BY <2>1, <3>1, <3>2, <3>4
  <2>5. ASSUME NEW p \in Requests, CommitClose(p)
        PROVE  /\ auction.status # "finished"
               /\ auction'.price = auction.price /\ bids' = bids
    BY <1>1, <2>5, CloseFacts
  <2> QED
    BY <1>1, <2>1, <2>2, <2>3, <2>4, <2>5, TableSteps
<1> QED
  BY <1>1, Invariant, PTL DEF Spec, NeverRollsBack

\* Bidding implements the English auction: a commit of a bid is TakeBid, the
\* commit of a closing is Close, every other step is invisible.
THEOREM Refinement == Spec => ImplementsEnglishAuction
<1>1. ASSUME Init PROVE Promise!Init
  <2>1. bids = << >>
    BY <1>1 DEF Init
  <2>2. auction.status # "finished"
    BY <1>1 DEF Init, CreatedAuction
  <2> QED
    BY <2>1, <2>2 DEF Promise!Init
<1>2. ASSUME IInv, [Next]_vars
      PROVE  [Promise!Next]_<<bids, auction.status # "finished">>
  <2>1. CASE UNCHANGED <<auction, bids>>
    BY <2>1
  <2>2. ASSUME NEW p \in Requests, CommitBid(p) PROVE Promise!Next
    <3> DEFINE row == [request |-> p, user |-> client[p], amount |-> offer[p]]
    <3>1. /\ pc[p] = "commit" /\ p \in BidRequests /\ answer[p] = "none"
          /\ auction.status # "finished"
          /\ auction.leader # client[p]
          /\ IF auction.leader = None THEN offer[p] >= auction.price
                                      ELSE offer[p] > auction.price
          /\ auction' = [auction EXCEPT !.price = offer[p], !.leader = client[p],
                                        !.version = auction.version + 1]
          /\ bids' = Append(bids, row)
      BY <1>2, <2>2, CommitBidFacts
    <3>2. Typed /\ Tables /\ Outcomes
      BY <1>2 DEF IInv
    <3>3. auction \in AuctionRow /\ bids \in Seq(BidRow)
      BY <3>2 DEF Typed, TypeOK
    <3>4. row \in Promise!Entry
      BY <3>1, <3>2 DEF Promise!Entry, Typed, TypeOK
    <3>5. auction'.status = auction.status
      BY <3>1, <3>3 DEF AuctionRow
    <3>6. ~ Promise!Recorded(p)
      BY <3>1, <3>2 DEF Promise!Recorded, Outcomes, RecordedOnce
    <3>7. Promise!Beats(row)
      <4>1. CASE bids = << >>
        BY <3>1, <3>2, <4>1 DEF Promise!Beats, Tables, RowMatchesLog
      <4>2. CASE bids # << >>
        <5>1. auction.leader = bids[Len(bids)].user /\ auction.price = bids[Len(bids)].amount
          BY <3>2, <4>2 DEF Tables, RowMatchesLog, Leading
        <5>2. bids[Len(bids)] \in BidRow
          BY <3>3, <4>2
        <5>3. auction.leader # None
          BY <5>1, <5>2, BiddingAssumption DEF BidRow
        <5> QED
          BY <3>1, <4>2, <5>1, <5>3 DEF Promise!Beats
      <4> QED
        BY <4>1, <4>2
    <3>8. row.request = p
      OBVIOUS
    <3> HIDE DEF row
    <3>9. Promise!TakeBid(row)
      BY <3>1, <3>5, <3>6, <3>7, <3>8 DEF Promise!TakeBid
    <3> QED
      BY <3>4, <3>9 DEF Promise!Next
  <2>3. ASSUME NEW p \in Requests, CommitClose(p) PROVE Promise!Next
    BY <1>2, <2>3, CloseFacts DEF Promise!Next, Promise!Close
  <2> QED
    BY <1>2, <2>1, <2>2, <2>3, TableSteps
<1> QED
  BY <1>1, <1>2, Invariant, PTL DEF Spec, ImplementsEnglishAuction, Promise!Spec
=============================================================================
