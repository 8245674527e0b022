--------------------------- MODULE WatchingProofs ---------------------------
(***************************************************************************)
(* Theorems about Watching, for any users, requests, amounts, schedule and *)
(* number of retries: what a client that only reads is shown, and how many *)
(* bids can come late.                                                     *)
(***************************************************************************)
EXTENDS Watching, BiddingProofs

\* Row a was on display before row b: the price does not fall, a leader stays
\* until somebody pays more.
Behind(a, b) ==
    /\ a.price <= b.price
    /\ a.leader # None => /\ b.leader # None
                          /\ a.price = b.price => a.leader = b.leader

\* What the next answer is made from: the row on its way, or the table's.
Row == IF fetched # None THEN fetched ELSE auction

\* The page is behind the next answer, and a row on its way behind the table.
PageBehind ==
    /\ Behind(screen, Row)
    /\ Rank(screen.status) <= Rank(EffectiveStatus(Row, now))
    /\ fetched # None =>
          /\ Behind(fetched, auction)
          /\ fetched.starts = auction.starts
          /\ fetched.ends = auction.ends
          /\ fetched.status = "finished" => auction.status = "finished"

\* The dates of the auction never change; a session's copy has the same ones.
SameEnd == \A p \in Requests : seen[p].ends = auction.ends

\* Once the clock has reached ends_at a bid that is still on its way was
\* validated against a row no younger than the one of that moment.
LateBids ==
    /\ ended = None <=> now < auction.ends
    /\ ended # None =>
          /\ Len(bids) <= ended + 1
          /\ ended <= Len(bids)
          /\ \A p \in BidRequests : pc[p] = "commit" => seen[p].version <= 1 + ended

WatchIInv == IInv /\ WatchTypeOK /\ SameEnd /\ LateBids /\ PageBehind

-----------------------------------------------------------------------------
(* What the steps of the system do to the row and to the clock *)

\* A later row, or the same one at a later time, is at no earlier stage
\* (effective_status in services/auctions.py).
LEMMA StatusForward ==
    ASSUME NEW a \in AuctionRow, NEW b \in AuctionRow, NEW t \in Nat, NEW u \in Nat,
           a.starts = b.starts, a.ends = b.ends, t <= u,
           a.status = "finished" => b.status = "finished"
    PROVE  /\ Rank(EffectiveStatus(a, t)) \in Nat
           /\ Rank(EffectiveStatus(b, u)) \in Nat
           /\ Rank(EffectiveStatus(a, t)) <= Rank(EffectiveStatus(b, u))
<1>1. a.starts \in Nat /\ a.ends \in Nat
  BY DEF AuctionRow
<1>2. Rank("scheduled") = 0 /\ Rank("active") = 1 /\ Rank("finished") = 2
  BY DEF Rank
<1> QED
  BY <1>1, <1>2 DEF EffectiveStatus

\* A page that is behind a row is behind its successors.
LEMMA BehindTransitive ==
    ASSUME NEW a, NEW b, NEW c, a.price \in Nat, b.price \in Nat, c.price \in Nat,
           Behind(a, b), Behind(b, c)
    PROVE  Behind(a, c)
  BY DEF Behind

\* A step leaves the dates and the closing alone, and moves price, leader and
\* clock forward.
LEMMA RowForward ==
    ASSUME IInv, Typed', [Next]_vars
    PROVE  /\ Behind(auction, auction')
           /\ auction'.starts = auction.starts /\ auction'.ends = auction.ends
           /\ auction.status = "finished" => auction'.status = "finished"
           /\ now \in Nat /\ now' \in Nat /\ now <= now'
<1>1. auction \in AuctionRow /\ auction.price \in Nat /\ Typed
  BY DEF IInv, Typed, TypeOK, AuctionRow
<1>2. now \in Nat /\ now' \in Nat
  BY <1>1, BiddingAssumption DEF Typed, TypeOK, Instants
<1>3. now <= now'
  <2>1. CASE \E p \in Requests : Step(p)
    BY <1>2, <2>1 DEF Step, Authenticate, ReadAuction, ReadUser, Validate, CommitBid,
                      CommitClose, Stale, Broadcast
  <2>2. CASE Tick \/ OtherCommit \/ Crash \/ UNCHANGED vars
    BY <1>2, <2>2 DEF Tick, OtherCommit, Crash, vars
  <2> QED
    BY <2>1, <2>2 DEF Next
<1>4. CASE UNCHANGED <<auction, bids>>
  BY <1>1, <1>2, <1>3, <1>4 DEF Behind
<1>5. ASSUME NEW p \in Requests, CommitBid(p)
      PROVE  /\ Behind(auction, auction')
             /\ auction'.starts = auction.starts /\ auction'.ends = auction.ends
             /\ auction.status # "finished"
  <2>1. /\ auction.status # "finished"
        /\ auction.leader # client[p]
        /\ IF auction.leader = None THEN offer[p] >= auction.price
                                    ELSE offer[p] > auction.price
        /\ auction' = [auction EXCEPT !.price = offer[p], !.leader = client[p],
                                      !.version = auction.version + 1]
    BY <1>5, CommitBidFacts
  <2>2. offer[p] \in Nat /\ client[p] # None
    BY <1>1, Numbers
  <2>3. /\ auction'.price = offer[p] /\ auction'.leader = client[p]
        /\ auction'.starts = auction.starts /\ auction'.ends = auction.ends
    BY <1>1, <2>1 DEF AuctionRow
  <2> QED
    BY <1>1, <2>1, <2>2, <2>3 DEF Behind
<1>6. ASSUME NEW p \in Requests, CommitClose(p)
      PROVE  /\ Behind(auction, auction')
             /\ auction'.starts = auction.starts /\ auction'.ends = auction.ends
             /\ auction'.status = "finished"
  BY <1>1, <1>6 DEF CommitClose, AuctionRow, Behind
<1> QED
  BY <1>2, <1>3, <1>4, <1>5, <1>6, TableSteps

-----------------------------------------------------------------------------
(* The inductive invariant *)

\* The first page is blank, nothing is on its way, and an auction whose end has
\* passed when the model starts has no bids.
LEMMA WatchInitInvariant == WatchInit => WatchIInv
<1>1. SUFFICES ASSUME WatchInit PROVE WatchIInv
  OBVIOUS
<1>2. Init /\ IInv
  BY <1>1, InitInvariant DEF WatchInit
<1>3. /\ auction \in AuctionRow /\ now \in Nat
      /\ auction.price \in Nat /\ auction.ends \in Nat
  BY <1>2, BiddingAssumption DEF IInv, Typed, TypeOK, Instants, AuctionRow
<1>4. /\ screen = [price |-> 0, leader |-> None, status |-> "scheduled"]
      /\ fetched = None /\ ended = IF now >= auction.ends THEN 0 ELSE None
      /\ bids = << >> /\ seen = [p \in Requests |-> auction]
      /\ pc = [p \in Requests |-> "arrived"]
  BY <1>1, <1>2 DEF WatchInit, Init
<1>5. WatchTypeOK
  BY <1>4 DEF WatchTypeOK, AuctionOut, Statuses
<1>6. SameEnd
  BY <1>4 DEF SameEnd
<1>7. LateBids
  <2>1. Len(bids) = 0 /\ (0 = None <=> FALSE)
    BY <1>4, WatchingAssumption
  <2>2. \A p \in BidRequests : pc[p] # "commit"
    BY <1>4 DEF Requests
  <2> QED
    BY <1>3, <1>4, <2>1, <2>2 DEF LateBids
<1>8. PageBehind
  <2>1. Rank("scheduled") = 0
    BY DEF Rank
  <2>2. Rank(EffectiveStatus(auction, now)) \in Nat
    BY <1>3, StatusForward
  <2> QED
    BY <1>3, <1>4, <2>1, <2>2 DEF PageBehind, Behind, Row
<1> QED
  BY <1>2, <1>5, <1>6, <1>7, <1>8 DEF WatchIInv

\* Whatever the system does, what the client holds stays behind.
LEMMA PageStaysBehind ==
    ASSUME IInv, Typed', WatchTypeOK, PageBehind, [Next]_vars,
           UNCHANGED <<screen, fetched>>
    PROVE  PageBehind'
<1>1. /\ Behind(auction, auction')
      /\ auction'.starts = auction.starts /\ auction'.ends = auction.ends
      /\ auction.status = "finished" => auction'.status = "finished"
      /\ now \in Nat /\ now' \in Nat /\ now <= now'
  BY RowForward
<1>2. /\ auction \in AuctionRow /\ auction' \in AuctionRow /\ screen \in AuctionOut
      /\ fetched # None => fetched \in AuctionRow
  BY DEF IInv, Typed, TypeOK, WatchTypeOK
<1>3. /\ auction.price \in Nat /\ auction'.price \in Nat /\ screen.price \in Nat
      /\ fetched # None => fetched.price \in Nat
      /\ Rank(screen.status) \in Nat
  BY <1>2 DEF AuctionRow, AuctionOut, Rank, Statuses
<1>4. CASE fetched # None
  <2>1. Rank(EffectiveStatus(fetched, now)) <= Rank(EffectiveStatus(fetched, now'))
        /\ Rank(EffectiveStatus(fetched, now)) \in Nat
        /\ Rank(EffectiveStatus(fetched, now')) \in Nat
    BY <1>1, <1>2, <1>4, StatusForward
  <2>2. Behind(fetched, auction')
    BY <1>1, <1>3, <1>4, BehindTransitive DEF PageBehind
  <2> QED
    BY <1>1, <1>3, <1>4, <2>1, <2>2 DEF PageBehind, Row
<1>5. CASE fetched = None
  <2>1. Rank(EffectiveStatus(auction, now)) <= Rank(EffectiveStatus(auction', now'))
        /\ Rank(EffectiveStatus(auction, now)) \in Nat
        /\ Rank(EffectiveStatus(auction', now')) \in Nat
    BY <1>1, <1>2, StatusForward
  <2>2. Behind(screen, auction')
    BY <1>1, <1>3, <1>5, BehindTransitive DEF PageBehind, Row
  <2> QED
    BY <1>1, <1>3, <1>5, <2>1, <2>2 DEF PageBehind, Row
<1> QED
  BY <1>4, <1>5

\* A request of the client shows a row no older than the page, and leaves the
\* page behind the table again.
LEMMA WatchSteps ==
    ASSUME WatchIInv, Watch, UNCHANGED <<vars, ended>>
    PROVE  /\ WatchTypeOK' /\ PageBehind'
           /\ Behind(screen, screen')
           /\ Rank(screen.status) <= Rank(screen'.status)
<1>1. /\ auction \in AuctionRow /\ screen \in AuctionOut
      /\ fetched # None => fetched \in AuctionRow
      /\ now \in Nat /\ bids \in Seq(BidRow) /\ StartPrice \in Nat
      /\ UNCHANGED <<auction, bids, now, ended>>
  BY BiddingAssumption DEF WatchIInv, IInv, Typed, TypeOK, WatchTypeOK, Instants, vars
<1>2. /\ auction.price \in Nat /\ screen.price \in Nat
      /\ auction.leader \in Users \cup {None} /\ screen.leader \in Users \cup {None}
      /\ fetched # None => fetched.price \in Nat /\ fetched.leader \in Users \cup {None}
      /\ Rank(screen.status) \in Nat
  BY <1>1 DEF AuctionRow, AuctionOut, Rank, Statuses
<1>3. PageBehind /\ RowMatchesLog /\ ended \in Nat \cup {None}
  BY DEF WatchIInv, IInv, Tables, WatchTypeOK
<1>4. Behind(screen, screen) /\ Rank(screen.status) <= Rank(screen.status)
  BY <1>2 DEF Behind
<1>5. CASE SelectAuction
  <2>1. fetched = None /\ fetched' = auction /\ screen' = screen
    BY <1>5 DEF SelectAuction
  <2>2. Behind(auction, auction)
    BY <1>2 DEF Behind
  <2> QED
    BY <1>1, <1>3, <1>4, <2>1, <2>2 DEF WatchTypeOK, PageBehind, Row
<1>6. CASE ShowAuction
  <2>1. fetched # None /\ fetched' = None /\ screen' = ToOut(fetched, now)
    BY <1>6 DEF ShowAuction
  <2>2. /\ screen'.price = fetched.price /\ screen'.leader = fetched.leader
        /\ screen'.status = EffectiveStatus(fetched, now)
    BY <2>1 DEF ToOut
  <2>3. screen' \in AuctionOut
    <3>1. EffectiveStatus(fetched, now) \in Statuses
      BY DEF EffectiveStatus, Statuses
    <3> QED
      BY <1>2, <2>1, <3>1 DEF ToOut, AuctionOut
  <2>4. Behind(screen, screen') /\ Rank(screen.status) <= Rank(screen'.status)
    BY <1>3, <2>1, <2>2 DEF PageBehind, Row, Behind
  <2>5. Behind(screen', auction)
    BY <1>3, <2>1, <2>2 DEF PageBehind, Behind
  <2>6. Rank(screen'.status) <= Rank(EffectiveStatus(auction, now))
    <3>1. /\ fetched \in AuctionRow
          /\ fetched.starts = auction.starts /\ fetched.ends = auction.ends
          /\ fetched.status = "finished" => auction.status = "finished"
      BY <1>1, <1>3, <2>1 DEF PageBehind
    <3>2. now <= now
      BY <1>1
    <3>3. Rank(EffectiveStatus(fetched, now)) <= Rank(EffectiveStatus(auction, now))
      BY <1>1, <3>1, <3>2, StatusForward
    <3> QED
      BY <2>2, <3>3
  <2> QED
    BY <1>1, <1>3, <2>1, <2>3, <2>4, <2>5, <2>6 DEF WatchTypeOK, PageBehind, Row
<1>7. CASE ListBids
  <2>1. fetched = None /\ fetched' = None
    BY <1>7 DEF ListBids
  <2>2. screen' = [screen EXCEPT !.price = auction.price, !.leader = auction.leader]
    <3>1. CASE bids = << >>
      <4>1. auction.price = StartPrice /\ auction.leader = None
        BY <1>3, <3>1 DEF RowMatchesLog
      <4>2. screen' = [screen EXCEPT !.price = StartPrice, !.leader = None]
        BY <1>7, <3>1 DEF ListBids
      <4> QED
        BY <4>1, <4>2
    <3>2. CASE bids # << >>
      <4>1. auction.price = Leading.amount /\ auction.leader = Leading.user
        BY <1>3, <3>2 DEF RowMatchesLog
      <4>2. screen' = [screen EXCEPT !.price = Leading.amount, !.leader = Leading.user]
        BY <1>7, <3>2 DEF ListBids
      <4> QED
        BY <4>1, <4>2
    <3> QED
      BY <3>1, <3>2
  <2>3. /\ screen'.price = auction.price /\ screen'.leader = auction.leader
        /\ screen'.status = screen.status /\ screen' \in AuctionOut
    BY <1>1, <1>2, <2>2 DEF AuctionOut
  <2>4. Behind(screen, screen') /\ Behind(screen', auction)
    BY <1>2, <1>3, <2>1, <2>3 DEF PageBehind, Row, Behind
  <2> QED
    BY <1>1, <1>3, <1>4, <2>1, <2>3, <2>4 DEF WatchTypeOK, PageBehind, Row
<1> QED
  BY <1>5, <1>6, <1>7 DEF Watch

\* A session keeps the dates of the row it read, and the row keeps its own.
LEMMA SameEndKept ==
    ASSUME IInv, Typed', SameEnd, [Next]_vars
    PROVE  SameEnd'
<1>1. auction'.ends = auction.ends
  BY RowForward
<1>2. seen \in [Requests -> AuctionRow]
  BY DEF IInv, Typed, TypeOK
<1>3. ASSUME NEW q \in Requests PROVE seen'[q].ends = auction.ends
  <2>1. CASE UNCHANGED seen
    BY <2>1 DEF SameEnd
  <2>2. ASSUME NEW p \in Requests, ReadAuction(p) PROVE seen'[q].ends = auction.ends
    BY <1>2, <2>2 DEF ReadAuction, SameEnd
  <2>3. ASSUME NEW p \in Requests, CommitClose(p) PROVE seen'[q].ends = auction.ends
    <3>1. CASE q # p
      BY <1>2, <2>3, <3>1 DEF CommitClose, SameEnd
    <3>2. CASE q = p
      <4>1. seen'[p] = [seen[p] EXCEPT !.status = "finished", !.version = auction'.version]
        BY <1>2, <2>3 DEF CommitClose
      <4>2. seen[p] \in AuctionRow
        BY <1>2, <2>3
      <4> QED
        BY <3>2, <4>1, <4>2 DEF AuctionRow, SameEnd
    <3> QED
      BY <3>1, <3>2
  <2>4. UNCHANGED seen \/ (\E p \in Requests : ReadAuction(p) \/ CommitClose(p))
    BY DEF Next, Step, Authenticate, ReadUser, Validate, CommitBid, Stale, Broadcast,
           Tick, OtherCommit, Crash, vars
  <2> QED
    BY <2>1, <2>2, <2>3, <2>4
<1> QED
  BY <1>1, <1>3 DEF SameEnd

\* A bid that is ready to commit when the row has no later version was validated
\* against that row: the version counts the bids made so far.
LEMMA ReadyBids ==
    ASSUME IInv, NEW p \in BidRequests, pc[p] = "commit"
    PROVE  /\ seen[p].version \in Nat /\ Len(bids) \in Nat
           /\ seen[p].version <= 1 + Len(bids)
<1>1. p \in Requests /\ Local(p) /\ Typed /\ VersionCountsCommits
  BY DEF Requests, IInv, Tables
<1>2. /\ seen[p].version <= auction.version
      /\ seen[p].version = auction.version => seen[p] = auction
      /\ seen[p].status # "finished"
  BY <1>1 DEF Local, Snapshot, Checked
<1>3. seen[p].version \in Nat /\ auction.version \in Nat /\ Len(bids) \in Nat
  BY <1>1, Numbers DEF Typed, TypeOK
<1>4. CASE auction.status = "finished"
  <2>1. auction.version = 2 + Len(bids)
    BY <1>1, <1>3, <1>4 DEF VersionCountsCommits
  <2>2. seen[p].version # auction.version
    BY <1>2, <1>4
  <2> QED
    BY <1>2, <1>3, <2>1, <2>2
<1>5. CASE auction.status # "finished"
  BY <1>1, <1>2, <1>3, <1>5 DEF VersionCountsCommits
<1> QED
  BY <1>3, <1>4, <1>5

\* Only _validate_bid lets a bid go to its commit, and it looks at the clock.
LEMMA NewReadyBids ==
    ASSUME IInv, SameEnd, [Next]_vars, NEW p \in BidRequests, pc'[p] = "commit"
    PROVE  /\ seen'[p] = seen[p]
           /\ pc[p] = "commit" \/ now < auction.ends
<1>1. /\ p \in Requests /\ p \notin CloseRequests
      /\ pc \in [Requests -> Labels] /\ seen \in [Requests -> AuctionRow]
  BY BiddingAssumption DEF Requests, IInv, Typed, TypeOK
<1>2. now \in Nat /\ auction.ends \in Nat /\ seen[p].starts \in Nat
  BY <1>1, BiddingAssumption DEF IInv, Typed, TypeOK, Instants, AuctionRow
<1>3. ASSUME NEW q \in Requests, Step(q), q # p
      PROVE  seen'[p] = seen[p] /\ pc'[p] = pc[p]
  BY <1>1, <1>3, StepMovesOne DEF OnlyMoves, IInv
<1>4. ASSUME Step(p) PROVE seen'[p] = seen[p] /\ now < auction.ends
  <2>1. Validate(p)
    BY <1>1, <1>4 DEF Step, Authenticate, ReadAuction, ReadUser, CommitBid, CommitClose,
                      Stale, Broadcast, Goto, Finish
  <2>2. Refusal(seen[p], client[p], offer[p], funds[p], now) = "none"
    BY <1>1, <2>1 DEF Validate, Finish, Goto
  <2>3. EffectiveStatus(seen[p], now) = "active"
    BY <2>2 DEF Refusal
  <2>4. ~ now >= seen[p].ends
    BY <2>3 DEF EffectiveStatus
  <2> QED
    BY <1>1, <1>2, <2>1, <2>4 DEF Validate, SameEnd
<1>5. CASE Tick \/ OtherCommit \/ UNCHANGED vars
  BY <1>5 DEF Tick, OtherCommit, vars
<1>6. CASE Crash
  BY <1>1, <1>6 DEF Crash
<1> QED
  BY <1>3, <1>4, <1>5, <1>6 DEF Next

\* After ends_at at most one of the bids on their way is committed: it makes the
\* snapshots of the others stale, and none is validated any more.
LEMMA LateBidsKept ==
    ASSUME WatchIInv, Typed', [Next]_vars,
           ended' = IF ended = None /\ now' >= auction.ends THEN Len(bids) ELSE ended
    PROVE  LateBids' /\ ended' \in Nat \cup {None}
<1>1. /\ IInv /\ SameEnd /\ LateBids /\ ended \in Nat \cup {None}
      /\ auction.ends \in Nat /\ auction'.ends = auction.ends
      /\ now \in Nat /\ now' \in Nat /\ now <= now'
      /\ bids \in Seq(BidRow) /\ Len(bids) \in Nat /\ None \notin Nat
  <2>1. IInv /\ SameEnd /\ LateBids /\ ended \in Nat \cup {None}
    BY DEF WatchIInv, WatchTypeOK
  <2>2. auction \in AuctionRow /\ bids \in Seq(BidRow)
    BY <2>1 DEF IInv, Typed, TypeOK
  <2> QED
    BY <2>1, <2>2, RowForward, WatchingAssumption DEF AuctionRow
<1>2. CASE now' < auction.ends
  <2>1. ended = None /\ ended' = None
    BY <1>1, <1>2 DEF LateBids
  <2> QED
    BY <1>1, <1>2, <2>1 DEF LateBids
<1>3. CASE ended = None /\ now' >= auction.ends
  <2>1. ended' = Len(bids) /\ ended' # None /\ now < auction.ends
    BY <1>1, <1>3 DEF LateBids
  <2>2. Tick
    <3>1. now' # now
      BY <1>1, <1>3, <2>1
    <3>2. CASE \E p \in Requests : Step(p)
      BY <3>1, <3>2 DEF Step, Authenticate, ReadAuction, ReadUser, Validate, CommitBid,
                        CommitClose, Stale, Broadcast
    <3>3. CASE OtherCommit \/ Crash \/ UNCHANGED vars
      BY <3>1, <3>3 DEF OtherCommit, Crash, vars
    <3> QED
      BY <3>2, <3>3 DEF Next
  <2>3. UNCHANGED <<bids, pc, seen>>
    BY <2>2 DEF Tick, dbVars
  <2>4. \A p \in BidRequests : pc[p] = "commit" => seen[p].version <= 1 + Len(bids)
    BY <1>1, ReadyBids
  <2> QED
    BY <1>1, <1>3, <2>1, <2>3, <2>4 DEF LateBids
<1>4. CASE ended # None
  <2>1. /\ ended' = ended /\ ended \in Nat /\ ~ now < auction.ends
        /\ Len(bids) <= ended + 1 /\ ended <= Len(bids)
    BY <1>1, <1>4 DEF LateBids
  <2>2. ASSUME NEW p \in BidRequests, pc'[p] = "commit"
        PROVE  seen'[p].version <= 1 + ended
    BY <1>1, <1>4, <2>1, <2>2, NewReadyBids DEF LateBids
  <2>3. ended <= Len(bids') /\ Len(bids') <= ended + 1
    <3>1. CASE UNCHANGED <<auction, bids>>
      BY <2>1, <3>1
    <3>2. ASSUME NEW p \in Requests, CommitBid(p)
          PROVE  Len(bids') = Len(bids) + 1 /\ Len(bids) <= ended
      <4>1. /\ pc[p] = "commit" /\ p \in BidRequests
            /\ auction.status # "finished" /\ seen[p].version = auction.version
            /\ bids' = Append(bids, [request |-> p, user |-> client[p],
                                     amount |-> offer[p]])
        BY <1>1, <3>2, CommitBidFacts DEF CommitBid, Fresh
      <4>2. seen[p].version <= 1 + ended
        BY <1>1, <1>4, <4>1 DEF LateBids
      <4>3. auction.version = 1 + Len(bids)
        BY <1>1, <4>1 DEF IInv, Tables, VersionCountsCommits
      <4>4. [request |-> p, user |-> client[p], amount |-> offer[p]] \in BidRow
        BY <1>1, <4>1 DEF IInv, Typed, TypeOK, BidRow, Requests
      <4> QED
        BY <1>1, <2>1, <4>1, <4>2, <4>3, <4>4
    <3>3. ASSUME NEW p \in Requests, CommitClose(p) PROVE bids' = bids
      BY <3>3 DEF CommitClose
    <3> QED
      BY <1>1, <2>1, <3>1, <3>2, <3>3, TableSteps
  <2>4. ~ now' < auction'.ends
    BY <1>1, <2>1
  <2> QED
    BY <1>1, <1>4, <2>1, <2>2, <2>3, <2>4 DEF LateBids
<1>5. now' < auction.ends \/ now' >= auction.ends
  BY <1>1
<1> QED
  BY <1>2, <1>3, <1>4, <1>5

\* Every step of the system with its client keeps the invariant.
LEMMA WatchNextInvariant == WatchIInv /\ [WatchNext]_<<vars, watch>> => WatchIInv'
<1> SUFFICES ASSUME WatchIInv, [WatchNext]_<<vars, watch>> PROVE WatchIInv'
  OBVIOUS
<1>1. [Next]_vars /\ IInv
  BY DEF WatchNext, WatchIInv
<1>2. IInv' /\ Typed'
  BY <1>1, NextInvariant DEF IInv
<1>3. SameEnd'
  BY <1>1, <1>2, SameEndKept DEF WatchIInv
<1>4. CASE /\ Next
           /\ ended' = IF ended = None /\ now' >= auction.ends THEN Len(bids) ELSE ended
           /\ UNCHANGED <<screen, fetched>>
  <2>1. PageBehind'
    BY <1>1, <1>2, <1>4, PageStaysBehind DEF WatchIInv
  <2>2. LateBids' /\ ended' \in Nat \cup {None}
    BY <1>1, <1>2, <1>4, LateBidsKept
  <2> QED
    BY <1>2, <1>3, <1>4, <2>1, <2>2 DEF WatchIInv, WatchTypeOK
<1>5. CASE Watch /\ UNCHANGED <<vars, ended>>
  <2>1. WatchTypeOK' /\ PageBehind'
    BY <1>5, WatchSteps
  <2>2. LateBids'
    BY <1>5 DEF WatchIInv, LateBids, vars
  <2> QED
    BY <1>2, <1>3, <2>1, <2>2 DEF WatchIInv
<1>6. CASE UNCHANGED <<vars, watch>>
  <2>1. WatchTypeOK' /\ LateBids'
    BY <1>6 DEF WatchIInv, WatchTypeOK, LateBids, vars, watch
  <2>2. PageBehind'
    BY <1>6 DEF WatchIInv, PageBehind, Row, vars, watch
  <2> QED
    BY <1>2, <1>3, <2>1, <2>2 DEF WatchIInv
<1> QED
  BY <1>4, <1>5, <1>6 DEF WatchNext

\* Every reachable state of the system with its client satisfies it.
LEMMA WatchInvariant == WatchSpec => []WatchIInv
  BY WatchInitInvariant, WatchNextInvariant, PTL DEF WatchSpec

-----------------------------------------------------------------------------
(* The theorems *)

\* However many bids are on their way when the auction ends, at most one of them
\* is recorded after ends_at: _validate_bid looks at the clock once, before the
\* commit, and the version check lets one of them through (services/bidding.py).
THEOREM OneLateBidAtMost == WatchSpec => []AtMostOneLateBid
<1>1. WatchIInv => AtMostOneLateBid
  BY DEF WatchIInv, LateBids, AtMostOneLateBid
<1> QED
  BY <1>1, WatchInvariant, PTL

\* A reader beside the bidders changes nothing of what is proved about them:
\* accepted bids are covered here too.
THEOREM WatchedBidsCovered == WatchSpec => []BidsCovered
<1>1. WatchIInv => BidsCovered
  BY DEF WatchIInv, IInv, Tables
<1> QED
  BY <1>1, WatchInvariant, PTL

\* A client that asks for the auction and for its bids in any order never sees
\* the price fall, the status return or a leader change at the same price,
\* although status and row are of different instants (auctions.py, to_out).
THEOREM PageNeverGoesBack == WatchSpec => NeverSeenGoingBack
<1>1. ASSUME WatchIInv, [WatchNext]_<<vars, watch>>
      PROVE  [/\ screen'.price >= screen.price
              /\ Rank(screen'.status) >= Rank(screen.status)
              /\ screen.leader # None =>
                     /\ screen'.leader # None
                     /\ screen'.price = screen.price
                            => screen'.leader = screen.leader]_screen
  <2>1. CASE UNCHANGED screen
    BY <2>1
  <2>2. CASE Watch /\ UNCHANGED <<vars, ended>>
    <3>1. Behind(screen, screen') /\ Rank(screen.status) <= Rank(screen'.status)
          /\ WatchTypeOK'
      BY <1>1, <2>2, WatchSteps
    <3>2. screen \in AuctionOut /\ screen' \in AuctionOut
      BY <1>1, <3>1 DEF WatchIInv, WatchTypeOK
    <3>3. /\ screen.price \in Nat /\ screen'.price \in Nat
          /\ Rank(screen.status) \in Nat /\ Rank(screen'.status) \in Nat
      BY <3>2 DEF AuctionOut, Statuses, Rank
    <3> QED
      BY <3>1, <3>3 DEF Behind
  <2> QED
    BY <1>1, <2>1, <2>2 DEF WatchNext, vars, watch
<1> QED
  BY <1>1, WatchInvariant, PTL DEF WatchSpec, NeverSeenGoingBack
=============================================================================
