-------------------------- MODULE BiddingInvariant --------------------------
(***************************************************************************)
(* The inductive invariant of Bidding: the safety properties, and what     *)
(* every request may rely on at each of its awaits, which makes them       *)
(* inductive.                                                              *)
(***************************************************************************)
EXTENDS Bidding

\* TypeOK is not inductive as it stands: that tries stays within MaxRetries
\* depends on a request with no try left being done.
TriesBounded == \A p \in Requests : pc[p] # "done" => tries[p] < MaxRetries

Typed == TypeOK /\ TriesBounded

\* The version identifies the row: a session that holds the current version
\* holds the current row, and an older snapshot has a lower price.
Snapshot(p) ==
    /\ seen[p].starts = auction.starts
    /\ pc[p] \in {"read_user", "validate", "commit"} =>
          /\ seen[p].version <= auction.version
          /\ seen[p].version = auction.version => seen[p] = auction
          /\ seen[p].price <= auction.price

\* What _validate_bid and the checks before it established, as far as it stays
\* true until the commit.
Checked(p) ==
    /\ pc[p] \in {"read_user", "validate"} => p \in BidRequests
    /\ pc[p] = "validate" => funds[p] <= users[client[p]].balance
    /\ pc[p] = "commit" => seen[p].status # "finished"
    /\ pc[p] = "commit" /\ p \in BidRequests =>
          /\ seen[p].leader # client[p]
          /\ IF seen[p].leader = None THEN offer[p] >= seen[p].price
                                      ELSE offer[p] > seen[p].price
          /\ offer[p] <= users[client[p]].balance
          /\ now >= seen[p].starts

\* After the commit: the bid is part of the price, the winner is known.
Committed(p) ==
    pc[p] = "broadcast" =>
        /\ p \in BidRequests => offer[p] <= auction.price
        /\ p \in CloseRequests => /\ auction.status = "finished"
                                  /\ seen[p].leader = auction.leader
                                  /\ seen[p].price = auction.price

\* Every failed attempt was overtaken by another commit.
Overtaken(p) ==
    /\ since[p] + tries[p] <= auction.version
    /\ pc[p] \in {"read_user", "validate", "commit"} =>
          since[p] + tries[p] <= seen[p].version

\* Only a finished request has an answer.
Answered(p) == answer[p] # "none" => pc[p] = "done"

Local(p) == Snapshot(p) /\ Checked(p) /\ Committed(p) /\ Overtaken(p) /\ Answered(p)

\* While an auction is open its version counts its bids: the snapshot of an open
\* auction with a leader names the bid that led it.
Led(p) ==
    seen[p].status # "finished" /\ seen[p].leader # None =>
        /\ seen[p].version - 1 \in DOMAIN bids
        /\ bids[seen[p].version - 1].user = seen[p].leader

\* What an answer says of the snapshots it was given on.
Reason(p) ==
    /\ pc[p] = "done" => answer[p] # "none"
    /\ p \in BidRequests => answer[p] \notin {"closed", "already_closed"}
    /\ answer[p] = "poor" => funds[p] < offer[p]
    /\ answer[p] = "leading" => /\ seen[p].status # "finished"
                                /\ seen[p].leader = client[p]
                                /\ seen[p].version >= since[p]

Reasons == \A p \in Requests : Led(p) /\ Reason(p)

\* What holds of the tables whatever the requests do.
Tables ==
    /\ RowMatchesLog
    /\ LogRises
    /\ VersionCountsCommits
    /\ BidsCovered
    /\ NoEarlyBid

\* A bid that was accepted, or called too low on whatever stale row, does not
\* exceed the price.
JudgedBidsCounted ==
    \A p \in BidRequests :
        answer[p] \in {"accepted", "too_low"} => offer[p] <= auction.price

\* What holds between the tables, the answers and the messages.
Outcomes ==
    /\ RecordedOnce
    /\ WinnerIsFinal
    /\ BusyMeansOvertaken
    /\ JudgedBidsCounted

IInv ==
    /\ Typed
    /\ Tables
    /\ Outcomes
    /\ \A p \in Requests : Local(p)
=============================================================================
