------------------------------ MODULE Watching ------------------------------
(***************************************************************************)
(* Bidding together with a client that only reads: GET /auctions,          *)
(* GET /auctions/{id} and GET /auctions/{id}/bids, one request after the   *)
(* other, each in a session and a transaction of its own                   *)
(* (app/api/routes/auctions.py, app/services/auctions.py to_out).          *)
(*                                                                         *)
(* The auction is read at one instant and its status computed at a later   *)
(* one, after the await; price and history come from two tables.           *)
(***************************************************************************)
EXTENDS Bidding

\* NULL is not a number: "the clock has not reached ends_at" is not a count.
ASSUME WatchingAssumption == None \notin Nat

VARIABLES
    screen,     \* what the client has been answered last
    fetched,    \* the Auction object of the GET being served, None when there is none
    ended       \* history: the bids recorded when the clock reached ends_at

watch == <<screen, fetched, ended>>

AuctionOut == [price : Nat, leader : Users \cup {None}, status : Statuses]

WatchTypeOK ==
    /\ screen \in AuctionOut
    /\ fetched \in AuctionRow \cup {None}
    /\ ended \in Nat \cup {None}

ToOut(row, t) ==
    [price |-> row.price, leader |-> row.leader, status |-> EffectiveStatus(row, t)]

-----------------------------------------------------------------------------
(* The client's requests *)

SelectAuction ==
    /\ fetched = None
    /\ fetched' = auction
    /\ UNCHANGED screen

ShowAuction ==
    /\ fetched # None
    /\ screen' = ToOut(fetched, now)
    /\ fetched' = None

\* Mutant: the history comes oldest first.
OldestBids ==
    /\ fetched = None
    /\ bids # << >>
    /\ screen' = [screen EXCEPT !.price = bids[1].amount, !.leader = bids[1].user]
    /\ UNCHANGED fetched

\* ORDER BY id DESC: the newest bid comes first, whatever the limit.  Without
\* bids the page keeps the starting price and names no leader.
ListBids ==
    /\ fetched = None
    /\ screen' = IF bids = << >>
                 THEN [screen EXCEPT !.price = StartPrice, !.leader = None]
                 ELSE [screen EXCEPT !.price = Leading.amount, !.leader = Leading.user]
    /\ UNCHANGED fetched

Watch == SelectAuction \/ ShowAuction \/ ListBids

-----------------------------------------------------------------------------
(* The system with its client *)

WatchInit ==
    /\ Init
    /\ screen = [price |-> 0, leader |-> None, status |-> "scheduled"]
    /\ fetched = None
    /\ ended = IF now >= auction.ends THEN 0 ELSE None

WatchNext ==
    \/ /\ Next
       /\ ended' = IF ended = None /\ now' >= auction.ends THEN Len(bids) ELSE ended
       /\ UNCHANGED <<screen, fetched>>
    \/ Watch /\ UNCHANGED <<vars, ended>>

WatchSpec == WatchInit /\ [][WatchNext]_<<vars, watch>>

\* The requests that write are run by the event loop; the reader may stop.
FairWatchSpec == WatchSpec /\ \A p \in Requests : WF_vars(Step(p))

-----------------------------------------------------------------------------
(* What the client can rely on *)

\* A bid that was validated before ends_at may still be committed after it, so a
\* page that shows "finished" need not show the final price.  But the first such
\* commit makes every other snapshot stale, and a retry meets the clock: at most
\* one bid comes late, however many requests were on their way.
AtMostOneLateBid == ended # None => Len(bids) <= ended + 1

Rank(status) == CASE status = "scheduled" -> 0
                  [] status = "active" -> 1
                  [] status = "finished" -> 2

\* A client never sees the auction go back, in whatever order it asks for the
\* auction and for the history: the price does not fall, the status does not
\* return to an earlier one, and the same price names the same leader.
NeverSeenGoingBack ==
    [][/\ screen'.price >= screen.price
       /\ Rank(screen'.status) >= Rank(screen.status)
       /\ screen.leader # None =>
              /\ screen'.leader # None
              /\ screen'.price = screen.price => screen'.leader = screen.leader]_screen
=============================================================================
