---------------------------- MODULE EnglishAuction ----------------------------
(***************************************************************************)
(* What the bidding service promises: an open ascending auction in which   *)
(* every bid and the closing happen at one instant.  No row versions, no   *)
(* reads, no retries: the log of accepted bids and whether bids are still  *)
(* taken.                                                                  *)
(***************************************************************************)
EXTENDS Integers, Sequences

CONSTANTS Bidders,     \* who may appear in the log
          Attempts,    \* the requests to bid; each is recorded at most once
          Amounts,     \* the amounts of bids
          StartPrice   \* the lowest first bid

VARIABLES log,         \* the accepted bids, in order
          open         \* FALSE once the auction was closed

Entry == [request : Attempts, user : Bidders, amount : Amounts]

Recorded(r) == \E i \in DOMAIN log : log[i].request = r

\* The rule of an English auction: the first bid reaches the starting price,
\* every later one exceeds the leading bid and comes from somebody else.
Beats(e) ==
    IF log = << >>
    THEN e.amount >= StartPrice
    ELSE /\ e.amount > log[Len(log)].amount
         /\ e.user # log[Len(log)].user

TakeBid(e) ==
    /\ open
    /\ ~ Recorded(e.request)
    /\ Beats(e)
    /\ log' = Append(log, e)
    /\ UNCHANGED open

Close ==
    /\ open
    /\ open' = FALSE
    /\ UNCHANGED log

Init == log = << >> /\ open = TRUE

Next == Close \/ \E e \in Entry : TakeBid(e)

Spec == Init /\ [][Next]_<<log, open>>
=============================================================================
