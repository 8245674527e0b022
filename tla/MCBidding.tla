------------------------------ MODULE MCBidding ------------------------------
(***************************************************************************)
(* Small instances of Bidding for TLC.                                     *)
(***************************************************************************)
EXTENDS BiddingInvariant, TLC

CONSTANTS alice, bob, carol, dave, root, b1, b2, b3, b4, c1, c2

Row(role, balance) == [role |-> role, active |-> TRUE, balance |-> balance]

\* Two bidders and an administrator; the balances leave room for one deposit.
RichPair == {(alice :> Row("user", 2)) @@ (bob :> Row("user", 3))
             @@ (root :> Row("admin", 3))}

\* Two users whose roles, blocks and balances change while requests run.
ModestPair == {(alice :> Row("user", 1)) @@ (bob :> Row("user", 2)),
               (alice :> Row("admin", 1)) @@ (bob :> Row("user", 1))}

BlockOrPromote == {[role |-> "user", active |-> TRUE],
                   [role |-> "user", active |-> FALSE],
                   [role |-> "admin", active |-> TRUE]}

StartsLater == {[starts |-> 0, ends |-> 1], [starts |-> 1, ends |-> 2]}

AlwaysOpen == {[starts |-> 0, ends |-> 1]}

\* Bidders bid and the administrator closes; any of them sends any request.
OwnRole == {f \in [Requests -> Users] :
                \A p \in Requests : f[p] = root <=> p \in CloseRequests}
Anybody == [Requests -> Users]

\* Every choice of amounts; a closing has none, so its offer is fixed.
AnyOffer == {f \in [Requests -> Amounts] :
                 \A p \in CloseRequests : f[p] = StartPrice}

\* Four users with a bid each, as in test_concurrent_bids_never_lose_the_highest_bid.
RichFour == {[u \in Users |-> Row("user", 4)]}
OneBidEach == {(b1 :> alice) @@ (b2 :> bob) @@ (b3 :> carol) @@ (b4 :> dave)}
DifferentOffers == {(b1 :> 1) @@ (b2 :> 2) @@ (b3 :> 3) @@ (b4 :> 4)}

RequestSymmetry == Permutations(BidRequests) \cup Permutations(CloseRequests)
=============================================================================
