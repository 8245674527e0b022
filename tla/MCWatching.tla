----------------------------- MODULE MCWatching -----------------------------
(***************************************************************************)
(* A small instance of Watching for TLC.                                   *)
(***************************************************************************)
EXTENDS Watching, TLC

CONSTANTS alice, bob, b1, b2

Row(role, balance) == [role |-> role, active |-> TRUE, balance |-> balance]

\* Two bidders, who may be blocked or deposit meanwhile.
Pair == {(alice :> Row("user", 2)) @@ (bob :> Row("user", 1))}

Blocks == {[role |-> "user", active |-> FALSE]}

\* One auction ends while requests run, the other starts then.
OneEndsOneStarts == {[starts |-> 0, ends |-> 1], [starts |-> 1, ends |-> 2]}

AnyOffer == [Requests -> Amounts]

\* Requests of one user or of two.
AliceAndAnybody == {f \in [Requests -> Users] : f[b1] = alice}
=============================================================================
