------------------------------ MODULE Delivery ------------------------------
(***************************************************************************)
(* What the rooms promise: a message goes, once each, to exactly those who *)
(* listen to its auction when it is published, except those who stop       *)
(* listening before it reached them.  No dict of rooms, no list of         *)
(* connections, no failed sends.                                           *)
(***************************************************************************)
EXTENDS Sequences

CONSTANTS Sockets, Auctions, Casts

VARIABLES
    room,        \* the auction each socket is for
    topic,       \* the auction each message is about
    listening,   \* the sockets whose clients listen
    phase,       \* "idle", "sending" or "done", for each message
    due,         \* who has yet to receive each message
    inbox        \* what each client received, in order

Init ==
    /\ room \in [Sockets -> Auctions]
    /\ topic \in [Casts -> Auctions]
    /\ listening = {}
    /\ phase = [c \in Casts |-> "idle"]
    /\ due = [c \in Casts |-> {}]
    /\ inbox = [s \in Sockets |-> << >>]

Subscribe(s) ==
    /\ listening' = listening \cup {s}
    /\ UNCHANGED <<room, topic, phase, due, inbox>>

Unsubscribe(s) ==
    /\ listening' = listening \ {s}
    /\ due' = [c \in Casts |-> due[c] \ {s}]
    /\ UNCHANGED <<room, topic, phase, inbox>>

Publish(c) ==
    /\ phase[c] = "idle"
    /\ phase' = [phase EXCEPT ![c] = "sending"]
    /\ due' = [due EXCEPT ![c] = {s \in listening : room[s] = topic[c]}]
    /\ UNCHANGED <<room, topic, listening, inbox>>

Tell(c, s) ==
    /\ s \in due[c]
    /\ due' = [due EXCEPT ![c] = @ \ {s}]
    /\ inbox' = [inbox EXCEPT ![s] = Append(@, c)]
    /\ UNCHANGED <<room, topic, listening, phase>>

End(c) ==
    /\ phase[c] = "sending"
    /\ due[c] = {}
    /\ phase' = [phase EXCEPT ![c] = "done"]
    /\ UNCHANGED <<room, topic, listening, due, inbox>>

Next ==
    \/ \E s \in Sockets : Subscribe(s) \/ Unsubscribe(s)
    \/ \E c \in Casts : Publish(c) \/ End(c) \/ \E s \in Sockets : Tell(c, s)

Spec == Init /\ [][Next]_<<room, topic, listening, phase, due, inbox>>
=============================================================================
