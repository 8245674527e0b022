------------------------------- MODULE LiveView -------------------------------
(***************************************************************************)
(* One browser tab that watches lots: app/static/js/app.js, the state      *)
(* object, its WebSocket and the fetches in flight, against a server that  *)
(* takes bids, closes lots and broadcasts both.                            *)
(*                                                                         *)
(* JavaScript runs one callback at a time.  An action is one callback: a   *)
(* click, a message, or the continuation of a fetch.  Bids raise the       *)
(* price, so a price is the number of the bid that set it.  Of the list of *)
(* lots, the newest 100, the model keeps which lots are in it.  The rows   *)
(* of the bid history and the other views are left out; the two requests   *)
(* of selectAuction are one, answered when both are.                       *)
(***************************************************************************)
EXTENDS Integers, Sequences, SequencesExt, FiniteSets, FiniteSetsExt

CONSTANTS Lots,        \* the auctions
          MaxChanges,  \* bound: bids and closings of all lots together
          MaxFetches,  \* bound: requests of the tab in flight
          MaxOutdated, \* bound: lots that newer ones push out of the list
          Mishaps,     \* which of "failure", "drop" and "logout" may happen
          None

ASSUME LiveViewAssumption ==
    /\ MaxChanges \in Nat
    /\ IsFiniteSet(Lots)
    /\ MaxFetches \in Nat \ {0}
    /\ MaxOutdated \in Nat
    /\ Mishaps \subseteq {"failure", "drop", "logout"}
    /\ None \notin Lots

VARIABLES
    lots,      \* the server: price of each lot, and whether it was closed
    listed,    \* the lots among the newest 100
    outbox,    \* messages whose transaction committed and which were not sent yet
    me,        \* whether somebody is logged in
    selected,  \* state.selectedAuctionId
    ws,        \* state.ws: its lot, whether it is in the room, messages under way
    shown,     \* the lot and the state that #auction-detail displays
    fetches,   \* the requests in flight, in the order they were sent
    heard,     \* history: the newest version of each lot a message told
    calm       \* history: whether all responses came in order, see Issue

serverVars == <<lots, listed, outbox>>
tabVars == <<me, selected, ws, shown, fetches, heard, calm>>
vars == <<serverVars, tabVars>>

LotState == [price : 0 .. MaxChanges, closed : BOOLEAN]

Message == [type : {"new_bid"}, lot : Lots, price : 1 .. MaxChanges]
           \cup [type : {"auction_closed"}, lot : Lots]

Socket == [lot : Lots, joined : BOOLEAN, queue : Seq(Message)]

\* A detail request names its lot; `got' is what the server answered, if it did.
Fetch == [kind : {"list"}, lot : {None}, got : (SUBSET Lots) \cup {None}]
         \cup [kind : {"detail"}, lot : Lots, got : LotState \cup {None}]

TypeOK ==
    /\ lots \in [Lots -> LotState]
    /\ listed \subseteq Lots
    /\ outbox \subseteq Message
    /\ me \in BOOLEAN
    /\ selected \in Lots \cup {None}
    /\ ws \in Socket \cup {None}
    /\ shown \in [lot : Lots, is : LotState] \cup {None}
    /\ fetches \in Seq(Fetch) /\ Len(fetches) <= MaxFetches
    /\ heard \in [Lots -> 0 .. MaxChanges]
    /\ calm \in BOOLEAN

Init ==
    /\ lots = [l \in Lots |-> [price |-> 0, closed |-> FALSE]]
    /\ listed = Lots
    /\ outbox = {}
    /\ me = FALSE
    /\ selected = None
    /\ ws = None
    /\ shown = None
    /\ fetches = << >>
    /\ heard = [l \in Lots |-> 0]
    /\ calm = TRUE

\* How many changes made a lot what it is.
Version(is) == is.price + IF is.closed THEN 1 ELSE 0

Changes == MapThenSumSet(LAMBDA l : Version(lots[l]), Lots)

-----------------------------------------------------------------------------
(* The server *)

AcceptBid(l) ==
    /\ ~ lots[l].closed
    /\ Changes < MaxChanges
    /\ lots' = [lots EXCEPT ![l].price = @ + 1]
    /\ outbox' = outbox \cup {[type |-> "new_bid", lot |-> l, price |-> lots'[l].price]}
    /\ UNCHANGED <<listed, tabVars>>

CloseLot(l) ==
    /\ ~ lots[l].closed
    /\ Changes < MaxChanges
    /\ lots' = [lots EXCEPT ![l].closed = TRUE]
    /\ outbox' = outbox \cup {[type |-> "auction_closed", lot |-> l]}
    /\ UNCHANGED <<listed, tabVars>>

\* A hundred lots newer than l have been created by now.
Outdate(l) ==
    /\ l \in listed
    /\ Cardinality(Lots \ listed) < MaxOutdated
    /\ listed' = listed \ {l}
    /\ UNCHANGED <<lots, outbox, tabVars>>

\* The broadcasts of different requests run in any order.
Broadcast(m) ==
    /\ m \in outbox
    /\ outbox' = outbox \ {m}
    /\ ws' = IF ws # None /\ ws.lot = m.lot /\ ws.joined
             THEN [ws EXCEPT !.queue = Append(@, m)]
             ELSE ws
    /\ UNCHANGED <<lots, listed, me, selected, shown, fetches, heard, calm>>

\* The server accepts the socket and adds it to the room.
Join ==
    /\ ws # None /\ ~ ws.joined
    /\ ws' = [ws EXCEPT !.joined = TRUE]
    /\ UNCHANGED <<serverVars, me, selected, shown, fetches, heard, calm>>

\* What the server reads: GET /auctions/{id} the row, GET /auctions?limit=100 the
\* newest rows.
Answer(f) == IF f.kind = "list" THEN listed ELSE lots[f.lot]

Serve(i) ==
    /\ fetches[i].got = None
    /\ fetches' = [fetches EXCEPT ![i].got = Answer(fetches[i])]
    /\ UNCHANGED <<serverVars, me, selected, ws, shown, heard, calm>>

-----------------------------------------------------------------------------
(* The tab: what its callbacks do before they await *)

ListFetch == [kind |-> "list", lot |-> None, got |-> None]
DetailFetch(l) == [kind |-> "detail", lot |-> l, got |-> None]

\* A request leaves; `others' are those already in flight.  With none, whatever
\* is drawn next is drawn by this request and those after it.
Issue(f, others) ==
    /\ Len(others) < MaxFetches
    /\ fetches' = Append(others, f)

\* connectSocket closes the old socket, whose messages are not dispatched any more.
NewSocket(l) == [lot |-> l, joined |-> FALSE, queue |-> << >>]

\* A click on a card: selectAuction(l).
Click(l) ==
    /\ me
    /\ selected' = l
    /\ ws' = NewSocket(l)
    /\ Issue(DetailFetch(l), fetches)
    /\ calm' = (calm \/ fetches = << >>)
    /\ UNCHANGED <<serverVars, me, shown, heard>>

\* A click on refresh: loadAuctions.
Refresh ==
    /\ me
    /\ Issue(ListFetch, fetches)
    /\ calm' = (calm \/ fetches = << >>)
    /\ UNCHANGED <<serverVars, me, selected, ws, shown, heard>>

\* enterApp once Api.me answered; the selection of an earlier login is kept.
Login ==
    /\ ~ me
    /\ me' = TRUE
    /\ Issue(ListFetch, fetches)
    /\ calm' = (calm \/ fetches = << >>)
    /\ UNCHANGED <<serverVars, selected, ws, shown, heard>>

Logout ==
    /\ "logout" \in Mishaps
    /\ me
    /\ me' = FALSE
    /\ ws' = None
    /\ UNCHANGED <<serverVars, selected, shown, fetches, heard, calm>>

\* The connection is lost; nothing opens another.
Drop ==
    /\ "drop" \in Mishaps
    /\ ws # None
    /\ ws' = None
    /\ UNCHANGED <<serverVars, me, selected, shown, fetches, heard, calm>>

Told(m) == IF m.type = "new_bid" THEN m.price ELSE lots[m.lot].price + 1

\* Mutant: a message changes the price and does not reload.
DeliverOnly ==
    LET m == Head(ws.queue)
    IN /\ ws # None /\ ws.queue # << >> /\ m.lot = selected
       /\ shown' = IF m.type = "new_bid" /\ shown # None
                   THEN [shown EXCEPT !.is.price = m.price] ELSE shown
       /\ ws' = [ws EXCEPT !.queue = Tail(@)]
       /\ heard' = [heard EXCEPT ![m.lot] = IF Told(m) > @ THEN Told(m) ELSE @]
       /\ UNCHANGED <<serverVars, me, selected, fetches, calm>>

\* The message listener: a message of another lot is ignored; the price on
\* display becomes that of the message, whatever lot is on display, and
\* loadAuctions starts.
Deliver ==
    LET m == Head(ws.queue)
    IN /\ ws # None
       /\ ws.queue # << >>
       /\ ws' = [ws EXCEPT !.queue = Tail(@)]
       /\ IF m.lot # selected
          THEN UNCHANGED <<shown, fetches, heard, calm>>
          ELSE /\ shown' = IF m.type = "new_bid" /\ shown # None
                           THEN [shown EXCEPT !.is.price = m.price]
                           ELSE shown
               /\ Issue(ListFetch, fetches)
               /\ calm' = (calm \/ fetches = << >>)
               /\ heard' = [heard EXCEPT ![m.lot] = IF Told(m) > @ THEN Told(m) ELSE @]
       /\ UNCHANGED <<serverVars, me, selected>>

-----------------------------------------------------------------------------
(* The tab: what its callbacks do after they awaited *)

\* Mutant: the lot selected when the list was asked for is selected again.  (Any
\* lot stands for it.)
SelectSomeAgain(i) ==
    /\ fetches[i].kind = "list"
    /\ fetches[i].got # None
    /\ selected # None
    /\ \E l \in Lots : selected' = l /\ Issue(DetailFetch(l), RemoveAt(fetches, i))
    /\ calm' = (calm /\ i = 1)
    /\ UNCHANGED <<serverVars, me, ws, shown, heard>>

\* loadAuctions goes on: selectAuction of the lot selected now, keepSocket, if it
\* is still there, in the list that has arrived.
ListReturns(i) ==
    /\ fetches[i].kind = "list"
    /\ fetches[i].got # None
    /\ IF selected \in fetches[i].got
       THEN Issue(DetailFetch(selected), RemoveAt(fetches, i))
       ELSE fetches' = RemoveAt(fetches, i)
    /\ calm' = (calm /\ i = 1)
    /\ UNCHANGED <<serverVars, me, selected, ws, shown, heard>>

\* selectAuction goes on: renderAuctionDetail, without a look at what is selected
\* now.  Logged out, state.me.role throws before anything is drawn.
DetailReturns(i) ==
    /\ fetches[i].kind = "detail"
    /\ fetches[i].got # None
    /\ shown' = IF me THEN [lot |-> fetches[i].lot, is |-> fetches[i].got] ELSE shown
    /\ fetches' = RemoveAt(fetches, i)
    /\ calm' = (calm /\ i = 1)
    /\ UNCHANGED <<serverVars, me, selected, ws, heard>>

\* Either request fails; the catch shows a toast.
FetchFails(i) ==
    /\ "failure" \in Mishaps
    /\ fetches' = RemoveAt(fetches, i)
    /\ calm' = FALSE
    /\ UNCHANGED <<serverVars, me, selected, ws, shown, heard>>

Server ==
    \/ \E l \in Lots : AcceptBid(l) \/ CloseLot(l) \/ Outdate(l)
    \/ \E m \in outbox : Broadcast(m)
    \/ Join
    \/ \E i \in DOMAIN fetches : Serve(i)

Tab ==
    \/ \E l \in Lots : Click(l)
    \/ Refresh \/ Login \/ Logout \/ Drop \/ Deliver
    \/ \E i \in DOMAIN fetches : ListReturns(i) \/ DetailReturns(i) \/ FetchFails(i)

Next == Server \/ Tab

Spec == Init /\ [][Next]_vars

-----------------------------------------------------------------------------
(* Properties *)

\* The socket is always that of the selected lot, although loadAuctions selects
\* again after an await and keeps the socket.
SocketFollowsSelection == ws # None => ws.lot = selected

Current(l) == [lot |-> l, is |-> lots[l]]

\* Nothing the tab asked for or was sent is under way.
Quiet == me /\ selected # None /\ fetches = << >> /\ (ws # None => ws.queue = << >>)

\* A quiet tab that was told of the newest change of the lot it selected shows
\* the lot as it is, whatever order older messages came in, unless a response
\* overtook another or failed since the tab was last quiet: that is what the
\* reload after every message is for.  A lot that is no more among the newest 100
\* is not reloaded (stillThere, app.js:139): of it the tab keeps what it drew last.
CurrentWhenTold ==
    /\ Quiet /\ calm /\ selected \in listed
    /\ heard[selected] = Version(lots[selected]) /\ heard[selected] > 0
    => shown = Current(selected)

\* "all observers must instantly see the current price through the WebSocket"
\* (docs/architecture.md:8): a quiet tab whose socket is in the room, with no
\* message left to send, shows the selected lot as it is.
ViewIsCurrent ==
    Quiet /\ outbox = {} /\ ws # None /\ ws.joined => shown = Current(selected)
=============================================================================
