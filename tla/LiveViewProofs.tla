--------------------------- MODULE LiveViewProofs ---------------------------
(***************************************************************************)
(* Theorems about LiveView, for any lots, any number of changes and of     *)
(* requests in flight, and with every mishap.                              *)
(***************************************************************************)
EXTENDS LiveView, SequenceTheorems, TLAPS

\* The shapes of the records: prices are numbers (that MaxChanges bounds them is
\* the sum over the lots of TypeOK, which the proofs do not need).
Lot == [price : Nat, closed : BOOLEAN]
Notice == [type : {"new_bid"}, lot : Lots, price : Nat]
          \cup [type : {"auction_closed"}, lot : Lots]
Connection == [lot : Lots, joined : BOOLEAN, queue : Seq(Notice)]
Request == [kind : {"list"}, lot : {None}, got : (SUBSET Lots) \cup {None}]
           \cup [kind : {"detail"}, lot : Lots, got : Lot \cup {None}]

Shapes ==
    /\ lots \in [Lots -> Lot]
    /\ listed \subseteq Lots
    /\ outbox \subseteq Notice
    /\ me \in BOOLEAN
    /\ selected \in Lots \cup {None}
    /\ ws \in Connection \cup {None}
    /\ fetches \in Seq(Request)
    /\ heard \in [Lots -> Nat]
    /\ calm \in BOOLEAN

\* A message tells of something that has happened and stays.
Honest(m) ==
    /\ m.type = "new_bid" => m.price <= lots[m.lot].price
    /\ m.type = "auction_closed" => lots[m.lot].closed

HonestMessages ==
    /\ \A m \in outbox : Honest(m)
    /\ ws # None => \A j \in 1 .. Len(ws.queue) : Honest(ws.queue[j])

\* Nobody is told of more than has happened.
HeardOnlyWhatIs == \A l \in Lots : heard[l] <= Version(lots[l])

\* The tab was told of the newest change of the lot it selected.
ToldNewest == heard[selected] > 0 /\ heard[selected] = Version(lots[selected])

\* A request whose answer will be about the newest change the tab was told of:
\* the list, after which the selected lot is asked for if it is listed, or the
\* selected lot, if it was not read before that change.
BringsNewest(f) ==
    \/ f.kind = "list" /\ (f.got # None => listed \subseteq f.got)
    \/ /\ f.kind = "detail" /\ f.lot = selected
       /\ f.got = None \/ (ToldNewest => f.got = lots[selected])

\* As long as answers come in order, the last request in flight brings the
\* newest; with none in flight it is on display.
LastBringsNewest ==
    me /\ calm /\ selected \in listed =>
        /\ fetches = << >> => (ToldNewest => shown = Current(selected))
        /\ fetches # << >> => BringsNewest(fetches[Len(fetches)])

IInv ==
    /\ Shapes
    /\ SocketFollowsSelection
    /\ HonestMessages
    /\ HeardOnlyWhatIs
    /\ LastBringsNewest

-----------------------------------------------------------------------------
(* Requests in flight *)

\* Taking a request out of the sequence.
LEMMA RemovedType ==
    ASSUME NEW S, NEW s \in Seq(S), NEW i \in 1 .. Len(s)
    PROVE  RemoveAt(s, i) \in Seq(S)
<1>1. Len(s) \in Nat /\ i \in Nat /\ i - 1 <= Len(s) /\ 1 <= i /\ i <= Len(s)
  OBVIOUS
<1>2. \A j \in 1 .. Len(s) : s[j] \in S
  OBVIOUS
<1>3. SubSeq(s, 1, i - 1) \in Seq(S)
  BY <1>1, <1>2, SubSeqProperties
<1>4. SubSeq(s, i + 1, Len(s)) \in Seq(S)
  BY <1>1, <1>2, SubSeqProperties
<1> QED
  BY <1>3, <1>4, ConcatProperties DEF RemoveAt

\* Taking out the first leaves the last where it was, unless it was the first.
LEMMA RemovedFirst ==
    ASSUME NEW S, NEW s \in Seq(S), s # << >>
    PROVE  /\ Len(s) = 1 => RemoveAt(s, 1) = << >>
           /\ Len(s) # 1 => /\ RemoveAt(s, 1) # << >>
                            /\ RemoveAt(s, 1)[Len(RemoveAt(s, 1))] = s[Len(s)]
<1>1. Len(s) \in Nat /\ Len(s) >= 1
  OBVIOUS
<1>2. SubSeq(s, 1, 0) = << >>
  BY <1>1
<1>3. PICK t : t = SubSeq(s, 2, Len(s))
  OBVIOUS
<1>4. RemoveAt(s, 1) = << >> \o t
  BY <1>2, <1>3 DEF RemoveAt
<1>5. CASE Len(s) = 1
  BY <1>1, <1>3, <1>4, <1>5
<1>6. CASE Len(s) # 1
  <2>1. t \in Seq(S) /\ Len(t) = Len(s) - 1 /\ t[Len(s) - 1] = s[Len(s)]
    <3>1. t = Tail(s)
      BY <1>3, TailIsSubSeq
    <3>2. /\ t \in Seq(S) /\ Len(t) = Len(s) - 1
          /\ \A j \in 1 .. Len(s) - 1 : t[j] = s[j + 1]
      BY <3>1, HeadTailProperties
    <3> QED
      BY <1>1, <1>6, <3>2
  <2>2. RemoveAt(s, 1) = t
    BY <1>4, <2>1
  <2> QED
    BY <1>1, <1>6, <2>1, <2>2
<1> QED
  BY <1>5, <1>6

\* A request that leaves is the last in flight, and asks anew.
LEMMA Issued ==
    ASSUME NEW f \in Request, NEW others \in Seq(Request), Issue(f, others)
    PROVE  fetches' \in Seq(Request) /\ fetches' # << >> /\ fetches'[Len(fetches')] = f
  BY DEF Issue

\* The two requests the tab sends.
LEMMA NewRequests ==
    /\ ListFetch \in Request /\ ListFetch.kind = "list" /\ ListFetch.got = None
    /\ \A l \in Lots : /\ DetailFetch(l) \in Request
                       /\ DetailFetch(l).kind = "detail"
                       /\ DetailFetch(l).lot = l /\ DetailFetch(l).got = None
<1>1. ListFetch \in [kind : {"list"}, lot : {None}, got : (SUBSET Lots) \cup {None}]
  BY DEF ListFetch
<1>2. \A l \in Lots :
          DetailFetch(l) \in [kind : {"detail"}, lot : Lots, got : Lot \cup {None}]
  BY DEF DetailFetch
<1> QED
  BY <1>1, <1>2 DEF ListFetch, DetailFetch, Request

\* A request that leaves, for the list or for the lot selected then, brings the
\* newest.
LEMMA IssuedBringsNewest ==
    ASSUME NEW f \in Request, NEW others \in Seq(Request), Issue(f, others),
           \/ f = ListFetch
           \/ \E l \in Lots : f = DetailFetch(l) /\ selected' = l
    PROVE  LastBringsNewest' /\ fetches' \in Seq(Request)
<1>1. fetches' \in Seq(Request) /\ fetches' # << >> /\ fetches'[Len(fetches')] = f
  BY Issued
<1>2. BringsNewest(f)'
  BY NewRequests DEF BringsNewest
<1>3. BringsNewest(fetches[Len(fetches)])'
  BY <1>1, <1>2 DEF BringsNewest
<1> QED
  BY <1>1, <1>3 DEF LastBringsNewest

-----------------------------------------------------------------------------
(* The server *)

\* The lots start without bids, the tab without a selection.
LEMMA InitInvariant == Init => IInv
<1>1. SUFFICES ASSUME Init PROVE IInv
  OBVIOUS
<1>2. PICK is : is = [price |-> 0, closed |-> FALSE]
  OBVIOUS
<1>3. is \in Lot /\ Version(is) = 0
  BY <1>2 DEF Lot, Version
<1>4. lots = [l \in Lots |-> is] /\ heard = [l \in Lots |-> 0]
  BY <1>1, <1>2 DEF Init
<1>5. Shapes
  <2>1. << >> \in Seq(Request)
    BY EmptySeq
  <2>2. /\ listed = Lots /\ outbox = {} /\ me = FALSE /\ selected = None /\ ws = None
        /\ fetches = << >> /\ calm = TRUE
    BY <1>1 DEF Init
  <2> QED
    BY <1>3, <1>4, <2>1, <2>2 DEF Shapes
<1>6. HeardOnlyWhatIs
  BY <1>3, <1>4 DEF HeardOnlyWhatIs
<1>7. SocketFollowsSelection /\ HonestMessages /\ LastBringsNewest
  BY <1>1 DEF Init, SocketFollowsSelection, HonestMessages, LastBringsNewest
<1> QED
  BY <1>5, <1>6, <1>7 DEF IInv

\* A change of a lot leaves old messages true and nobody told of it yet.
LEMMA ChangeSafe ==
    ASSUME IInv, NEW l \in Lots, NEW m \in Notice,
           lots' \in [Lots -> Lot],
           lots'[l].price >= lots[l].price,
           lots[l].closed => lots'[l].closed,
           Version(lots'[l]) > Version(lots[l]),
           \A k \in Lots \ {l} : lots'[k] = lots[k],
           outbox' = outbox \cup {m}, Honest(m)',
           UNCHANGED <<listed, tabVars>>
    PROVE  IInv'
<1>1. /\ Shapes /\ UNCHANGED <<listed, me, selected, ws, shown, fetches, heard, calm>>
      /\ HeardOnlyWhatIs
  BY DEF IInv, tabVars
<1>2. Shapes' /\ SocketFollowsSelection'
  BY <1>1 DEF IInv, Shapes, SocketFollowsSelection
<1>3. ASSUME NEW n \in Notice, Honest(n) PROVE Honest(n)'
  <2>1. n.lot \in Lots /\ (n.type = "new_bid" => n.price \in Nat)
    BY DEF Notice
  <2>2. /\ lots[n.lot].price \in Nat /\ lots'[n.lot].price \in Nat
        /\ lots'[n.lot].price >= lots[n.lot].price
        /\ lots[n.lot].closed => lots'[n.lot].closed
    <3>1. \A k \in Lots : lots[k] \in Lot /\ lots'[k] \in Lot
      BY <1>1 DEF Shapes
    <3>2. CASE n.lot = l
      BY <3>1, <3>2 DEF Lot
    <3>3. CASE n.lot # l
      BY <2>1, <3>1, <3>3 DEF Lot
    <3> QED
      BY <3>2, <3>3
  <2> QED
    BY <1>3, <2>1, <2>2 DEF Honest
<1>4. HonestMessages'
  <2>1. \A n \in outbox' : Honest(n)'
    BY <1>1, <1>3 DEF IInv, HonestMessages, Shapes
  <2>2. ASSUME ws # None, NEW j \in 1 .. Len(ws.queue) PROVE Honest(ws.queue[j])'
    <3>1. ws.queue \in Seq(Notice)
      BY <1>1, <2>2 DEF Shapes, Connection
    <3>2. PICK n : n = ws.queue[j]
      OBVIOUS
    <3>3. n \in Notice /\ Honest(n)
      BY <2>2, <3>1, <3>2 DEF IInv, HonestMessages
    <3>4. n = ws'.queue[j]
      BY <1>1, <3>2
    <3> QED
      BY <1>3, <3>3, <3>4 DEF Honest
  <2> QED
    BY <1>1, <2>1, <2>2 DEF HonestMessages
<1>5. /\ \A k \in Lots : /\ heard[k] \in Nat /\ Version(lots[k]) \in Nat
                         /\ Version(lots'[k]) \in Nat
  BY <1>1 DEF Shapes, Lot, Version
<1>6. HeardOnlyWhatIs'
  <2>1. ASSUME NEW k \in Lots PROVE heard[k] <= Version(lots'[k])
    BY <1>1, <1>5 DEF HeardOnlyWhatIs
  <2> QED
    BY <1>1, <2>1 DEF HeardOnlyWhatIs, Version
<1>7. selected # None /\ ToldNewest' => ToldNewest /\ lots'[selected] = lots[selected]
  <2>1. SUFFICES ASSUME selected # None, ToldNewest'
                 PROVE  ToldNewest /\ lots'[selected] = lots[selected]
    OBVIOUS
  <2>2. selected \in Lots
    BY <1>1, <2>1 DEF Shapes
  <2>3. heard[selected] > 0 /\ heard[selected] = Version(lots'[selected])
    BY <1>1, <2>1 DEF ToldNewest, Version
  <2>4. selected # l
    BY <1>1, <1>5, <2>2, <2>3 DEF HeardOnlyWhatIs
  <2>5. lots'[selected] = lots[selected]
    BY <2>2, <2>4
  <2> QED
    BY <2>3, <2>5 DEF ToldNewest
<1>8. LastBringsNewest'
  <2>1. SUFFICES ASSUME me, calm, selected \in listed PROVE LastBringsNewest'
    BY <1>1 DEF LastBringsNewest
  <2>2. selected # None
    BY <1>1, <2>1, LiveViewAssumption DEF Shapes
  <2> QED
    BY <1>1, <1>7, <2>1, <2>2 DEF IInv, LastBringsNewest, BringsNewest, Current
<1> QED
  BY <1>2, <1>4, <1>6, <1>8 DEF IInv

\* A bid is accepted, a lot is closed.
LEMMA ServerWritesSafe ==
    ASSUME IInv, NEW l \in Lots, AcceptBid(l) \/ CloseLot(l)
    PROVE  IInv'
<1>1. lots \in [Lots -> Lot] /\ lots[l] \in Lot /\ ~ lots[l].closed
      /\ lots[l].price \in Nat /\ UNCHANGED <<listed, tabVars>>
  BY DEF IInv, Shapes, Lot, AcceptBid, CloseLot
<1>2. CASE AcceptBid(l)
  <2>1. PICK is : is = [lots[l] EXCEPT !.price = lots[l].price + 1]
    OBVIOUS
  <2>2. is \in Lot /\ is.price = lots[l].price + 1 /\ is.closed = lots[l].closed
    BY <1>1, <2>1 DEF Lot
  <2>3. lots' = [lots EXCEPT ![l] = is]
    BY <1>2, <2>1 DEF AcceptBid
  <2>4. lots' \in [Lots -> Lot] /\ lots'[l] = is
        /\ \A k \in Lots \ {l} : lots'[k] = lots[k]
    BY <1>1, <2>2, <2>3
  <2>5. PICK m : m = [type |-> "new_bid", lot |-> l, price |-> is.price]
    OBVIOUS
  <2>6. m \in Notice /\ Honest(m)' /\ outbox' = outbox \cup {m}
    BY <1>1, <1>2, <2>2, <2>4, <2>5 DEF AcceptBid, Notice, Honest
  <2>7. Version(lots'[l]) > Version(lots[l])
    BY <1>1, <2>2, <2>4 DEF Version
  <2> QED
    BY <1>1, <2>2, <2>4, <2>6, <2>7, ChangeSafe
<1>3. CASE CloseLot(l)
  <2>1. PICK is : is = [lots[l] EXCEPT !.closed = TRUE]
    OBVIOUS
  <2>2. is \in Lot /\ is.price = lots[l].price /\ is.closed
    BY <1>1, <2>1 DEF Lot
  <2>3. lots' = [lots EXCEPT ![l] = is]
    BY <1>3, <2>1 DEF CloseLot
  <2>4. lots' \in [Lots -> Lot] /\ lots'[l] = is
        /\ \A k \in Lots \ {l} : lots'[k] = lots[k]
    BY <1>1, <2>2, <2>3
  <2>5. PICK m : m = [type |-> "auction_closed", lot |-> l]
    OBVIOUS
  <2>6. m \in Notice /\ Honest(m)' /\ outbox' = outbox \cup {m}
    BY <1>1, <1>3, <2>2, <2>4, <2>5 DEF CloseLot, Notice, Honest
  <2>7. Version(lots'[l]) > Version(lots[l])
    BY <1>1, <2>2, <2>4 DEF Version
  <2> QED
    BY <1>1, <2>2, <2>4, <2>6, <2>7, ChangeSafe
<1> QED
  BY <1>2, <1>3

\* A lot falls out of the list: fewer lots are promised to be current.
LEMMA OutdateSafe == ASSUME IInv, NEW l \in Lots, Outdate(l) PROVE IInv'
<1>1. /\ listed' \subseteq listed
      /\ UNCHANGED <<lots, outbox, me, selected, ws, shown, fetches, heard, calm>>
  BY DEF Outdate, tabVars
<1>2. Shapes' /\ SocketFollowsSelection' /\ HeardOnlyWhatIs'
  BY <1>1 DEF IInv, Shapes, SocketFollowsSelection, HeardOnlyWhatIs
<1>3. HonestMessages'
  BY <1>1 DEF IInv, HonestMessages, Honest
<1>4. ASSUME selected \in listed', me, calm PROVE LastBringsNewest'
  <2>1. PICK f : f = fetches[Len(fetches)]
    OBVIOUS
  <2>2. BringsNewest(f) => BringsNewest(f)'
    BY <1>1 DEF BringsNewest, ToldNewest
  <2> QED
    BY <1>1, <1>4, <2>1, <2>2 DEF IInv, LastBringsNewest, BringsNewest, ToldNewest, Current
<1>5. LastBringsNewest'
  BY <1>1, <1>4 DEF LastBringsNewest
<1> QED
  BY <1>2, <1>3, <1>5 DEF IInv

\* What is on display, asked for and heard of stays as it is.
LEMMA DisplayKept ==
    ASSUME LastBringsNewest, UNCHANGED <<lots, listed, me, selected, shown, fetches, heard, calm>>
    PROVE  LastBringsNewest'
  BY DEF LastBringsNewest, BringsNewest, ToldNewest, Current

\* Messages stay true as they move from the outbox to the socket, or are gone.
LEMMA HonestStays ==
    ASSUME NEW q, \A j \in 1 .. Len(q) : Honest(q[j]), HonestMessages,
           ws' # None => ws'.queue = q,
           UNCHANGED lots, outbox' \subseteq outbox
    PROVE  HonestMessages'
<1>1. \A m \in outbox' : Honest(m)'
  BY DEF HonestMessages, Honest
<1>2. ASSUME ws' # None, NEW j \in 1 .. Len(ws'.queue) PROVE Honest(ws.queue[j])'
  <2>1. PICK n : n = q[j]
    OBVIOUS
  <2>2. Honest(n) /\ n = ws'.queue[j]
    BY <1>2, <2>1
  <2> QED
    BY <2>2 DEF Honest
<1> QED
  BY <1>1, <1>2 DEF HonestMessages

\* A message joins the queue of the socket of its lot.
LEMMA BroadcastSafe == ASSUME IInv, NEW m \in outbox, Broadcast(m) PROVE IInv'
<1>1. /\ UNCHANGED <<lots, listed, me, selected, shown, fetches, heard, calm>>
      /\ outbox' = outbox \ {m}
      /\ m \in Notice /\ Honest(m) /\ Shapes
  BY DEF Broadcast, IInv, Shapes, HonestMessages
<1>2. LastBringsNewest' /\ HeardOnlyWhatIs'
  BY <1>1, DisplayKept DEF IInv, HeardOnlyWhatIs
<1>5. CASE ws # None /\ ws.lot = m.lot /\ ws.joined
  <2>1. ws \in Connection /\ ws.queue \in Seq(Notice)
    BY <1>1, <1>5 DEF Shapes, Connection
  <2>2. PICK q : q = Append(ws.queue, m)
    OBVIOUS
  <2>3. /\ q \in Seq(Notice) /\ Len(q) = Len(ws.queue) + 1
        /\ q[Len(q)] = m /\ \A j \in 1 .. Len(ws.queue) : q[j] = ws.queue[j]
    BY <1>1, <2>1, <2>2
  <2>4. ws' = [ws EXCEPT !.queue = q]
    BY <1>5, <2>2 DEF Broadcast
  <2>5. ws' \in Connection /\ ws'.queue = q /\ ws'.lot = ws.lot
    BY <2>1, <2>3, <2>4 DEF Connection
  <2>6. \A j \in 1 .. Len(q) : Honest(q[j])
    BY <1>1, <1>5, <2>1, <2>3 DEF IInv, HonestMessages
  <2>8. HonestMessages'
    BY <1>1, <2>5, <2>6, HonestStays DEF IInv
  <2>9. Shapes' /\ SocketFollowsSelection'
    BY <1>1, <1>5, <2>5 DEF Shapes, IInv, SocketFollowsSelection
  <2> QED
    BY <1>2, <2>8, <2>9 DEF IInv
<1>6. CASE ~ (ws # None /\ ws.lot = m.lot /\ ws.joined)
  <2>1. ws' = ws
    BY <1>6 DEF Broadcast
  <2>2. Shapes' /\ SocketFollowsSelection'
    BY <1>1, <2>1 DEF Shapes, IInv, SocketFollowsSelection
  <2>3. HonestMessages'
    BY <1>1, <2>1 DEF IInv, HonestMessages, Honest
  <2> QED
    BY <1>2, <2>2, <2>3 DEF IInv
<1> QED
  BY <1>5, <1>6

\* The server takes the socket into the room.
LEMMA JoinSafe == ASSUME IInv, Join PROVE IInv'
<1>1. /\ UNCHANGED <<lots, listed, outbox, me, selected, shown, fetches, heard, calm>>
      /\ ws # None /\ ws' = [ws EXCEPT !.joined = TRUE] /\ Shapes
  BY DEF Join, serverVars, IInv
<1>2. ws \in Connection
  BY <1>1 DEF Shapes
<1>3. ws' \in Connection /\ ws'.queue = ws.queue /\ ws'.lot = ws.lot
  BY <1>1, <1>2 DEF Connection
<1>4. Shapes' /\ SocketFollowsSelection' /\ HeardOnlyWhatIs'
  BY <1>1, <1>3 DEF Shapes, IInv, SocketFollowsSelection, HeardOnlyWhatIs
<1>5. HonestMessages'
  BY <1>1, <1>3 DEF IInv, HonestMessages, Honest
<1>6. LastBringsNewest'
  BY <1>1, DisplayKept DEF IInv
<1> QED
  BY <1>4, <1>5, <1>6 DEF IInv

\* A GET answers with the row, or the list, as it is.
LEMMA ServeSafe == ASSUME IInv, NEW i \in DOMAIN fetches, Serve(i) PROVE IInv'
<1>1. /\ UNCHANGED <<lots, listed, outbox, me, selected, ws, shown, heard, calm>>
      /\ Shapes
  BY DEF Serve, serverVars, IInv
<1>2. fetches \in Seq(Request) /\ i \in 1 .. Len(fetches) /\ fetches[i] \in Request
  BY <1>1 DEF Shapes
<1>3. PICK f : f = [fetches[i] EXCEPT !.got = Answer(fetches[i])]
  OBVIOUS
<1>4. /\ f \in Request /\ f.kind = fetches[i].kind /\ f.lot = fetches[i].lot
      /\ f.kind = "list" => f.got = listed
      /\ f.kind = "detail" => f.got = lots[f.lot]
  <2>1. CASE fetches[i].kind = "list"
    BY <1>1, <1>2, <1>3, <2>1 DEF Request, Shapes, Answer
  <2>2. CASE fetches[i].kind = "detail"
    BY <1>1, <1>2, <1>3, <2>2 DEF Request, Shapes, Answer
  <2> QED
    BY <1>2, <2>1, <2>2 DEF Request
<1>5. fetches' = [fetches EXCEPT ![i] = f]
  BY <1>3 DEF Serve
<1>6. /\ fetches' \in Seq(Request) /\ Len(fetches') = Len(fetches)
      /\ fetches'[i] = f /\ \A j \in 1 .. Len(fetches) : j # i => fetches'[j] = fetches[j]
  BY <1>2, <1>4, <1>5
<1>7. Shapes' /\ SocketFollowsSelection' /\ HeardOnlyWhatIs'
  BY <1>1, <1>6 DEF Shapes, IInv, SocketFollowsSelection, HeardOnlyWhatIs
<1>8. HonestMessages'
  BY <1>1 DEF IInv, HonestMessages, Honest
<1>9. LastBringsNewest'
  <2>1. SUFFICES ASSUME me, calm, selected \in listed
                 PROVE  fetches' # << >> /\ BringsNewest(fetches[Len(fetches)])'
    BY <1>1 DEF LastBringsNewest
  <2>2. fetches # << >> /\ fetches' # << >> /\ Len(fetches) \in 1 .. Len(fetches)
    BY <1>2, <1>6
  <2>3. BringsNewest(fetches[Len(fetches)])
    BY <2>1, <2>2 DEF IInv, LastBringsNewest
  <2>4. CASE i = Len(fetches)
    BY <1>1, <1>4, <1>6, <2>3, <2>4 DEF BringsNewest
  <2>5. CASE i # Len(fetches)
    <3>1. fetches'[Len(fetches')] = fetches[Len(fetches)]
      BY <1>6, <2>2, <2>5
    <3>2. BringsNewest(fetches[Len(fetches)])'
      <4>1. PICK r : r = fetches[Len(fetches)]
        OBVIOUS
      <4>2. BringsNewest(r)'
        BY <1>1, <2>3, <4>1 DEF BringsNewest, ToldNewest
      <4> QED
        BY <3>1, <4>1, <4>2 DEF BringsNewest
    <3> QED
      BY <2>2, <3>2
  <2> QED
    BY <2>2, <2>4, <2>5
<1> QED
  BY <1>7, <1>8, <1>9 DEF IInv

-----------------------------------------------------------------------------
(* The tab *)

\* A callback that reads no message: what is left to show.
LEMMA CallbackSafe ==
    ASSUME IInv, UNCHANGED <<lots, listed, outbox, heard>>,
           \/ ws' = ws \/ ws' = None \/ \E l \in Lots : ws' = NewSocket(l),
           me' \in BOOLEAN, selected' \in Lots \cup {None}, fetches' \in Seq(Request),
           calm' \in BOOLEAN, SocketFollowsSelection', LastBringsNewest'
    PROVE  IInv'
<1>1. \A l \in Lots : NewSocket(l) \in Connection /\ NewSocket(l).queue = << >>
  <2>1. << >> \in Seq(Notice)
    BY EmptySeq
  <2> QED
    BY <2>1 DEF NewSocket, Connection
<1>2. Shapes' /\ HeardOnlyWhatIs'
  BY <1>1 DEF IInv, Shapes, HeardOnlyWhatIs
<1>3. CASE ws' = ws
  <2>1. HonestMessages'
    BY <1>3 DEF IInv, HonestMessages, Honest
  <2> QED
    BY <1>2, <2>1 DEF IInv
<1>4. CASE ws' # ws
  <2>1. ws' # None => ws'.queue = << >>
    BY <1>1, <1>4
  <2>2. \A j \in 1 .. Len(<< >>) : Honest(<< >>[j])
    OBVIOUS
  <2>3. HonestMessages'
    BY <2>1, <2>2, HonestStays DEF IInv
  <2> QED
    BY <1>2, <2>3 DEF IInv
<1> QED
  BY <1>3, <1>4

\* A click: the selection and the socket change together, before any await.
LEMMA ClickSafe == ASSUME IInv, NEW l \in Lots, Click(l) PROVE IInv'
<1>1. /\ UNCHANGED <<lots, listed, outbox, me, shown, heard>>
      /\ selected' = l /\ ws' = NewSocket(l) /\ Issue(DetailFetch(l), fetches)
      /\ calm' \in BOOLEAN /\ Shapes
  BY DEF Click, serverVars, IInv
<1>2. LastBringsNewest' /\ fetches' \in Seq(Request)
  BY <1>1, NewRequests, IssuedBringsNewest DEF Shapes
<1>3. SocketFollowsSelection'
  BY <1>1 DEF SocketFollowsSelection, NewSocket
<1> QED
  BY <1>1, <1>2, <1>3, CallbackSafe DEF Shapes

\* Refreshing and logging in ask for the list.
LEMMA ListSafe == ASSUME IInv, Refresh \/ Login PROVE IInv'
<1>1. /\ UNCHANGED <<lots, listed, outbox, selected, ws, shown, heard>>
      /\ Issue(ListFetch, fetches) /\ me' \in BOOLEAN
      /\ calm' \in BOOLEAN /\ Shapes
  BY DEF Refresh, Login, serverVars, IInv, Shapes
<1>2. LastBringsNewest' /\ fetches' \in Seq(Request)
  BY <1>1, NewRequests, IssuedBringsNewest DEF Shapes
<1>3. SocketFollowsSelection'
  BY <1>1 DEF IInv, SocketFollowsSelection
<1> QED
  BY <1>1, <1>2, <1>3, CallbackSafe DEF Shapes

\* Logging out, or losing the connection, ends the socket only.
LEMMA SocketLostSafe == ASSUME IInv, Logout \/ Drop PROVE IInv'
<1>1. /\ UNCHANGED <<lots, listed, outbox, selected, shown, fetches, heard, calm>>
      /\ ws' = None /\ me' \in BOOLEAN /\ (me' = FALSE \/ me' = me) /\ Shapes
  BY DEF Logout, Drop, serverVars, IInv, Shapes
<1>2. SocketFollowsSelection'
  BY <1>1 DEF SocketFollowsSelection
<1>3. LastBringsNewest'
  <2>1. CASE me' = FALSE
    BY <2>1 DEF LastBringsNewest
  <2>2. CASE me' = me
    BY <1>1, <2>2, DisplayKept DEF IInv
  <2> QED
    BY <1>1, <2>1, <2>2
<1> QED
  BY <1>1, <1>2, <1>3, CallbackSafe DEF Shapes

\* A message that is read: what it tells is true, and the reload it starts will
\* bring what it told.
LEMMA DeliverSafe == ASSUME IInv, Deliver PROVE IInv'
<1>1. /\ UNCHANGED <<lots, listed, outbox, me, selected>> /\ Shapes
      /\ ws # None /\ ws.queue # << >>
  BY DEF Deliver, serverVars, IInv
<1>2. ws \in Connection /\ ws.queue \in Seq(Notice)
  BY <1>1 DEF Shapes, Connection
<1>3. PICK m : m = Head(ws.queue)
  OBVIOUS
<1>4. m \in Notice /\ Honest(m) /\ m.lot \in Lots
  <2>1. m = ws.queue[1] /\ 1 \in 1 .. Len(ws.queue) /\ m \in Notice
    BY <1>1, <1>2, <1>3
  <2>2. Honest(ws.queue[1])
    BY <1>1, <2>1 DEF IInv, HonestMessages
  <2> QED
    BY <2>1, <2>2 DEF Notice
<1>5. PICK q : q = Tail(ws.queue)
  OBVIOUS
<1>6. /\ q \in Seq(Notice)
      /\ \A j \in 1 .. Len(q) : q[j] = ws.queue[j + 1] /\ j + 1 \in 1 .. Len(ws.queue)
  <2>1. Len(q) = Len(ws.queue) - 1 /\ Len(ws.queue) \in Nat /\ q \in Seq(Notice)
    BY <1>1, <1>2, <1>5, HeadTailProperties
  <2>2. \A j \in 1 .. Len(q) : q[j] = ws.queue[j + 1]
    BY <1>1, <1>2, <1>5, HeadTailProperties
  <2> QED
    BY <2>1, <2>2
<1>7. ws' = [ws EXCEPT !.queue = q]
  BY <1>5 DEF Deliver
<1>8. ws' \in Connection /\ ws'.queue = q /\ ws'.lot = ws.lot
  BY <1>2, <1>6, <1>7 DEF Connection
<1>9. HonestMessages'
  <2>1. \A j \in 1 .. Len(q) : Honest(q[j])
    BY <1>1, <1>6 DEF IInv, HonestMessages
  <2> QED
    BY <1>1, <1>8, <2>1, HonestStays DEF IInv
<1>10. SocketFollowsSelection'
  BY <1>1, <1>8 DEF IInv, SocketFollowsSelection
<1>11. CASE m.lot # selected
  <2>1. UNCHANGED <<shown, fetches, heard, calm>>
    BY <1>3, <1>11 DEF Deliver
  <2>2. Shapes' /\ HeardOnlyWhatIs'
    BY <1>1, <1>8, <2>1 DEF Shapes, IInv, HeardOnlyWhatIs
  <2>3. LastBringsNewest'
    BY <1>1, <2>1, DisplayKept DEF IInv
  <2> QED
    BY <1>9, <1>10, <2>2, <2>3 DEF IInv
<1>12. CASE m.lot = selected
  <2>1. /\ Issue(ListFetch, fetches)
        /\ calm' = (calm \/ fetches = << >>)
        /\ heard' = [heard EXCEPT ![m.lot] = IF Told(m) > @ THEN Told(m) ELSE @]
    BY <1>3, <1>12 DEF Deliver
  <2>2. LastBringsNewest' /\ fetches' \in Seq(Request)
    BY <1>1, <2>1, NewRequests, IssuedBringsNewest DEF Shapes
  <2>3. lots[m.lot] \in Lot /\ lots[m.lot].price \in Nat /\ heard[m.lot] \in Nat
        /\ heard[m.lot] <= Version(lots[m.lot])
    BY <1>1, <1>4 DEF Shapes, Lot, IInv, HeardOnlyWhatIs
  <2>4. Told(m) \in Nat /\ Told(m) <= Version(lots[m.lot])
    <3>1. CASE m.type = "new_bid"
      BY <1>4, <2>3, <3>1 DEF Honest, Notice, Told, Version
    <3>2. CASE m.type = "auction_closed"
      BY <1>4, <2>3, <3>2 DEF Honest, Told, Version
    <3> QED
      BY <1>4, <3>1, <3>2 DEF Notice
  <2>5. PICK h : h = IF Told(m) > heard[m.lot] THEN Told(m) ELSE heard[m.lot]
    OBVIOUS
  <2>6. h \in Nat /\ h <= Version(lots[m.lot]) /\ heard' = [heard EXCEPT ![m.lot] = h]
    BY <2>1, <2>3, <2>4, <2>5
  <2>7. /\ heard' \in [Lots -> Nat] /\ heard'[m.lot] = h
        /\ \A l \in Lots : l # m.lot => heard'[l] = heard[l]
    BY <1>1, <1>4, <2>6 DEF Shapes
  <2>8. \A l \in Lots : heard'[l] <= Version(lots[l])
    BY <2>6, <2>7 DEF IInv, HeardOnlyWhatIs
  <2>9. HeardOnlyWhatIs'
    BY <1>1, <2>8 DEF HeardOnlyWhatIs
  <2>10. Shapes'
    BY <1>1, <1>8, <2>1, <2>2, <2>7 DEF Shapes
  <2> QED
    BY <1>9, <1>10, <2>2, <2>9, <2>10 DEF IInv
<1> QED
  BY <1>11, <1>12

\* The list has arrived: the lot selected by now is asked for.
LEMMA ListReturnsSafe == ASSUME IInv, NEW i \in DOMAIN fetches, ListReturns(i) PROVE IInv'
<1>1. /\ UNCHANGED <<lots, listed, outbox, me, selected, ws, shown, heard>> /\ Shapes
      /\ calm' = (calm /\ i = 1) /\ calm' \in BOOLEAN
      /\ fetches[i].kind = "list" /\ fetches[i].got # None
      /\ fetches \in Seq(Request) /\ i \in 1 .. Len(fetches) /\ fetches # << >>
  BY DEF ListReturns, serverVars, IInv, Shapes
<1>2. RemoveAt(fetches, i) \in Seq(Request)
  BY <1>1, RemovedType
<1>3. LastBringsNewest' /\ fetches' \in Seq(Request)
  <2>1. CASE selected \in fetches[i].got
    <3>1. Issue(DetailFetch(selected), RemoveAt(fetches, i))
      BY <2>1 DEF ListReturns
    <3>2. fetches[i] \in Request
      BY <1>1
    <3>3. selected \in Lots
      BY <1>1, <2>1, <3>2 DEF Request
    <3> QED
      BY <1>1, <1>2, <3>1, <3>3, NewRequests, IssuedBringsNewest
  <2>2. CASE selected \notin fetches[i].got
    <3>1. fetches' = RemoveAt(fetches, i)
      BY <2>2 DEF ListReturns
    <3>2. SUFFICES ASSUME me, calm, i = 1, selected \in listed PROVE LastBringsNewest'
      BY <1>1, <1>2, <3>1 DEF LastBringsNewest
    <3>3. BringsNewest(fetches[Len(fetches)])
      BY <1>1, <3>2 DEF IInv, LastBringsNewest
    <3>4. Len(fetches) # 1
      BY <1>1, <2>2, <3>2, <3>3 DEF BringsNewest
    <3>5. fetches' # << >> /\ fetches'[Len(fetches')] = fetches[Len(fetches)]
      BY <1>1, <3>1, <3>2, <3>4, RemovedFirst
    <3>6. BringsNewest(fetches[Len(fetches)])'
      BY <1>1, <3>3, <3>5 DEF BringsNewest, ToldNewest
    <3> QED
      BY <3>5, <3>6 DEF LastBringsNewest
  <2> QED
    BY <2>1, <2>2
<1>4. SocketFollowsSelection'
  BY <1>1 DEF IInv, SocketFollowsSelection
<1> QED
  BY <1>1, <1>3, <1>4, CallbackSafe DEF Shapes

\* A lot has arrived and is drawn: when it is the answer to the last request, it
\* is the lot selected and the newest state the tab was told of.
LEMMA DetailReturnsSafe ==
    ASSUME IInv, NEW i \in DOMAIN fetches, DetailReturns(i)
    PROVE  IInv'
<1>1. /\ UNCHANGED <<lots, listed, outbox, me, selected, ws, heard>> /\ Shapes
      /\ fetches[i].kind = "detail" /\ fetches[i].got # None
      /\ shown' = IF me THEN [lot |-> fetches[i].lot, is |-> fetches[i].got] ELSE shown
      /\ fetches' = RemoveAt(fetches, i)
      /\ calm' = (calm /\ i = 1) /\ calm' \in BOOLEAN
  BY DEF DetailReturns, serverVars, IInv, Shapes
<1>2. fetches \in Seq(Request) /\ i \in 1 .. Len(fetches) /\ fetches # << >>
  BY <1>1 DEF Shapes
<1>3. fetches' \in Seq(Request)
  BY <1>1, <1>2, RemovedType
<1>4. SocketFollowsSelection'
  BY <1>1 DEF IInv, SocketFollowsSelection
<1>5. LastBringsNewest'
  <2>1. SUFFICES ASSUME me, calm, selected \in listed, i = 1 PROVE LastBringsNewest'
    BY <1>1 DEF LastBringsNewest
  <2>2. BringsNewest(fetches[Len(fetches)])
    BY <1>2, <2>1 DEF IInv, LastBringsNewest
  <2>3. ToldNewest' <=> ToldNewest
    BY <1>1 DEF ToldNewest
  <2>4. CASE Len(fetches) = 1
    <3>1. fetches' = << >>
      BY <1>1, <1>2, <2>1, <2>4, RemovedFirst
    <3>2. shown' = [lot |-> fetches[1].lot, is |-> fetches[1].got]
      BY <1>1, <2>1
    <3>3. ToldNewest => fetches[1].lot = selected /\ fetches[1].got = lots[selected]
      BY <1>1, <2>1, <2>2, <2>4 DEF BringsNewest
    <3> QED
      BY <1>1, <2>3, <3>1, <3>2, <3>3 DEF LastBringsNewest, Current
  <2>5. CASE Len(fetches) # 1
    <3>1. fetches' # << >> /\ fetches'[Len(fetches')] = fetches[Len(fetches)]
      BY <1>1, <1>2, <2>1, <2>5, RemovedFirst
    <3>2. BringsNewest(fetches[Len(fetches)])'
      BY <1>1, <2>2, <2>3, <3>1 DEF BringsNewest
    <3> QED
      BY <3>1, <3>2 DEF LastBringsNewest
  <2> QED
    BY <2>4, <2>5
<1> QED
  BY <1>1, <1>3, <1>4, <1>5, CallbackSafe DEF Shapes

\* After a failure nothing is promised until the tab asks anew.
LEMMA FetchFailsSafe == ASSUME IInv, NEW i \in DOMAIN fetches, FetchFails(i) PROVE IInv'
<1>1. /\ UNCHANGED <<lots, listed, outbox, me, selected, ws, shown, heard>> /\ Shapes
      /\ fetches' = RemoveAt(fetches, i) /\ calm' = FALSE
  BY DEF FetchFails, serverVars, IInv
<1>2. fetches' \in Seq(Request)
  <2>1. fetches \in Seq(Request) /\ i \in 1 .. Len(fetches)
    BY <1>1 DEF Shapes
  <2> QED
    BY <1>1, <2>1, RemovedType
<1>3. SocketFollowsSelection' /\ LastBringsNewest'
  BY <1>1 DEF IInv, SocketFollowsSelection, LastBringsNewest
<1> QED
  BY <1>1, <1>2, <1>3, CallbackSafe DEF Shapes

\* Every step of the server and of the tab keeps the invariant.
LEMMA NextInvariant == IInv /\ [Next]_vars => IInv'
<1> SUFFICES ASSUME IInv, [Next]_vars PROVE IInv'
  OBVIOUS
<1>1. CASE Server
  BY <1>1, ServerWritesSafe, OutdateSafe, BroadcastSafe, JoinSafe, ServeSafe DEF Server
<1>2. CASE Tab
  BY <1>2, ClickSafe, ListSafe, SocketLostSafe, DeliverSafe, ListReturnsSafe,
     DetailReturnsSafe, FetchFailsSafe DEF Tab
<1>3. CASE UNCHANGED vars
  <2>1. UNCHANGED <<lots, listed, outbox, me, selected, ws, shown, fetches, heard, calm>>
    BY <1>3 DEF vars, serverVars, tabVars
  <2>2. SocketFollowsSelection'
    BY <2>1 DEF IInv, SocketFollowsSelection
  <2>3. LastBringsNewest'
    BY <2>1, DisplayKept DEF IInv
  <2> QED
    BY <2>1, <2>2, <2>3, CallbackSafe DEF IInv, Shapes
<1> QED
  BY <1>1, <1>2, <1>3 DEF Next

\* Every reachable state satisfies it.
LEMMA Invariant == Spec => []IInv
  BY InitInvariant, NextInvariant, PTL DEF Spec

-----------------------------------------------------------------------------
(* The theorems *)

\* loadAuctions selects a lot again after an await and keeps the socket: the
\* socket is the selected lot's all the same, because connectSocket runs before
\* any await (app.js, selectAuction).
THEOREM SocketIsOfSelection == Spec => []SocketFollowsSelection
<1>1. IInv => SocketFollowsSelection
  BY DEF IInv
<1> QED
  BY <1>1, Invariant, PTL

\* The reload after every message works: a quiet tab whose answers came in order
\* shows the newest change it was told of, whatever order the messages came in, if
\* the lot is still among those listed.
THEOREM ReloadShowsNewest == Spec => []CurrentWhenTold
<1>1. IInv => CurrentWhenTold
  BY DEF IInv, LastBringsNewest, ToldNewest, CurrentWhenTold, Quiet
<1> QED
  BY <1>1, Invariant, PTL
=============================================================================
