----------------------------- MODULE RoomsProofs -----------------------------
(***************************************************************************)
(* Theorems about Rooms, for any sockets, auctions and broadcasts: the     *)
(* dict holds the clients that listen, and the rooms implement Delivery.   *)
(***************************************************************************)
EXTENDS Rooms, TLAPS

\* What a handler or a broadcast may rely on between two awaits: a socket that was
\* taken into a list has joined its room before, the ends of a handler and of a
\* connection agree, a send fails only when the connection is down, which it stays.
Joined == \A c \in Casts : \A s \in audience[c] :
    handler[s] \in {"receiving", "left", "failed"}

Ended == \A s \in Sockets : handler[s] \in {"left", "failed"} => link[s] = "down"

FailuresAreDown == \A c \in Casts : \A s \in failed[c] : link[s] = "down"

IdleIsEmpty == \A c \in Casts : pc[c] = "idle" => audience[c] = {}

\* MembersBelong in terms of Members.
Belonging == \A a \in Auctions : \A s \in Members(a) :
    room[s] = a /\ handler[s] \in {"receiving", "failed"}

IInv == /\ TypeOK /\ Belonging /\ ListenersAreMembers
        /\ Joined /\ Ended /\ FailuresAreDown /\ IdleIsEmpty

-----------------------------------------------------------------------------
(* The dict *)

\* A dict is a function from some auctions to sets of sockets that are not empty.
LEMMA DictIs ==
    ASSUME NEW f
    PROVE  f \in Dict <=> /\ DOMAIN f \subseteq Auctions
                          /\ f \in [DOMAIN f -> (SUBSET Sockets) \ {{}}]
BY DEF Dict

\* A member is a socket, and only auctions that are keys have members.
LEMMA MembersAre ==
    ASSUME rooms \in Dict, NEW a \in Auctions
    PROVE  Members(a) \in SUBSET Sockets
BY DictIs DEF Members

\* connect adds one member to one room and keeps the dict a dict.
LEMMA WithAdds ==
    ASSUME rooms \in Dict, NEW a \in Auctions, NEW s \in Sockets,
           rooms' = With(a, s)
    PROVE  /\ rooms' \in Dict
           /\ \A b \in Auctions :
                 Members(b)' = IF b = a THEN Members(a) \cup {s} ELSE Members(b)
<1>1. DOMAIN rooms \subseteq Auctions /\ rooms \in [DOMAIN rooms -> (SUBSET Sockets) \ {{}}]
  BY DictIs
<1>2. DOMAIN rooms' = DOMAIN rooms \cup {a}
  BY DEF With
<1>3. \A b \in DOMAIN rooms' : rooms'[b] = IF b = a THEN Members(a) \cup {s} ELSE rooms[b]
  BY DEF With
<1>4. Members(a) \cup {s} \in (SUBSET Sockets) \ {{}}
  BY MembersAre
<1>5. rooms' \in [DOMAIN rooms' -> (SUBSET Sockets) \ {{}}]
  BY <1>1, <1>4 DEF With
<1>6. rooms' \in Dict
  BY <1>1, <1>2, <1>5, DictIs
<1> QED
  BY <1>2, <1>3, <1>6 DEF Members

\* disconnect removes its sockets from one room, and the room with the last one.
LEMMA WithoutRemoves ==
    ASSUME rooms \in Dict, NEW a \in Auctions, NEW gone,
           rooms' = Without(a, gone)
    PROVE  /\ rooms' \in Dict
           /\ \A b \in Auctions :
                 Members(b)' = IF b = a THEN Members(a) \ gone ELSE Members(b)
<1> DEFINE emptied == IF Members(a) \subseteq gone THEN {a} ELSE {}
<1>1. DOMAIN rooms \subseteq Auctions /\ rooms \in [DOMAIN rooms -> (SUBSET Sockets) \ {{}}]
  BY DictIs
<1>2. DOMAIN rooms' = DOMAIN rooms \ emptied
  BY DEF Without
<1>3. \A b \in DOMAIN rooms' : rooms'[b] = IF b = a THEN rooms[a] \ gone ELSE rooms[b]
  BY DEF Without
<1>4. a \in DOMAIN rooms' => rooms[a] \ gone \in (SUBSET Sockets) \ {{}}
  BY <1>1, <1>2 DEF Members
<1>5. rooms' \in [DOMAIN rooms' -> (SUBSET Sockets) \ {{}}]
  BY <1>1, <1>2, <1>4 DEF Without
<1>6. rooms' \in Dict
  BY <1>1, <1>2, <1>5, DictIs
<1> QED
  BY <1>2, <1>3, <1>6 DEF Members

-----------------------------------------------------------------------------
(* The invariant *)

\* At the start there are no rooms, no handlers past their start and no broadcasts.
LEMMA InitInvariant == Init => IInv
<1> SUFFICES ASSUME Init PROVE IInv
  OBVIOUS
<1>1. DOMAIN rooms = {}
  BY DEF Init
<1>2. rooms \in Dict
  BY <1>1, DictIs DEF Init
<1>3. TypeOK
  BY <1>2 DEF Init, TypeOK
<1> QED
  BY <1>1, <1>3 DEF Init, IInv, Belonging, Members, ListenersAreMembers, Joined, Ended,
     FailuresAreDown, IdleIsEmpty

\* The steps of one socket: its own entry in the dict is the only one they touch.
LEMMA SocketStep ==
    ASSUME IInv, NEW s \in Sockets, Handle(s) \/ Hangup(s)
    PROVE  IInv'
<1> USE DEF IInv, TypeOK
<1>r. room[s] \in Auctions
  OBVIOUS
<1>1. CASE Handshake(s)
  BY <1>1 DEF Handshake, castVars, Belonging, Members, ListenersAreMembers, Joined, Ended,
     FailuresAreDown, IdleIsEmpty
<1>2. CASE Join(s) /\ handler' = [handler EXCEPT ![s] = "receiving"] /\ rooms' = With(room[s], s)
  <2>1. /\ rooms' \in Dict
        /\ \A b \in Auctions :
              Members(b)' = IF b = room[s] THEN Members(b) \cup {s} ELSE Members(b)
    BY <1>2, <1>r, WithAdds
  <2>2. TypeOK'
    BY <1>2, <2>1 DEF Join, castVars
  <2>3. Belonging'
    <3> SUFFICES ASSUME NEW a \in Auctions, NEW t \in Members(a)'
                 PROVE  room'[t] = a /\ handler'[t] \in {"receiving", "failed"}
      BY DEF Belonging
    <3>1. t \in Members(a) \/ (t = s /\ a = room[s])
      BY <2>1
    <3>2. room' = room
      BY <1>2 DEF Join
    <3>3. handler'[s] = "receiving" /\ \A u \in Sockets : u # s => handler'[u] = handler[u]
      BY <1>2
    <3>4. Members(a) \in SUBSET Sockets
      BY MembersAre
    <3>5. t \in Members(a) => room[t] = a /\ handler[t] \in {"receiving", "failed"}
      BY DEF Belonging
    <3> QED
      BY <3>1, <3>2, <3>3, <3>4, <3>5
  <2>4. ListenersAreMembers'
    BY <1>2, <2>1 DEF Join, castVars, ListenersAreMembers
  <2> QED
    BY <1>2, <2>2, <2>3, <2>4 DEF Join, castVars, Joined, Ended, FailuresAreDown, IdleIsEmpty
<1>3. CASE Join(s) /\ handler' = [handler EXCEPT ![s] = "rejected"] /\ UNCHANGED rooms
  BY <1>3 DEF Join, castVars, Belonging, Members, ListenersAreMembers, Joined, Ended,
     FailuresAreDown, IdleIsEmpty
<1>4. CASE Leave(s)
  <2>1. /\ rooms' \in Dict
        /\ \A b \in Auctions :
              Members(b)' = IF b = room[s] THEN Members(b) \ {s} ELSE Members(b)
    BY <1>4, <1>r, WithoutRemoves DEF Leave
  <2>2. TypeOK'
    BY <1>4, <2>1 DEF Leave, castVars
  <2>3. Belonging'
    <3> SUFFICES ASSUME NEW a \in Auctions, NEW t \in Members(a)'
                 PROVE  room'[t] = a /\ handler'[t] \in {"receiving", "failed"}
      BY DEF Belonging
    <3>1. t \in Members(a) /\ (a = room[s] => t # s)
      BY <2>1
    <3>2. room[t] = a /\ handler[t] \in {"receiving", "failed"}
      BY <3>1 DEF Belonging
    <3> QED
      BY <1>4, <3>1, <3>2 DEF Leave
  <2>4. ListenersAreMembers'
    BY <1>4, <2>1 DEF Leave, castVars, ListenersAreMembers
  <2> QED
    BY <1>4, <2>2, <2>3, <2>4 DEF Leave, castVars, Joined, Ended, FailuresAreDown, IdleIsEmpty
<1>5. CASE Fail(s)
  BY <1>5 DEF Fail, castVars, Belonging, Members, ListenersAreMembers, Joined, Ended,
     FailuresAreDown, IdleIsEmpty
<1>6. CASE Hangup(s)
  BY <1>6 DEF Hangup, castVars, Belonging, Members, ListenersAreMembers, Joined, Ended,
     FailuresAreDown, IdleIsEmpty
<1> QED
  BY <1>1, <1>2, <1>3, <1>4, <1>5, <1>6 DEF Handle, Join

\* A send that ends moves its socket from the pending ones to one of the others.
LEMMA SendAnswers ==
    ASSUME TypeOK, NEW c \in Casts, NEW s \in Sockets, Send(c, s)
    PROVE  /\ \/ sent' = [sent EXCEPT ![c] = @ \cup {s}] /\ failed' = failed
              \/ failed' = [failed EXCEPT ![c] = @ \cup {s}] /\ sent' = sent
           /\ sent' \in [Casts -> SUBSET Sockets] /\ failed' \in [Casts -> SUBSET Sockets]
           /\ \A d \in Casts : sent'[d] \cup failed'[d] \subseteq audience[d]
           /\ \A d \in Casts : sent'[d] \cap failed'[d] = {}
           /\ \A d \in Casts : sent'[d] \cup failed'[d]
                                 = sent[d] \cup failed[d] \cup (IF d = c THEN {s} ELSE {})
<1> USE DEF TypeOK
<1>1. s \in audience[c] /\ s \notin sent[c] /\ s \notin failed[c]
  BY DEF Send, Pending
<1>2. CASE sent' = [sent EXCEPT ![c] = @ \cup {s}] /\ failed' = failed
  <2>1. sent' \in [Casts -> SUBSET Sockets]
    BY <1>2
  <2>2. \A d \in Casts : sent'[d] = IF d = c THEN sent[d] \cup {s} ELSE sent[d]
    BY <1>2
  <2> QED
    BY <1>1, <1>2, <2>1, <2>2
<1>3. CASE failed' = [failed EXCEPT ![c] = @ \cup {s}] /\ sent' = sent
  <2>1. failed' \in [Casts -> SUBSET Sockets]
    BY <1>3
  <2>2. \A d \in Casts : failed'[d] = IF d = c THEN failed[d] \cup {s} ELSE failed[d]
    BY <1>3
  <2> QED
    BY <1>1, <1>3, <2>1, <2>2
<1> QED
  BY <1>2, <1>3 DEF Send, Succeed

\* The steps of one broadcast: Finish removes only sockets whose connection is down.
LEMMA CastStep ==
    ASSUME IInv, NEW c \in Casts, Cast(c)
    PROVE  IInv'
<1> USE DEF IInv, TypeOK
<1>r. topic[c] \in Auctions
  OBVIOUS
<1>1. CASE StartCast(c)
  <2>1. Members(topic[c]) \in SUBSET Sockets
    BY <1>r, MembersAre
  <2>2. sent[c] = {} /\ failed[c] = {}
    BY <1>1 DEF StartCast, IdleIsEmpty
  <2>3. TypeOK'
    BY <1>1, <2>1, <2>2 DEF StartCast, Ruined, socketVars
  <2>4. Joined'
    BY <1>1, <1>r DEF StartCast, socketVars, Joined, Belonging
  <2>5. IdleIsEmpty'
    BY <1>1 DEF StartCast, IdleIsEmpty
  <2> QED
    BY <1>1, <2>3, <2>4, <2>5 DEF StartCast, socketVars, Belonging, Members,
       ListenersAreMembers, Ended, FailuresAreDown
<1>2. ASSUME NEW s \in Sockets, Send(c, s) PROVE IInv'
  <2>1. inbox' \in [Sockets -> Seq(Casts)]
    <3>1. CASE inbox' = [inbox EXCEPT ![s] = Append(@, c)]
      <4>1. Append(inbox[s], c) \in Seq(Casts)
        OBVIOUS
      <4> QED
        BY <3>1, <4>1
    <3> QED
      BY <1>2, <3>1 DEF Send
  <2>2. /\ sent' \in [Casts -> SUBSET Sockets] /\ failed' \in [Casts -> SUBSET Sockets]
        /\ \A d \in Casts : sent'[d] \cup failed'[d] \subseteq audience[d]
        /\ \A d \in Casts : sent'[d] \cap failed'[d] = {}
    BY <1>2, SendAnswers DEF Send
  <2>3. TypeOK'
    BY <1>2, <2>1, <2>2 DEF Send, socketVars
  <2>4. FailuresAreDown'
    BY <1>2 DEF Send, Succeed, socketVars, FailuresAreDown
  <2> QED
    BY <1>2, <2>3, <2>4 DEF Send, socketVars, Belonging, Members, ListenersAreMembers,
       Joined, Ended, IdleIsEmpty
<1>3. CASE Finish(c)
  <2>1. /\ rooms' \in Dict
        /\ \A b \in Auctions :
              Members(b)' = IF b = topic[c] THEN Members(b) \ failed[c] ELSE Members(b)
    BY <1>3, <1>r, WithoutRemoves DEF Finish, Dead
  <2>2. TypeOK'
    BY <1>3, <2>1 DEF Finish, socketVars
  <2>3. Belonging'
    <3> SUFFICES ASSUME NEW a \in Auctions, NEW s \in Members(a)'
                 PROVE  room'[s] = a /\ handler'[s] \in {"receiving", "failed"}
      BY DEF Belonging
    <3>1. s \in Members(a)
      BY <2>1
    <3> QED
      BY <1>3, <3>1 DEF Finish, socketVars, Belonging
  <2>4. ListenersAreMembers'
    BY <1>3, <2>1 DEF Finish, socketVars, ListenersAreMembers, FailuresAreDown
  <2> QED
    BY <1>3, <2>2, <2>3, <2>4 DEF Finish, socketVars, Joined, Ended, FailuresAreDown, IdleIsEmpty
<1> QED
  BY <1>1, <1>2, <1>3 DEF Cast

\* The invariant holds for ever.
LEMMA Invariant == Spec => []IInv
<1>1. IInv /\ UNCHANGED vars => IInv'
  BY DEF vars, socketVars, castVars, IInv, TypeOK, Belonging, Members, ListenersAreMembers,
     Joined, Ended, FailuresAreDown, IdleIsEmpty
<1>2. IInv /\ [Next]_vars => IInv'
  BY <1>1, SocketStep, CastStep DEF Next
<1> QED
  BY <1>2, InitInvariant, PTL DEF Spec

\* The variables keep their types; in particular no room of the dict is ever empty.
THEOREM RoomsTypeCorrect == Spec => []TypeOK
<1>1. IInv => TypeOK
  BY DEF IInv
<1> QED
  BY <1>1, Invariant, PTL

\* A client that listens is in its room, whatever the lists of broadcasts hold.
THEOREM NobodyDropped == Spec => []ListenersAreMembers
<1>1. IInv => ListenersAreMembers
  BY DEF IInv
<1> QED
  BY <1>1, Invariant, PTL

\* A socket is in no room but its own, and in none after its handler disconnected.
THEOREM NobodyStrays == Spec => []MembersBelong
<1>1. IInv => MembersBelong
  BY DictIs DEF IInv, TypeOK, Belonging, Members, MembersBelong
<1> QED
  BY <1>1, Invariant, PTL

\* Whose send raised is in the room no more once the broadcast has ended.
LeakEndsWithCast ==
    \A c \in Casts : pc[c] = "done" => failed[c] \cap Members(topic[c]) = {}

\* Finish removes what failed; whoever joins later was in no list before.
LEMMA LeakStep ==
    ASSUME IInv, LeakEndsWithCast, [Next]_vars
    PROVE  LeakEndsWithCast'
<1> USE DEF IInv, TypeOK
<1> SUFFICES ASSUME NEW c \in Casts, pc'[c] = "done", NEW a \in Auctions, a = topic[c],
                    NEW s \in failed'[c], s \in Members(a)'
             PROVE  FALSE
  <2>1. topic' = topic
    BY DEF Next, Handle, Handshake, Join, Leave, Fail, Hangup, Cast, StartCast, Send, Finish,
       vars, castVars
  <2> QED
    BY <2>1 DEF LeakEndsWithCast, Members
<1>1. /\ a \in Auctions
      /\ \A t \in Sockets, d \in Casts : room[t] \in Auctions /\ topic[d] \in Auctions
  OBVIOUS
<1>2. ASSUME pc[c] = "done", failed'[c] = failed[c], s \in Members(a) PROVE FALSE
  BY <1>2 DEF LeakEndsWithCast
<1>3. ASSUME NEW t \in Sockets, Handle(t) \/ Hangup(t) PROVE FALSE
  <2>1. pc[c] = "done" /\ failed'[c] = failed[c]
    BY <1>3 DEF Handle, Handshake, Join, Leave, Fail, Hangup, castVars
  <2>2. s \in audience[c] /\ handler[s] # "accepting"
    BY <2>1 DEF Joined
  <2>3. s \in Members(a)
    <3>1. CASE rooms' = rooms
      BY <3>1 DEF Members
    <3>2. CASE Join(t) /\ rooms' = With(room[t], t)
      <4>1. PICK b \in Auctions : b = room[t]
        BY <1>1
      <4>2. Members(a)' = IF a = b THEN Members(b) \cup {t} ELSE Members(a)
        BY <3>2, <4>1, WithAdds
      <4>3. s # t
        BY <2>2, <3>2 DEF Join
      <4> QED
        BY <4>2, <4>3
    <3>3. CASE Leave(t)
      <4>1. PICK b \in Auctions : b = room[t]
        BY <1>1
      <4>2. Members(a)' = IF a = b THEN Members(b) \ {t} ELSE Members(a)
        BY <3>3, <4>1, WithoutRemoves DEF Leave
      <4> QED
        BY <4>2
    <3> QED
      BY <1>3, <3>1, <3>2, <3>3 DEF Handle, Handshake, Join, Fail, Hangup
  <2> QED
    BY <1>2, <2>1, <2>3
<1>4. ASSUME NEW d \in Casts, Cast(d) PROVE FALSE
  <2>1. CASE StartCast(d)
    BY <1>2, <2>1 DEF StartCast, Members
  <2>2. ASSUME NEW t \in Sockets, Send(d, t) PROVE FALSE
    <3>1. pc[c] = "done" /\ c # d /\ rooms' = rooms
      BY <2>2 DEF Send
    <3>2. failed'[c] = failed[c]
      BY <2>2, <3>1 DEF Send, Succeed
    <3> QED
      BY <1>2, <3>1, <3>2 DEF Members
  <2>3. CASE Finish(d)
    <3>1. /\ failed' = failed
          /\ \A b \in Auctions :
                Members(b)' = IF b = topic[d] THEN Members(b) \ failed[d] ELSE Members(b)
      BY <1>1, <2>3, WithoutRemoves DEF Finish, Dead
    <3>2. c # d /\ s \in Members(a)
      BY <1>1, <3>1
    <3> QED
      BY <1>2, <2>3, <3>1, <3>2 DEF Finish
  <2> QED
    BY <1>4, <2>1, <2>2, <2>3 DEF Cast
<1>5. CASE UNCHANGED vars
  BY <1>2, <1>5 DEF vars, castVars, Members
<1> QED
  BY <1>3, <1>4, <1>5 DEF Next

\* The failed handlers a broadcast found have no send that returned, and when it has
\* ended every send has ended.
Ruins == \A c \in Casts :
    /\ ruins[c] \subseteq audience[c]
    /\ ruins[c] \cap sent[c] = {}
    /\ \A s \in ruins[c] : handler[s] = "failed"
    /\ pc[c] = "done" => audience[c] \subseteq sent[c] \cup failed[c]

\* A failed handler stays failed, and a send to its socket raises.
LEMMA RuinsStep ==
    ASSUME IInv, Ruins, [Next]_vars
    PROVE  Ruins'
<1> USE DEF IInv, TypeOK
<1>1. ASSUME NEW t \in Sockets, Handle(t) \/ Hangup(t) PROVE Ruins'
  <2>1. UNCHANGED castVars /\ \A s \in Sockets : handler[s] = "failed" => handler'[s] = "failed"
    BY <1>1 DEF Handle, Handshake, Join, Leave, Fail, Hangup
  <2> QED
    BY <2>1 DEF castVars, Ruins
<1>2. ASSUME NEW d \in Casts, StartCast(d) PROVE Ruins'
  <2>1. Members(topic[d]) \in SUBSET Sockets /\ sent[d] = {}
    BY <1>2, MembersAre DEF StartCast, IdleIsEmpty
  <2>2. /\ ruins'[d] = {s \in Members(topic[d]) : handler[s] = "failed"}
        /\ audience'[d] = Members(topic[d]) /\ pc'[d] = "sending"
        /\ \A c \in Casts \ {d} : /\ ruins'[c] = ruins[c] /\ audience'[c] = audience[c]
                                  /\ pc'[c] = pc[c]
        /\ UNCHANGED <<handler, sent, failed>>
    BY <1>2 DEF StartCast, Ruined, socketVars
  <2>3. ASSUME NEW c \in Casts
        PROVE  /\ ruins'[c] \subseteq audience'[c]
               /\ ruins'[c] \cap sent'[c] = {}
               /\ \A s \in ruins'[c] : handler'[s] = "failed"
               /\ pc'[c] = "done" => audience'[c] \subseteq sent'[c] \cup failed'[c]
    <3>1. CASE c = d
      BY <2>1, <2>2, <3>1
    <3>2. CASE c # d
      BY <2>2, <3>2 DEF Ruins
    <3> QED
      BY <3>1, <3>2
  <2> QED
    BY <2>3 DEF Ruins
<1>3. ASSUME NEW d \in Casts, NEW t \in Sockets, Send(d, t) PROVE Ruins'
  <2>1. UNCHANGED <<handler, pc, audience, ruins>> /\ t \in Pending(d) /\ pc[d] = "sending"
    BY <1>3 DEF Send, socketVars
  <2>2. handler[t] = "failed" => sent' = sent
    BY <1>3 DEF Send, Succeed, Ended
  <2>3. \A c \in Casts : sent'[c] = sent[c] \/ (c = d /\ sent'[c] = sent[c] \cup {t})
    BY <1>3 DEF Send, Succeed
  <2>4. ASSUME NEW c \in Casts PROVE ruins[c] \cap sent'[c] = {}
    <3>1. ruins[c] \cap sent[c] = {} /\ \A s \in ruins[c] : handler[s] = "failed"
      BY DEF Ruins
    <3>2. CASE handler[t] = "failed"
      BY <2>2, <3>1, <3>2
    <3>3. CASE handler[t] # "failed"
      BY <2>3, <3>1, <3>3
    <3> QED
      BY <3>2, <3>3
  <2>5. \A c \in Casts : pc[c] = "done" => sent'[c] = sent[c] /\ failed'[c] = failed[c]
    BY <1>3, <2>1 DEF Send, Succeed
  <2> QED
    BY <2>1, <2>4, <2>5 DEF Ruins
<1>4. ASSUME NEW d \in Casts, Finish(d) PROVE Ruins'
  BY <1>4 DEF Finish, AllAnswered, Pending, socketVars, Ruins
<1>5. CASE UNCHANGED vars
  BY <1>5 DEF vars, socketVars, castVars, Ruins
<1> QED
  BY <1>1, <1>2, <1>3, <1>4, <1>5 DEF Next, Cast

\* A socket whose handler failed outlives no broadcast that started afterwards.
THEOREM LeaksEnd == Spec => []FailedHandlersLeave
<1>1. Init => LeakEndsWithCast /\ Ruins
  BY DEF Init, LeakEndsWithCast, Ruins
<1>2. IInv /\ LeakEndsWithCast /\ Ruins => FailedHandlersLeave
  BY DEF LeakEndsWithCast, Ruins, FailedHandlersLeave
<1> QED
  BY <1>1, <1>2, LeakStep, RuinsStep, Invariant, PTL DEF Spec

-----------------------------------------------------------------------------
(* Delivery *)

Due == [c \in Casts |-> Pending(c) \cap Listening]

\* Nobody has anything due to him before he listens or after he stops.
LEMMA SocketDelivers ==
    ASSUME IInv, NEW s \in Sockets, Handle(s) \/ Hangup(s)
    PROVE  \/ Promise!Subscribe(s) \/ Promise!Unsubscribe(s)
           \/ UNCHANGED <<room, topic, Listening, pc, Due, inbox>>
<1> USE DEF IInv, TypeOK
<1>1. CASE Handshake(s) \/ Leave(s)
  <2>1. ~ (handler[s] = "receiving" /\ link[s] = "up")
    BY <1>1 DEF Handshake, Leave
  <2>2. link' = link /\ \E h \in {"accepting", "rejected", "left"} :
                            handler' = [handler EXCEPT ![s] = h]
    BY <1>1 DEF Handshake, Leave
  <2>3. Listening' = Listening
    BY <2>1, <2>2 DEF Listening
  <2> QED
    BY <1>1, <2>3 DEF Handshake, Leave, castVars, Due, Pending
<1>2. CASE Join(s) /\ link[s] = "up"
  <2>1. Listening' = Listening \cup {s}
    BY <1>2 DEF Join, Listening
  <2>2. \A c \in Casts : s \notin Pending(c)
    BY <1>2 DEF Join, Pending, Joined
  <2>3. Due' = Due
    BY <1>2, <2>1, <2>2 DEF Join, castVars, Due, Pending
  <2> QED
    BY <1>2, <2>1, <2>3 DEF Join, castVars, Due, Promise!Subscribe
<1>3. CASE Join(s) /\ link[s] = "down"
  <2>1. Listening' = Listening
    BY <1>3 DEF Join, Listening
  <2> QED
    BY <1>3, <2>1 DEF Join, castVars, Due, Pending
<1>4. CASE Fail(s) \/ Hangup(s)
  <2>1. Listening' = Listening \ {s}
    BY <1>4 DEF Fail, Hangup, Listening
  <2>2. Due' = [c \in Casts |-> Due[c] \ {s}]
    BY <1>4, <2>1 DEF Fail, Hangup, castVars, Due, Pending
  <2> QED
    BY <1>4, <2>1, <2>2 DEF Fail, Hangup, castVars, Due, Promise!Unsubscribe
<1> QED
  BY <1>1, <1>2, <1>3, <1>4 DEF Handle

\* A broadcast publishes, tells each listener of its list, and ends when all were told.
LEMMA CastDelivers ==
    ASSUME IInv, NEW c \in Casts, Cast(c)
    PROVE  \/ Promise!Publish(c) \/ Promise!End(c)
           \/ \E s \in Sockets : Promise!Tell(c, s)
           \/ UNCHANGED <<room, topic, Listening, pc, Due, inbox>>
<1> USE DEF IInv, TypeOK
<1>0. Listening' = Listening
  BY DEF Cast, StartCast, Send, Finish, socketVars, Listening
<1>1. CASE StartCast(c)
  <2>1. sent[c] = {} /\ failed[c] = {}
    BY <1>1 DEF StartCast, IdleIsEmpty
  <2>2. Members(topic[c]) \cap Listening = {s \in Listening : room[s] = topic[c]}
    BY DEF Belonging, ListenersAreMembers, Listening
  <2>3. Due' = [Due EXCEPT ![c] = {s \in Listening : room[s] = topic[c]}]
    BY <1>0, <1>1, <2>1, <2>2 DEF StartCast, Due, Pending
  <2> QED
    BY <1>0, <1>1, <2>3 DEF StartCast, socketVars, Due, Promise!Publish
<1>2. ASSUME NEW s \in Sockets, Send(c, s), link[s] = "up"
      PROVE  Promise!Tell(c, s)
  <2>1. s \in Listening
    BY <1>2 DEF Send, Pending, Joined, Ended, Listening
  <2>2. sent' = [sent EXCEPT ![c] = @ \cup {s}] /\ failed' = failed /\ audience' = audience
    BY <1>2 DEF Send, Succeed
  <2>3. Due' = [Due EXCEPT ![c] = @ \ {s}]
    BY <1>0, <2>2 DEF Due, Pending
  <2> QED
    BY <1>0, <1>2, <2>1, <2>3 DEF Send, socketVars, Due, Promise!Tell
<1>3. ASSUME NEW s \in Sockets, Send(c, s), link[s] = "down"
      PROVE  UNCHANGED <<room, topic, Listening, pc, Due, inbox>>
  <2>1. s \notin Listening
    BY <1>3 DEF Listening
  <2>2. audience' = audience
    BY <1>3 DEF Send
  <2>3. \A d \in Casts : (Pending(d) \cap Listening)' = Pending(d) \cap Listening
    BY <1>0, <1>3, <2>1, <2>2, SendAnswers DEF Pending
  <2>4. Due' = Due
    BY <2>3 DEF Due
  <2> QED
    BY <1>0, <1>3, <2>4 DEF Send, socketVars
<1>4. CASE Finish(c)
  BY <1>0, <1>4 DEF Finish, AllAnswered, socketVars, Due, Pending, Promise!End
<1> QED
  BY <1>1, <1>2, <1>3, <1>4 DEF Cast

\* The rooms, with their dict, their lists, failed sends and dead sockets, deliver
\* as Delivery promises.
THEOREM RoomsDeliver == Spec => ImplementsDelivery
<1>1. Init => Promise!Init
  BY DEF Init, Promise!Init, Listening, Pending
<1>2. IInv /\ [Next]_vars =>
          [Promise!Next]_<<room, topic, Listening, pc, Due, inbox>>
  <2>1. UNCHANGED vars => UNCHANGED <<room, topic, Listening, pc, Due, inbox>>
    BY DEF vars, socketVars, castVars, Listening, Due, Pending
  <2> QED
    BY <2>1, SocketDelivers, CastDelivers DEF Next, Promise!Next
<1> QED
  BY <1>1, <1>2, Invariant, PTL DEF Spec, ImplementsDelivery, Promise!Spec, Due
=============================================================================
