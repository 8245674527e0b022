-------------------------------- MODULE Rooms --------------------------------
(***************************************************************************)
(* The WebSocket rooms of one server process: ConnectionManager of         *)
(* app/realtime.py and the handler of app/api/routes/ws.py.                *)
(*                                                                         *)
(* A socket's handler and a broadcast are coroutines of one event loop, so *)
(* what they do between two awaits is one action:                          *)
(*                                                                         *)
(*   handler    new -Handshake-> accepting -Join-> receiving               *)
(*                -Leave-> left, or -Fail-> failed                         *)
(*   broadcast  idle -StartCast-> sending -Send, for each-> -Finish-> done *)
(***************************************************************************)
EXTENDS Integers, Sequences, FiniteSets

CONSTANTS Sockets,   \* the WebSockets clients open
          Auctions,  \* auction ids; each has a room while somebody is in it
          Casts      \* the calls of broadcast

VARIABLES
    rooms,     \* _rooms: a function whose domain is the keys of the dict
    room,      \* the auction id in each socket's path
    handler,   \* where each socket's handler is
    link,      \* whether each socket's connection is up
    topic,     \* the auction id each broadcast is for
    pc,        \* where each broadcast is
    audience,  \* the list of connections each broadcast took
    sent,      \* the connections whose send_text returned
    failed,    \* the connections whose send_text raised
    ruins,     \* history: whose handler had failed when each broadcast took its list
    inbox      \* what each client received, in order

socketVars == <<room, handler, link>>
castVars == <<topic, pc, audience, sent, failed, ruins>>
vars == <<rooms, socketVars, castVars, inbox>>

\* A room is never empty: disconnect deletes the key with its last member.
Dict == UNION {[keys -> (SUBSET Sockets) \ {{}}] : keys \in SUBSET Auctions}

TypeOK ==
    /\ rooms \in Dict
    /\ room \in [Sockets -> Auctions]
    /\ handler \in [Sockets -> {"new", "rejected", "accepting", "receiving", "left",
                                "failed"}]
    /\ link \in [Sockets -> {"up", "down"}]
    /\ topic \in [Casts -> Auctions]
    /\ pc \in [Casts -> {"idle", "sending", "done"}]
    /\ audience \in [Casts -> SUBSET Sockets]
    /\ sent \in [Casts -> SUBSET Sockets]
    /\ failed \in [Casts -> SUBSET Sockets]
    /\ ruins \in [Casts -> SUBSET Sockets]
    /\ \A c \in Casts : sent[c] \cup failed[c] \subseteq audience[c]
    /\ \A c \in Casts : sent[c] \cap failed[c] = {}
    /\ inbox \in [Sockets -> Seq(Casts)]

Init ==
    /\ rooms = [a \in {} |-> {}]
    /\ room \in [Sockets -> Auctions]
    /\ handler = [s \in Sockets |-> "new"]
    /\ link = [s \in Sockets |-> "up"]
    /\ topic \in [Casts -> Auctions]
    /\ pc = [c \in Casts |-> "idle"]
    /\ audience = [c \in Casts |-> {}]
    /\ sent = [c \in Casts |-> {}]
    /\ failed = [c \in Casts |-> {}]
    /\ ruins = [c \in Casts |-> {}]
    /\ inbox = [s \in Sockets |-> << >>]

-----------------------------------------------------------------------------
(* The dict *)

\* self._rooms.get(auction_id, ())
Members(a) == IF a \in DOMAIN rooms THEN rooms[a] ELSE {}

\* self._rooms[auction_id].add(websocket) on a defaultdict
With(a, s) ==
    [b \in DOMAIN rooms \cup {a} |-> IF b = a THEN Members(a) \cup {s} ELSE rooms[b]]

\* Mutant: the room goes with its first member to leave.
WithoutRoom(a, gone) ==
    IF gone = {} THEN rooms ELSE [b \in DOMAIN rooms \ {a} |-> rooms[b]]

\* disconnect, for each of the sockets gone
Without(a, gone) ==
    LET emptied == IF Members(a) \subseteq gone THEN {a} ELSE {}
    IN [b \in DOMAIN rooms \ emptied |-> IF b = a THEN rooms[a] \ gone ELSE rooms[b]]

-----------------------------------------------------------------------------
(* The handler of a socket *)

\* The token is checked before accept(); no database is asked.
Handshake(s) ==
    /\ handler[s] = "new"
    /\ \E next \in {"accepting", "rejected"} : handler' = [handler EXCEPT ![s] = next]
    /\ UNCHANGED <<rooms, room, link, castVars, inbox>>

\* accept() returned, although the client may be gone again, or it raised.
Join(s) ==
    /\ handler[s] = "accepting"
    /\ \/ /\ handler' = [handler EXCEPT ![s] = "receiving"]
          /\ rooms' = With(room[s], s)
       \/ /\ link[s] = "down"
          /\ handler' = [handler EXCEPT ![s] = "rejected"]
          /\ UNCHANGED rooms
    /\ UNCHANGED <<room, link, castVars, inbox>>

\* The client closes the socket, or the network loses it.
Hangup(s) ==
    /\ handler[s] \in {"accepting", "receiving"}
    /\ link[s] = "up"
    /\ link' = [link EXCEPT ![s] = "down"]
    /\ UNCHANGED <<rooms, room, handler, castVars, inbox>>

\* Mutant: disconnect is not called.
LeaveSilently(s) ==
    /\ handler[s] = "receiving"
    /\ link[s] = "down"
    /\ handler' = [handler EXCEPT ![s] = "left"]
    /\ UNCHANGED <<rooms, room, link, castVars, inbox>>

\* receive_text, or the answer to a ping, raises WebSocketDisconnect.
Leave(s) ==
    /\ handler[s] = "receiving"
    /\ link[s] = "down"
    /\ handler' = [handler EXCEPT ![s] = "left"]
    /\ rooms' = Without(room[s], {s})
    /\ UNCHANGED <<room, link, castVars, inbox>>

\* Another exception, say of a frame that is not text, ends the handler: the
\* server closes the connection and nobody calls disconnect.
Fail(s) ==
    /\ handler[s] = "receiving"
    /\ handler' = [handler EXCEPT ![s] = "failed"]
    /\ link' = [link EXCEPT ![s] = "down"]
    /\ UNCHANGED <<rooms, room, castVars, inbox>>

-----------------------------------------------------------------------------
(* broadcast *)

\* The members whose handler is gone without disconnect.
Ruined(a) == {s \in Members(a) : handler[s] = "failed"}

\* Mutant: self._rooms[auction_id], which makes an empty room.
IndexRoom(c) ==
    /\ pc[c] = "idle"
    /\ pc' = [pc EXCEPT ![c] = "sending"]
    /\ audience' = [audience EXCEPT ![c] = Members(topic[c])]
    /\ ruins' = [ruins EXCEPT ![c] = Ruined(topic[c])]
    /\ rooms' = [a \in DOMAIN rooms \cup {topic[c]} |-> Members(a)]
    /\ UNCHANGED <<socketVars, topic, sent, failed, inbox>>

\* The list of connections is taken once; gather starts a send for each.
StartCast(c) ==
    /\ pc[c] = "idle"
    /\ pc' = [pc EXCEPT ![c] = "sending"]
    /\ audience' = [audience EXCEPT ![c] = Members(topic[c])]
    /\ ruins' = [ruins EXCEPT ![c] = Ruined(topic[c])]
    /\ UNCHANGED <<rooms, socketVars, topic, sent, failed, inbox>>

Pending(c) == audience[c] \ (sent[c] \cup failed[c])

Succeed(c, s) == sent' = [sent EXCEPT ![c] = @ \cup {s}] /\ UNCHANGED failed

\* Mutant: sending to a peer that is gone neither returns nor raises.
SendWhileUp(c, s) ==
    /\ pc[c] = "sending" /\ s \in Pending(c)
    /\ link[s] = "up"
    /\ Succeed(c, s)
    /\ inbox' = [inbox EXCEPT ![s] = Append(@, c)]
    /\ UNCHANGED <<rooms, socketVars, topic, pc, audience, ruins>>

\* One send_text ends.  To a peer that is gone it raises, unless the loss has
\* not been noticed yet.
Send(c, s) ==
    /\ pc[c] = "sending"
    /\ s \in Pending(c)
    /\ \/ /\ link[s] = "up"
          /\ Succeed(c, s)
          /\ inbox' = [inbox EXCEPT ![s] = Append(@, c)]
       \/ /\ link[s] = "down"
          /\ handler[s] = "receiving"
          /\ Succeed(c, s)
          /\ UNCHANGED inbox
       \/ /\ link[s] = "down"
          /\ failed' = [failed EXCEPT ![c] = @ \cup {s}]
          /\ UNCHANGED <<sent, inbox>>
    /\ UNCHANGED <<rooms, socketVars, topic, pc, audience, ruins>>

\* Mutant: gather without return_exceptions raises at the first failure.
FirstFailure(c) == Pending(c) = {} \/ failed[c] # {}

AllAnswered(c) == Pending(c) = {}

\* Mutant: the results of gather are dropped.
NobodyDead(c) == {}

Dead(c) == failed[c]

\* gather returned; dead connections leave the room.
Finish(c) ==
    /\ pc[c] = "sending"
    /\ AllAnswered(c)
    /\ rooms' = Without(topic[c], Dead(c))
    /\ pc' = [pc EXCEPT ![c] = "done"]
    /\ UNCHANGED <<socketVars, topic, audience, sent, failed, ruins, inbox>>

Cast(c) == StartCast(c) \/ (\E s \in Sockets : Send(c, s)) \/ Finish(c)

Handle(s) == Handshake(s) \/ Join(s) \/ Leave(s) \/ Fail(s)

Next ==
    \/ \E s \in Sockets : Handle(s) \/ Hangup(s)
    \/ \E c \in Casts : Cast(c)

Spec == Init /\ [][Next]_vars

\* The event loop resumes gather, and a send to a client ends, because the client
\* reads or because uvicorn's keep-alive finds that it does not.  Nothing makes a
\* broadcast start, a handler end or a client hang up.
FairSpec ==
    /\ Spec
    /\ \A c \in Casts : WF_vars(Finish(c)) /\ \A s \in Sockets : WF_vars(Send(c, s))

-----------------------------------------------------------------------------
(* Properties *)

\* A client that listens is in its room, whatever other sockets of the room and
\* broadcasts that hold an older list of it do: nobody is dropped by mistake.
ListenersAreMembers ==
    \A s \in Sockets :
        handler[s] = "receiving" /\ link[s] = "up" => s \in Members(room[s])

\* A socket is in no room but its own, and in none before it joined or after it
\* left: a handler's own disconnect and that of a broadcast never cross.
MembersBelong ==
    \A a \in DOMAIN rooms : \A s \in rooms[a] :
        room[s] = a /\ handler[s] \in {"receiving", "failed"}

\* Those Delivery knows of: their clients are there and their handlers receive.
Listening == {s \in Sockets : handler[s] = "receiving" /\ link[s] = "up"}

Promise == INSTANCE Delivery WITH
    listening <- Listening, phase <- pc,
    due <- [c \in Casts |-> Pending(c) \cap Listening]

\* A broadcast reaches, once each, everyone who listened when it began and still
\* does, and nobody else, although it works on a list of its own, connections
\* fail, and sockets join and leave the dict meanwhile.
ImplementsDelivery == Promise!Spec

\* A handler that ends with anything but WebSocketDisconnect (ws.py:35-41) leaves its
\* socket in the room.  It outlives no broadcast that starts afterwards: the send to
\* it raises and the broadcast disconnects it, whatever other broadcasts and sockets
\* do to the room meanwhile.  So what is left behind in a room is bounded by the
\* failures since its last broadcast began.
FailedHandlersLeave ==
    \A c \in Casts : pc[c] = "done" => ruins[c] \cap Members(topic[c]) = {}

\* Every broadcast ends, and with it the request that waits for it.
CastEnds == \A c \in Casts : pc[c] = "sending" ~> pc[c] = "done"
=============================================================================
