------------------------------- MODULE Meeting -------------------------------
(***************************************************************************)
(* apps/meeting/consumers.py and the signalling half of                    *)
(* apps/meeting/templates/meeting/room.html: who is in a meeting room, and *)
(* whom each browser believes to be there and has a media connection with. *)
(*                                                                         *)
(* One room of one server process.  Every WebSocket connection has a       *)
(* consumer that handles one message at a time, from its browser or from   *)
(* the channel layer; at each await of the channel layer the consumers of  *)
(* other connections run.  The sections under the room's lock contain no   *)
(* await and are one step.                                                 *)
(*                                                                         *)
(* A browser handles what it is sent at once - what delays it on the way   *)
(* commutes with everything but its own messages, which do wait.  Chat,    *)
(* whiteboard, documents, kicks and rate limits leave the room as it is    *)
(* and are left out; the channel layer does not fail or overflow.          *)
(***************************************************************************)
EXTENDS Sequences, SequencesExt

CONSTANTS
    Users,        \* the tutor and the portal users of the lesson
    Conns,        \* connections, each with a channel name and a peer_id
    Owner,        \* [Conns -> Users]  the user_token of a connection
    Leavers,      \* bound: the connections whose page the user may close
    None

ASSUME MeetingAssumption ==
    /\ Owner \in [Conns -> Users]
    /\ Leavers \subseteq Conns
    /\ None \notin Conns

VARIABLES
    room,      \* SUBSET Conns                 _rooms_data
    seat,      \* [Users -> Conns \cup {None}] _user_channels_data, _user_peers_data
    group,     \* SUBSET Conns                 the channel layer's group
    inbox,     \* [Conns -> Seq(Event)]        events waiting for a consumer
    up,        \* [Conns -> Seq(Message)]      messages of a browser on the way
    con,       \* [Conns -> Consumer]          where the consumer's handler is
    tab,       \* [Conns -> TabState]          the browser's side of the connection
    calls,     \* [Conns -> SUBSET Conns]      listed by "joined", not yet called
    view       \* [Conns -> [Conns -> Media]]  peers

vars == <<room, seat, group, inbox, up, con, tab, calls, view>>
server == <<room, seat, group>>
browser == <<tab, calls, view>>

TabState == {"none", "open", "gone"}
Media == {"none", "waiting", "calling", "linked"}
Event == [type : {"joined", "left", "offer", "answer", "force"}, peer : Conns]
Message == [type : {"offer", "answer"}, to : Conns] \cup [type : {"join", "close"}]
Stages == {"none", "idle", "left", "force", "greet", "announce", "relay", "leave", "discard", "closed"}
Consumer == [at    : Stages,
             old   : Conns \cup {None},     \* join: the user's connection before
             peers : SUBSET Conns,          \* join: existing_peers
             out   : SUBSET Message]        \* the message being relayed
Resting(stage) == [at |-> stage, old |-> None, peers |-> {}, out |-> {}]

TypeOK ==
    /\ room \subseteq Conns
    /\ seat \in [Users -> Conns \cup {None}]
    /\ group \subseteq Conns
    /\ inbox \in [Conns -> Seq(Event)]
    /\ up \in [Conns -> Seq(Message)]
    /\ con \in [Conns -> Consumer]
    /\ tab \in [Conns -> TabState]
    /\ calls \in [Conns -> SUBSET Conns]
    /\ view \in [Conns -> [Conns -> Media]]

Nobody == [p \in Conns |-> "none"]

Init ==
    /\ room = {}
    /\ seat = [u \in Users |-> None]
    /\ group = {}
    /\ inbox = [c \in Conns |-> <<>>]
    /\ up = [c \in Conns |-> <<>>]
    /\ con = [c \in Conns |-> Resting("none")]
    /\ tab = [c \in Conns |-> "none"]
    /\ calls = [c \in Conns |-> {}]
    /\ view = [c \in Conns |-> Nobody]

-----------------------------------------------------------------------------
(* The channel layer                                                        *)

\* group_send: one more event for every member
GroupSend(members, e) ==
    inbox' = [c \in Conns |-> IF c \in members THEN Append(inbox[c], e) ELSE inbox[c]]

Stage(c, stage) == con' = [con EXCEPT ![c].at = stage]

\* the next message of a consumer that waits for one
Receives(c, type) ==
    /\ con[c].at = "idle"
    /\ up[c] # <<>>
    /\ Head(up[c]).type = type
Received(c) == up' = [up EXCEPT ![c] = Tail(@)]

-----------------------------------------------------------------------------
(* connect: accepted and added to the group; the browser sends "join" once  *)
(* the connection is open                                                   *)

Connect(c) ==
    /\ con[c].at = "none"
    /\ con' = [con EXCEPT ![c] = Resting("idle")]
    /\ group' = group \cup {c}
    /\ tab' = [tab EXCEPT ![c] = "open"]
    /\ up' = [up EXCEPT ![c] = <<[type |-> "join"]>>]
    /\ UNCHANGED <<room, seat, inbox, calls, view>>

-----------------------------------------------------------------------------
(* _dispatch, "join"                                                        *)

\* mutant: the snapshot is taken of a fresh room
NobodyThere(old) == {}
\* existing_peers: the user's own connection before this one is out already
Existing(old) == room \ {old}

\* mutant: peer_left is sent although there was no connection before
AlwaysTell(old) == "left"
\* which of the messages about the connection before have to be sent
AfterJoin(old) ==
    IF old \in room THEN "left" ELSE IF old # None THEN "force" ELSE "greet"

Join(c) ==
    LET old == seat[Owner[c]] IN
    /\ Receives(c, "join")
    /\ Received(c)
    /\ seat' = [seat EXCEPT ![Owner[c]] = c]
    /\ room' = (room \ {old}) \cup {c}
    /\ con' = [con EXCEPT ![c] = [Resting(AfterJoin(old)) EXCEPT
                                      !.old = old, !.peers = Existing(old)]]
    /\ UNCHANGED <<group, inbox, browser>>

JoinSendLeft(c) ==
    /\ con[c].at = "left"
    /\ GroupSend(group, [type |-> "left", peer |-> con[c].old])
    /\ Stage(c, "force")
    /\ UNCHANGED <<server, up, browser>>

\* an event for a consumer that ended meanwhile is never read
JoinSendForce(c) ==
    /\ con[c].at = "force"
    /\ GroupSend({con[c].old} \cap {d \in Conns : con[d].at # "closed"},
                 [type |-> "force", peer |-> con[c].old])
    /\ Stage(c, "greet")
    /\ UNCHANGED <<server, up, browser>>

\* "joined" to the browser
Greet(c) ==
    /\ con[c].at = "greet"
    /\ calls' = [calls EXCEPT ![c] = IF tab[c] = "open" THEN con[c].peers ELSE {}]
    /\ Stage(c, "announce")
    /\ UNCHANGED <<server, inbox, up, tab, view>>

\* the sender is left out by its channel name
Announce(c) ==
    /\ con[c].at = "announce"
    /\ GroupSend(group \ {c}, [type |-> "joined", peer |-> c])
    /\ con' = [con EXCEPT ![c] = Resting("idle")]
    /\ UNCHANGED <<server, up, browser>>

-----------------------------------------------------------------------------
(* _dispatch, "offer" and "answer": both ends have to be in the room        *)

Relay(c) ==
    /\ Receives(c, "offer") \/ Receives(c, "answer")
    /\ Received(c)
    /\ IF {c, Head(up[c]).to} \subseteq room
       THEN con' = [con EXCEPT ![c] = [Resting("relay") EXCEPT !.out = {Head(up[c])}]]
       ELSE UNCHANGED con
    /\ UNCHANGED <<server, inbox, browser>>

\* of the group only the target passes it on
RelaySend(c) ==
    /\ con[c].at = "relay"
    /\ \E m \in con[c].out :
          GroupSend(group \cap {m.to}, [type |-> m.type, peer |-> c])
    /\ con' = [con EXCEPT ![c] = Resting("idle")]
    /\ UNCHANGED <<server, up, browser>>

-----------------------------------------------------------------------------
(* disconnect                                                               *)

\* mutant: the user's entry is removed although a newer connection has it
FreeAnyway(c) == [seat EXCEPT ![Owner[c]] = None]
\* only if it is still this connection's
Freed(c) == IF seat[Owner[c]] = c THEN [seat EXCEPT ![Owner[c]] = None] ELSE seat

Disconnect(c) ==
    /\ Receives(c, "close")
    /\ Received(c)
    /\ seat' = Freed(c)
    /\ room' = room \ {c}
    /\ Stage(c, IF c \in room THEN "leave" ELSE "discard")
    /\ UNCHANGED <<group, inbox, browser>>

SendLeft(c) ==
    /\ con[c].at = "leave"
    /\ GroupSend(group, [type |-> "left", peer |-> c])
    /\ Stage(c, "discard")
    /\ UNCHANGED <<server, up, browser>>

\* mutant: the consumer stays in the group
StayInGroup(c) == group
WithoutConsumer(c) == group \ {c}

Discard(c) ==
    /\ con[c].at = "discard"
    /\ group' = WithoutConsumer(c)
    /\ inbox' = [inbox EXCEPT ![c] = <<>>]
    /\ Stage(c, "closed")
    /\ UNCHANGED <<room, seat, up, browser>>

-----------------------------------------------------------------------------
(* The browser (room.html).  Leaving, losing the connection and "kicked"    *)
(* end in the same: peers are forgotten and the socket closes.  What was    *)
(* sent before arrives before the close.                                    *)

Hear(c, p, media) ==
    /\ view' = [view EXCEPT ![c][p] = IF tab[c] = "open" THEN media ELSE @]
    /\ UNCHANGED <<tab, calls>>

HangUp(c) ==
    /\ tab' = [tab EXCEPT ![c] = "gone"]
    /\ calls' = [calls EXCEPT ![c] = {}]
    /\ view' = [view EXCEPT ![c] = Nobody]
    /\ up' = [up EXCEPT ![c] = Append(@, [type |-> "close"])]

Leave(c) ==
    /\ c \in Leavers
    /\ tab[c] = "open"
    /\ HangUp(c)
    /\ UNCHANGED <<server, inbox, con>>

\* one turn of the loop over msg.peers; other messages are handled while it waits
Call(c, p) ==
    /\ p \in calls[c]
    /\ calls' = [calls EXCEPT ![c] = @ \ {p}]
    /\ view' = [view EXCEPT ![c][p] = "calling"]
    /\ up' = [up EXCEPT ![c] = Append(@, [type |-> "offer", to |-> p])]
    /\ UNCHANGED <<server, inbox, con, tab>>

-----------------------------------------------------------------------------
(* A consumer hands an event of the group to its browser                    *)

Delivers(c, type) ==
    /\ con[c].at = "idle"
    /\ inbox[c] # <<>>
    /\ Head(inbox[c]).type = type
    /\ inbox' = [inbox EXCEPT ![c] = Tail(@)]
    /\ UNCHANGED <<server, con>>

Peer(c) == Head(inbox[c]).peer

\* mutant: the newcomer is called back
CallBack(p) == "calling"
\* a new connection that waits to be called, also if there was one
NewPeer(p) == "waiting"

PeerJoinedEvent(c) == Delivers(c, "joined") /\ Hear(c, Peer(c), NewPeer(Peer(c))) /\ UNCHANGED up

PeerLeftEvent(c) == Delivers(c, "left") /\ Hear(c, Peer(c), "none") /\ UNCHANGED up

OfferEvent(c) ==
    /\ Delivers(c, "offer")
    /\ Hear(c, Peer(c), "linked")
    /\ up' = IF tab[c] = "open"
             THEN [up EXCEPT ![c] = Append(@, [type |-> "answer", to |-> Peer(c)])]
             ELSE up

\* an answer fits only the connection that made the offer
AnswerEvent(c) ==
    /\ Delivers(c, "answer")
    /\ Hear(c, Peer(c), IF view[c][Peer(c)] = "calling" THEN "linked" ELSE view[c][Peer(c)])
    /\ UNCHANGED up

\* mutant: the consumer reports it and leaves the browser connected
JustTell(c) == UNCHANGED <<up, browser>>
\* "kicked" by "__reconnect__": the browser closes for good
GiveWay(c) == IF tab[c] = "open" THEN HangUp(c) ELSE UNCHANGED <<up, browser>>

ForceDisconnectEvent(c) == Delivers(c, "force") /\ GiveWay(c)

-----------------------------------------------------------------------------

Serve(c) ==
    \/ Join(c) \/ JoinSendLeft(c) \/ JoinSendForce(c) \/ Greet(c) \/ Announce(c)
    \/ Relay(c) \/ RelaySend(c)
    \/ Disconnect(c) \/ SendLeft(c) \/ Discard(c)
    \/ PeerJoinedEvent(c) \/ PeerLeftEvent(c) \/ OfferEvent(c) \/ AnswerEvent(c)
    \/ ForceDisconnectEvent(c)

Browse(c) == \E p \in Conns : Call(c, p)

\* no message is on its way: nothing has to happen any more
Calm ==
    \A c \in Conns : /\ inbox[c] = <<>> /\ up[c] = <<>> /\ calls[c] = {}
                     /\ con[c].at \in {"none", "idle", "closed"}
Rest == Calm /\ UNCHANGED vars

Next ==
    \/ \E c \in Conns : Connect(c) \/ Serve(c) \/ Browse(c) \/ Leave(c)
    \/ Rest

Spec == Init /\ [][Next]_vars

-----------------------------------------------------------------------------
(* Properties                                                              *)

(* A user is in the room at most once, with the connection that joined      *)
(* last, and exactly those recorded for de-duplication are in the room      *)
(* (consumers.py:81-84, 304): a reload never leaves a second self behind,   *)
(* and a late disconnect of the old tab never throws the new one out.       *)
RoomIsSeats == room = {seat[u] : u \in Users} \ {None}

(* When all messages are handled, everyone in the room shows everyone else  *)
(* who is, however their joining overlapped.                                *)
NobodyMissing ==
    Calm => \A p, q \in room : p # q => view[p][q] # "none"

(* Of two browsers only one calls the other, the one that joined later:     *)
(* their offers never cross (room.html:914-922).                            *)
OneCaller ==
    \A p, q \in Conns : view[p][q] = "calling" => view[q][p] # "calling"

(* When all messages are handled, a browser that closed is out of the room  *)
(* and of the group, wherever the server was when it closed (disconnect).   *)
GoneLeaves ==
    Calm => \A c \in Conns : tab[c] = "gone" => c \notin room \cup group

(* When all messages are handled, an open page is in the room: the older of *)
(* two tabs of a user was closed, and no late disconnect or join of one     *)
(* connection threw another one out (consumers.py:185-199, 328-335).        *)
OpenIsIn ==
    Calm => \A c \in Conns : tab[c] = "open" => c \in room
=============================================================================
