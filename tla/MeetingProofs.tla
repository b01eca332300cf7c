--------------------------- MODULE MeetingProofs ---------------------------
(***************************************************************************)
(* For any users and connections, and any order of their joins, reloads    *)
(* and goodbyes: the room holds each user once, no two browsers call each  *)
(* other, nothing stays behind of a page that closed, and when all         *)
(* messages are handled everyone shows everyone else who is there.         *)
(***************************************************************************)
EXTENDS Meeting, TLAPS

\* why it holds: an entry for de-duplication always names a connection of its
\* own user, so what a join or a disconnect removes from the room is nobody else's
SeatsOwned ==
    /\ seat \in [Users -> Conns \cup {None}]
    /\ \A u \in Users : seat[u] # None => Owner[seat[u]] = u

SeatInv == SeatsOwned /\ RoomIsSeats

(* A join takes over the entry of the user and replaces his old connection  *)
(* in the room by the new one.                                              *)
LEMMA JoinKeepsSeats ==
    ASSUME NEW c \in Conns, SeatInv, Join(c)
    PROVE  SeatInv'
<1> DEFINE u == Owner[c]
<1>1. u \in Users
  BY MeetingAssumption
<1>2. /\ seat' = [seat EXCEPT ![u] = c]
      /\ room' = (room \ {seat[u]}) \cup {c}
  BY DEF Join
<1>3. SeatsOwned'
  BY <1>1, <1>2 DEF SeatInv, SeatsOwned
<1>4. \A v \in Users : v # u => seat'[v] = seat[v]
  BY <1>1, <1>2 DEF SeatInv, SeatsOwned
<1>5. seat'[u] = c
  BY <1>1, <1>2 DEF SeatInv, SeatsOwned
<1>6. \A v \in Users : v # u /\ seat[v] # None => seat[v] # seat[u]
  BY <1>1 DEF SeatInv, SeatsOwned
<1>7. c # None
  BY MeetingAssumption
<1>8. RoomIsSeats'
  BY <1>1, <1>2, <1>4, <1>5, <1>6, <1>7 DEF SeatInv, RoomIsSeats
<1>9. QED
  BY <1>3, <1>8 DEF SeatInv

(* A disconnect removes the connection from the room, and the entry of the  *)
(* user only if it is this connection's.                                    *)
LEMMA DisconnectKeepsSeats ==
    ASSUME NEW c \in Conns, SeatInv, Disconnect(c)
    PROVE  SeatInv'
<1> DEFINE u == Owner[c]
<1>1. u \in Users /\ c # None
  BY MeetingAssumption
<1>2. seat' = Freed(c) /\ room' = room \ {c}
  BY DEF Disconnect
<1>3. CASE seat[u] = c
  <2>1. seat' = [seat EXCEPT ![u] = None]
    BY <1>2, <1>3 DEF Freed
  <2>2. SeatsOwned'
    BY <1>1, <2>1 DEF SeatInv, SeatsOwned
  <2>3. seat'[u] = None /\ \A v \in Users : v # u => seat'[v] = seat[v]
    BY <1>1, <2>1 DEF SeatInv, SeatsOwned
  <2>4. \A v \in Users : v # u => seat[v] # c
    BY <1>1 DEF SeatInv, SeatsOwned
  <2>5. RoomIsSeats'
    BY <1>1, <1>2, <1>3, <2>3, <2>4 DEF SeatInv, RoomIsSeats
  <2>6. QED
    BY <2>2, <2>5 DEF SeatInv
<1>4. CASE seat[u] # c
  <2>1. seat' = seat
    BY <1>2, <1>4 DEF Freed
  <2>2. \A v \in Users : seat[v] # c
    BY <1>1, <1>4 DEF SeatInv, SeatsOwned
  <2>3. room' = room
    BY <1>2, <2>2 DEF SeatInv, RoomIsSeats
  <2>4. QED
    BY <2>1, <2>3 DEF SeatInv, SeatsOwned, RoomIsSeats
<1>5. QED
  BY <1>3, <1>4

(* Everything else - connecting, messages to others, what browsers do -     *)
(* leaves the room and the entries alone.                                   *)
LEMMA RoomStays ==
    ASSUME NEW c \in Conns,
           Connect(c) \/ Serve(c) \/ Browse(c) \/ Leave(c), ~Join(c), ~Disconnect(c)
    PROVE  UNCHANGED <<room, seat>>
<1>1. CASE Connect(c)
  BY <1>1 DEF Connect
<1>2. CASE Serve(c)
  <2>1. CASE JoinSendLeft(c) \/ JoinSendForce(c) \/ Greet(c) \/ Announce(c)
    BY <2>1 DEF JoinSendLeft, JoinSendForce, Greet, Announce, server
  <2>2. CASE Relay(c) \/ RelaySend(c)
    BY <2>2 DEF Relay, RelaySend, server
  <2>3. CASE SendLeft(c) \/ Discard(c)
    BY <2>3 DEF SendLeft, Discard, server
  <2>4. CASE PeerJoinedEvent(c) \/ PeerLeftEvent(c) \/ OfferEvent(c)
             \/ AnswerEvent(c) \/ ForceDisconnectEvent(c)
    BY <2>4 DEF PeerJoinedEvent, PeerLeftEvent, OfferEvent, AnswerEvent,
                ForceDisconnectEvent, Delivers, server
  <2>5. QED
    BY <1>2, <2>1, <2>2, <2>3, <2>4 DEF Serve
<1>3. CASE Browse(c)
  BY <1>3 DEF Browse, Call, server
<1>4. CASE Leave(c)
  BY <1>4 DEF Leave, server
<1>5. QED
  BY <1>1, <1>2, <1>3, <1>4

LEMMA OthersKeepSeats ==
    ASSUME NEW c \in Conns, SeatInv,
           Connect(c) \/ (Serve(c) /\ ~Join(c) /\ ~Disconnect(c)) \/ Browse(c) \/ Leave(c)
    PROVE  SeatInv'
<1>1. UNCHANGED <<room, seat>> \/ Join(c) \/ Disconnect(c)
  BY RoomStays
<1>2. CASE UNCHANGED <<room, seat>>
  BY <1>2 DEF SeatInv, SeatsOwned, RoomIsSeats
<1>3. QED
  BY <1>1, <1>2, JoinKeepsSeats, DisconnectKeepsSeats

(* A user is in the room at most once, with the connection that joined      *)
(* last, and the entries for de-duplication are exactly the connections in  *)
(* the room (consumers.py: join and disconnect under the room's lock).      *)
THEOREM RoomCorrect == Spec => []RoomIsSeats
<1>1. Init => SeatInv
  BY DEF Init, SeatInv, SeatsOwned, RoomIsSeats
<1>2. SeatInv /\ [Next]_vars => SeatInv'
  <2> SUFFICES ASSUME SeatInv, [Next]_vars PROVE SeatInv'
    OBVIOUS
  <2>1. CASE \E c \in Conns : Connect(c) \/ Serve(c) \/ Browse(c) \/ Leave(c)
    BY <2>1, JoinKeepsSeats, DisconnectKeepsSeats, OthersKeepSeats
  <2>2. CASE Rest \/ UNCHANGED vars
    BY <2>2 DEF Rest, vars, SeatInv, SeatsOwned, RoomIsSeats
  <2>3. QED
    BY <2>1, <2>2 DEF Next
<1>3. SeatInv => RoomIsSeats
  BY DEF SeatInv
<1>4. QED
  BY <1>1, <1>2, <1>3, PTL DEF Spec
-----------------------------------------------------------------------------
(* Sequences: the messages of a browser on their way to its consumer.       *)
StartsJoin(s) == s # <<>> /\ Head(s).type = "join"
JoinsFirst(s) == \A i \in 1..Len(s) : s[i].type = "join" => i = 1
HasClose(s) == \E i \in 1..Len(s) : s[i].type = "close"
EndsClose(s) == s # <<>> /\ s[Len(s)].type = "close"

LEMMA TailMail ==
    ASSUME NEW T, NEW s \in Seq(T), s # <<>>
    PROVE  /\ Tail(s) \in Seq(T) /\ Head(s) \in T
           /\ JoinsFirst(s) => ~StartsJoin(Tail(s)) /\ JoinsFirst(Tail(s))
           /\ HasClose(Tail(s)) => HasClose(s)
           /\ EndsClose(s) /\ Head(s).type # "close" => EndsClose(Tail(s))
           /\ Head(s).type = "close" => HasClose(s)
<1>1. /\ Len(s) \in Nat \ {0} /\ Head(s) = s[1] /\ Head(s) \in T
      /\ Tail(s) \in Seq(T) /\ Len(Tail(s)) = Len(s) - 1
      /\ \A i \in 1..(Len(s) - 1) : Tail(s)[i] = s[i + 1]
  OBVIOUS
<1>2. Tail(s) # <<>> => Len(s) - 1 \in 1..(Len(s) - 1) /\ Head(Tail(s)) = s[2] /\ 2 \in 1..Len(s)
  BY <1>1
<1>3. JoinsFirst(s) => ~StartsJoin(Tail(s))
  BY <1>2 DEF JoinsFirst, StartsJoin
<1>4. JoinsFirst(s) => JoinsFirst(Tail(s))
  <2> SUFFICES ASSUME JoinsFirst(s), NEW i \in 1..Len(Tail(s)), Tail(s)[i].type = "join"
               PROVE  i = 1
    BY DEF JoinsFirst
  <2>1. i + 1 \in 1..Len(s) /\ s[i + 1].type = "join"
    BY <1>1
  <2>2. QED
    BY <2>1 DEF JoinsFirst
<1>5. HasClose(Tail(s)) => HasClose(s)
  <2> SUFFICES ASSUME NEW i \in 1..Len(Tail(s)), Tail(s)[i].type = "close"
               PROVE  HasClose(s)
    BY DEF HasClose
  <2>1. i + 1 \in 1..Len(s) /\ s[i + 1].type = "close"
    BY <1>1
  <2>2. QED
    BY <2>1 DEF HasClose
<1>6. EndsClose(s) /\ Head(s).type # "close" => EndsClose(Tail(s))
  <2> SUFFICES ASSUME EndsClose(s), Head(s).type # "close" PROVE EndsClose(Tail(s))
    OBVIOUS
  <2>1. s[Len(s)].type = "close" /\ Len(s) # 1
    BY <1>1 DEF EndsClose
  <2>2. Len(s) - 1 \in 1..(Len(s) - 1) /\ Len(Tail(s)) # 0
    BY <1>1, <2>1
  <2>3. Tail(s)[Len(s) - 1] = s[(Len(s) - 1) + 1] /\ (Len(s) - 1) + 1 = Len(s)
    BY <1>1, <2>2
  <2>4. Tail(s) # <<>>
    <3>1. Len(<<>>) = 0
      OBVIOUS
    <3>2. QED
      BY <2>2, <3>1
  <2>5. QED
    BY <1>1, <2>1, <2>3, <2>4 DEF EndsClose
<1>7. Head(s).type = "close" => HasClose(s)
  BY <1>1 DEF HasClose
<1>8. QED
  BY <1>1, <1>3, <1>4, <1>5, <1>6, <1>7

LEMMA AppendMail ==
    ASSUME NEW T, NEW s \in Seq(T), NEW m \in T, m.type # "join"
    PROVE  /\ Append(s, m) \in Seq(T) /\ Append(s, m) # <<>>
           /\ StartsJoin(Append(s, m)) => StartsJoin(s)
           /\ StartsJoin(s) => StartsJoin(Append(s, m))
           /\ JoinsFirst(s) => JoinsFirst(Append(s, m))
           /\ HasClose(Append(s, m)) => HasClose(s) \/ m.type = "close"
           /\ m.type = "close" => EndsClose(Append(s, m))
<1>1. /\ Append(s, m) \in Seq(T) /\ Len(s) \in Nat /\ Len(Append(s, m)) = Len(s) + 1
      /\ Append(s, m)[Len(s) + 1] = m /\ Append(s, m) # <<>>
      /\ \A i \in 1..Len(s) : Append(s, m)[i] = s[i]
  OBVIOUS
<1>2. s # <<>> => Head(Append(s, m)) = Head(s)
  BY <1>1
<1>3. s = <<>> => Head(Append(s, m)) = m
  OBVIOUS
<1>4. \A i \in 1..Len(Append(s, m)) : i \in 1..Len(s) \/ Append(s, m)[i] = m
  BY <1>1
<1>5. JoinsFirst(s) => JoinsFirst(Append(s, m))
  BY <1>1, <1>4 DEF JoinsFirst
<1>6. HasClose(Append(s, m)) => HasClose(s) \/ m.type = "close"
  BY <1>1, <1>4 DEF HasClose
<1>7. m.type = "close" => EndsClose(Append(s, m))
  BY <1>1 DEF EndsClose
<1>8. StartsJoin(Append(s, m)) <=> StartsJoin(s)
  BY <1>1, <1>2, <1>3 DEF StartsJoin
<1>9. QED
  BY <1>1, <1>5, <1>6, <1>7, <1>8

(* The events of a consumer, in whatever order they wait.                   *)
Contents(s) == {s[i] : i \in 1..Len(s)}
Events(c) == Contents(inbox[c])

LEMMA ContentsChange ==
    ASSUME NEW T, NEW s \in Seq(T)
    PROVE  /\ \A e \in T : Contents(Append(s, e)) = Contents(s) \cup {e}
           /\ s # <<>> => Contents(Tail(s)) \subseteq Contents(s)
           /\ s # <<>> => Contents(s) \subseteq Contents(Tail(s)) \cup {Head(s)}
           /\ s # <<>> => Head(s) \in Contents(s)
           /\ Contents(s) \subseteq T
<1>1. ASSUME NEW e \in T PROVE Contents(Append(s, e)) = Contents(s) \cup {e}
  <2>1. /\ Len(s) \in Nat /\ Len(Append(s, e)) = Len(s) + 1
        /\ Append(s, e)[Len(s) + 1] = e
        /\ \A i \in 1..Len(s) : Append(s, e)[i] = s[i]
    OBVIOUS
  <2>2. Contents(Append(s, e)) \subseteq Contents(s) \cup {e}
    BY <2>1 DEF Contents
  <2>3. Contents(s) \subseteq Contents(Append(s, e))
    BY <2>1 DEF Contents
  <2>4. e \in Contents(Append(s, e))
    <3>1. Len(s) + 1 \in 1..Len(Append(s, e))
      BY <2>1
    <3>2. QED
      BY <2>1, <3>1 DEF Contents
  <2>5. QED
    BY <2>2, <2>3, <2>4
<1>2. ASSUME s # <<>>
      PROVE  /\ Contents(Tail(s)) \subseteq Contents(s)
             /\ Contents(s) \subseteq Contents(Tail(s)) \cup {Head(s)}
             /\ Head(s) \in Contents(s)
  <2>1. /\ Len(s) \in Nat \ {0} /\ Head(s) = s[1] /\ Len(Tail(s)) = Len(s) - 1
        /\ \A i \in 1..(Len(s) - 1) : Tail(s)[i] = s[i + 1]
    BY <1>2
  <2>2. ASSUME NEW i \in 1..Len(Tail(s)) PROVE Tail(s)[i] \in Contents(s)
    <3>1. i + 1 \in 1..Len(s) /\ Tail(s)[i] = s[i + 1]
      BY <2>1
    <3>2. QED
      BY <3>1 DEF Contents
  <2>3. ASSUME NEW i \in 1..Len(s) PROVE s[i] \in Contents(Tail(s)) \cup {Head(s)}
    <3>1. CASE i = 1
      BY <2>1, <3>1
    <3>2. CASE i # 1
      <4>1. i - 1 \in 1..Len(Tail(s)) /\ Tail(s)[i - 1] = s[i]
        BY <2>1, <3>2
      <4>2. QED
        BY <4>1 DEF Contents
    <3>3. QED
      BY <3>1, <3>2
  <2>4. Head(s) \in Contents(s)
    BY <2>1 DEF Contents
  <2>5. QED
    BY <2>2, <2>3, <2>4 DEF Contents
<1>3. Contents(s) \subseteq T
  BY DEF Contents
<1>4. QED
  BY <1>1, <1>2, <1>3
-----------------------------------------------------------------------------
(* The life of a connection.  It joins with its first message and never     *)
(* again; it is gone once its browser has closed, which its consumer learns *)
(* from the last message.                                                   *)
First(c) == StartsJoin(up[c])
Joined(c) == con[c].at # "none" /\ ~First(c)
Ended == {"leave", "discard", "closed"}
Joining == {"left", "force", "greet"}

Life(c) ==
    /\ con[c].at = "none" <=> tab[c] = "none"
    /\ con[c].at = "none" => up[c] = <<>>
    /\ c \in group <=> con[c].at \notin {"none", "closed"}
    /\ First(c) => con[c].at = "idle"
    /\ JoinsFirst(up[c])
    /\ con[c].at \in Ended => tab[c] = "gone" /\ c \notin room
    /\ HasClose(up[c]) => tab[c] = "gone"
    /\ tab[c] = "gone" => con[c].at \in Ended \/ EndsClose(up[c])
    /\ c \in room => Joined(c)
    /\ calls[c] # {} => tab[c] = "open" /\ Joined(c) /\ con[c].at \notin Joining

(* A handler that is to tell of the connection before has one, and one that *)
(* relays has an offer or an answer.                                        *)
Handling(c) ==
    /\ con[c].at \in {"left", "force"} => con[c].old # None
    /\ \A m \in con[c].out : m.type \in {"offer", "answer"}

(* An open page that is not in the room has yet to join, or somebody is     *)
(* about to tell it that it gave way to another of the user's.              *)
Displaced(c) ==
    tab[c] = "open" =>
        \/ First(c) \/ c \in room
        \/ \E d \in Conns : con[d].at \in {"left", "force"} /\ con[d].old = c
        \/ \E e \in Events(c) : e.type = "force"

(* Whoever is said to have left was in the room and is not coming back.     *)
Past(q) == Joined(q) /\ q \notin room
LeftForGood ==
    /\ \A d \in Conns : con[d].at = "left" => \E q \in Conns : q = con[d].old /\ Past(q)
    /\ \A p \in Conns : \A e \in Events(p) :
          e.type = "left" => \E q \in Conns : q = e.peer /\ Past(q)

(* p joined later than q, found him in the room and calls him.              *)
Later(p, q) == q \in con[p].peers \/ q \in calls[p] \/ view[p][q] = "calling"
CallsOrdered == \A p, q \in Conns : Later(p, q) => Joined(q) /\ ~Later(q, p)

(* p has a connection with q, is going to call him or will hear of him.     *)
Knows(p, q) ==
    \/ view[p][q] # "none"
    \/ q \in calls[p]
    \/ q \in con[p].peers /\ con[p].at \in Joining
    \/ con[q].at \in Joining \cup {"announce"}
    \/ [type |-> "joined", peer |-> q] \in Events(p)
AllKnown == \A p, q \in room : p # q /\ tab[p] = "open" => Knows(p, q)

MeetingInv ==
    /\ TypeOK
    /\ SeatInv
    /\ \A c \in Conns : Life(c) /\ Handling(c) /\ Displaced(c)
    /\ LeftForGood
    /\ CallsOrdered
    /\ AllKnown

Step(c) == Connect(c) \/ Serve(c) \/ Browse(c) \/ Leave(c)
-----------------------------------------------------------------------------
(* What a handler's change of its own place leaves of it.                   *)
LEMMA StageChanges ==
    ASSUME TypeOK, NEW c \in Conns, NEW stage \in Stages, Stage(c, stage)
    PROVE  /\ con' \in [Conns -> Consumer]
           /\ \A d \in Conns : con'[d].at = IF d = c THEN stage ELSE con[d].at
           /\ \A d \in Conns : con'[d].old = con[d].old
           /\ \A d \in Conns : con'[d].peers = con[d].peers /\ con'[d].out = con[d].out
<1>1. con' = [con EXCEPT ![c] = [con[c] EXCEPT !.at = stage]]
  BY DEF Stage
<1>2. con[c] \in Consumer /\ con \in [Conns -> Consumer]
  BY DEF TypeOK
<1>3. [con[c] EXCEPT !.at = stage] \in Consumer
  BY <1>2 DEF Consumer
<1>4. /\ [con[c] EXCEPT !.at = stage].at = stage
      /\ [con[c] EXCEPT !.at = stage].old = con[c].old
      /\ [con[c] EXCEPT !.at = stage].peers = con[c].peers
      /\ [con[c] EXCEPT !.at = stage].out = con[c].out
  BY <1>2 DEF Consumer
<1> DEFINE new == [con[c] EXCEPT !.at = stage]
<1> HIDE DEF new
<1>5. con' = [con EXCEPT ![c] = new] /\ new \in Consumer
  BY <1>1, <1>3 DEF new
<1>6. \A d \in Conns : con'[d] = IF d = c THEN new ELSE con[d]
  BY <1>2, <1>5
<1>7. QED
  BY <1>2, <1>4, <1>5, <1>6 DEF new

(* A handler that begins or ends with its record made anew.                 *)
LEMMA RecordChanges ==
    ASSUME TypeOK, NEW c \in Conns, NEW new \in Consumer, con' = [con EXCEPT ![c] = new]
    PROVE  /\ con' \in [Conns -> Consumer]
           /\ \A d \in Conns : con'[d] = IF d = c THEN new ELSE con[d]
BY DEF TypeOK

LEMMA RestingRecord ==
    ASSUME NEW stage \in Stages
    PROVE  /\ Resting(stage) \in Consumer
           /\ Resting(stage).at = stage /\ Resting(stage).old = None
           /\ Resting(stage).peers = {} /\ Resting(stage).out = {}
BY DEF Resting, Consumer

(* An event for some of the consumers is one more for them.                 *)
LEMMA GroupSendEvents ==
    ASSUME TypeOK, NEW members, NEW e \in Event, GroupSend(members, e)
    PROVE  /\ inbox' \in [Conns -> Seq(Event)]
           /\ \A d \in Conns : Events(d)' = IF d \in members THEN Events(d) \cup {e} ELSE Events(d)
<1>1. inbox \in [Conns -> Seq(Event)]
  BY DEF TypeOK
<1>2. inbox' \in [Conns -> Seq(Event)]
  BY <1>1 DEF GroupSend
<1>3. ASSUME NEW d \in Conns
      PROVE  Events(d)' = IF d \in members THEN Events(d) \cup {e} ELSE Events(d)
  <2>1. inbox'[d] = IF d \in members THEN Append(inbox[d], e) ELSE inbox[d]
    BY DEF GroupSend
  <2>2. Contents(Append(inbox[d], e)) = Contents(inbox[d]) \cup {e}
    BY <1>1, ContentsChange
  <2>3. QED
    BY <2>1, <2>2 DEF Events
<1>4. QED
  BY <1>2, <1>3

(* An event handed to the browser is one less for its consumer.             *)
LEMMA DeliversEvents ==
    ASSUME TypeOK, NEW c \in Conns, NEW type, Delivers(c, type)
    PROVE  /\ inbox' \in [Conns -> Seq(Event)]
           /\ \A d \in Conns : Events(d)' \subseteq Events(d)
           /\ \A d \in Conns : d # c => Events(d)' = Events(d)
           /\ Events(c) \subseteq Events(c)' \cup {Head(inbox[c])}
           /\ Head(inbox[c]) \in Events(c) /\ Head(inbox[c]) \in Event
           /\ Head(inbox[c]).type = type /\ Peer(c) = Head(inbox[c]).peer /\ Peer(c) \in Conns
           /\ con[c].at = "idle" /\ UNCHANGED <<room, seat, group, con>>
<1>1. inbox \in [Conns -> Seq(Event)] /\ inbox[c] \in Seq(Event) /\ inbox[c] # <<>>
  BY DEF TypeOK, Delivers
<1>2. Tail(inbox[c]) \in Seq(Event) /\ Head(inbox[c]) \in Event
  BY <1>1
<1>3. /\ inbox' \in [Conns -> Seq(Event)]
      /\ \A d \in Conns : inbox'[d] = IF d = c THEN Tail(inbox[c]) ELSE inbox[d]
  BY <1>1, <1>2 DEF Delivers
<1>4. /\ Contents(Tail(inbox[c])) \subseteq Contents(inbox[c])
      /\ Contents(inbox[c]) \subseteq Contents(Tail(inbox[c])) \cup {Head(inbox[c])}
      /\ Head(inbox[c]) \in Contents(inbox[c])
  BY <1>1, ContentsChange
<1>5. Peer(c) \in Conns
  BY <1>2 DEF Peer, Event
<1>6. QED
  BY <1>2, <1>3, <1>4, <1>5 DEF Events, Delivers, Peer, server

(* A message the consumer takes.                                            *)
LEMMA ReceivesMail ==
    ASSUME TypeOK, NEW c \in Conns, NEW type, Receives(c, type), Received(c)
    PROVE  /\ up' \in [Conns -> Seq(Message)]
           /\ \A d \in Conns : d # c => up'[d] = up[d]
           /\ JoinsFirst(up[c]) => ~StartsJoin(up'[c]) /\ JoinsFirst(up'[c])
           /\ HasClose(up'[c]) => HasClose(up[c])
           /\ EndsClose(up[c]) /\ type # "close" => EndsClose(up'[c])
           /\ type = "close" => HasClose(up[c])
           /\ StartsJoin(up[c]) <=> type = "join"
           /\ con[c].at = "idle" /\ Head(up[c]) \in Message /\ Head(up[c]).type = type
<1>1. /\ up \in [Conns -> Seq(Message)] /\ up[c] \in Seq(Message) /\ up[c] # <<>>
      /\ Head(up[c]).type = type
  BY DEF TypeOK, Receives
<1>2. Tail(up[c]) \in Seq(Message) /\ Head(up[c]) \in Message
  BY <1>1, TailMail
<1>3. /\ up' \in [Conns -> Seq(Message)]
      /\ \A d \in Conns : up'[d] = IF d = c THEN Tail(up[c]) ELSE up[d]
  BY <1>1, <1>2 DEF Received
<1>4. StartsJoin(up[c]) <=> type = "join"
  BY <1>1 DEF StartsJoin
<1>5. /\ JoinsFirst(up[c]) => ~StartsJoin(Tail(up[c])) /\ JoinsFirst(Tail(up[c]))
      /\ HasClose(Tail(up[c])) => HasClose(up[c])
      /\ EndsClose(up[c]) /\ Head(up[c]).type # "close" => EndsClose(Tail(up[c]))
      /\ Head(up[c]).type = "close" => HasClose(up[c])
  BY <1>1, TailMail
<1>6. QED
  BY <1>1, <1>2, <1>3, <1>4, <1>5 DEF Receives

(* A message the browser sends.                                             *)
LEMMA SendsMail ==
    ASSUME TypeOK, NEW c \in Conns, NEW m \in Message, m.type # "join",
           up' = [up EXCEPT ![c] = Append(@, m)]
    PROVE  /\ up' \in [Conns -> Seq(Message)]
           /\ \A d \in Conns : d # c => up'[d] = up[d]
           /\ up'[c] # <<>>
           /\ StartsJoin(up'[c]) <=> StartsJoin(up[c])
           /\ JoinsFirst(up[c]) => JoinsFirst(up'[c])
           /\ HasClose(up'[c]) => HasClose(up[c]) \/ m.type = "close"
           /\ m.type = "close" => EndsClose(up'[c])
<1>1. up \in [Conns -> Seq(Message)] /\ up[c] \in Seq(Message)
  BY DEF TypeOK
<1> DEFINE longer == Append(up[c], m)
<1>2. /\ longer \in Seq(Message) /\ longer # <<>>
      /\ StartsJoin(longer) <=> StartsJoin(up[c])
      /\ JoinsFirst(up[c]) => JoinsFirst(longer)
      /\ HasClose(longer) => HasClose(up[c]) \/ m.type = "close"
      /\ m.type = "close" => EndsClose(longer)
  BY <1>1, AppendMail
<1>3. up' = [up EXCEPT ![c] = longer]
  OBVIOUS
<1> HIDE DEF longer
<1>4. \A d \in Conns : up'[d] = IF d = c THEN longer ELSE up[d]
  BY <1>1, <1>3
<1>5. up' \in [Conns -> Seq(Message)]
  BY <1>1, <1>2, <1>3
<1>6. QED
  BY <1>2, <1>4, <1>5
-----------------------------------------------------------------------------
(* What a join changes.  The connection was not there, and the user's       *)
(* connection before, if he had one, was.                                   *)
LEMMA JoinChanges ==
    ASSUME MeetingInv, NEW c \in Conns, Join(c)
    PROVE  \E old \in room \cup {None} :
           /\ UNCHANGED <<group, inbox, tab, calls, view>>
           /\ up' \in [Conns -> Seq(Message)] /\ \A d \in Conns : d # c => up'[d] = up[d]
           /\ First(c) /\ ~StartsJoin(up'[c]) /\ JoinsFirst(up'[c])
           /\ HasClose(up'[c]) => HasClose(up[c])
           /\ EndsClose(up[c]) => EndsClose(up'[c])
           /\ con[c].at = "idle" /\ c \notin room
           /\ old # c
           /\ room' = (room \ {old}) \cup {c}
           /\ con' \in [Conns -> Consumer] /\ \A d \in Conns : d # c => con'[d] = con[d]
           /\ con'[c].at = IF old = None THEN "greet" ELSE "left"
           /\ con'[c].old = old /\ con'[c].peers = room \ {old} /\ con'[c].out = {}
<1>0. PICK old : old = seat[Owner[c]]
  OBVIOUS
<1>1. Receives(c, "join") /\ Received(c) /\ UNCHANGED <<group, inbox, tab, calls, view>>
  BY DEF Join, browser
<1>2. /\ up' \in [Conns -> Seq(Message)] /\ \A d \in Conns : d # c => up'[d] = up[d]
      /\ First(c) /\ ~StartsJoin(up'[c]) /\ JoinsFirst(up'[c])
      /\ HasClose(up'[c]) => HasClose(up[c])
      /\ EndsClose(up[c]) => EndsClose(up'[c])
      /\ con[c].at = "idle"
  BY <1>1, ReceivesMail DEF MeetingInv, Life, First
<1>3. c \notin room /\ c # None
  BY <1>2, MeetingAssumption DEF MeetingInv, Life, Joined
<1>4. old \in room \cup {None}
  BY <1>0, MeetingAssumption DEF MeetingInv, SeatInv, RoomIsSeats, SeatsOwned
<1>5. None \notin room /\ room \subseteq Conns
  BY MeetingAssumption DEF MeetingInv, TypeOK
<1>6. AfterJoin(old) = IF old = None THEN "greet" ELSE "left"
  BY <1>4, <1>5 DEF AfterJoin
<1>7. AfterJoin(old) \in Stages
  BY <1>6 DEF Stages
<1> DEFINE new == [Resting(AfterJoin(old)) EXCEPT !.old = old, !.peers = Existing(old)]
<1>8. /\ new \in Consumer
      /\ new.at = AfterJoin(old) /\ new.old = old /\ new.peers = Existing(old) /\ new.out = {}
  <2>1. old \in Conns \cup {None} /\ Existing(old) \in SUBSET Conns
    BY <1>4, <1>5 DEF Existing
  <2>2. QED
    BY <1>7, <2>1 DEF Resting, Consumer
<1>9. con' = [con EXCEPT ![c] = new] /\ room' = (room \ {old}) \cup {c}
  BY <1>0 DEF Join
<1> HIDE DEF new
<1>10. /\ con' \in [Conns -> Consumer]
       /\ \A d \in Conns : con'[d] = IF d = c THEN new ELSE con[d]
  BY <1>8, <1>9, RecordChanges DEF MeetingInv
<1>11. QED
  BY <1>1, <1>2, <1>3, <1>4, <1>5, <1>6, <1>8, <1>9, <1>10 DEF Existing

(* What the two messages of a join about the connection before change.      *)
LEMMA JoinSendLeftChanges ==
    ASSUME MeetingInv, NEW c \in Conns, JoinSendLeft(c)
    PROVE  /\ UNCHANGED <<room, seat, group, up, tab, calls, view>>
           /\ con[c].at = "left" /\ con[c].old \in Conns
           /\ inbox' \in [Conns -> Seq(Event)]
           /\ \A d \in Conns : Events(d)' = IF d \in group
                  THEN Events(d) \cup {[type |-> "left", peer |-> con[c].old]} ELSE Events(d)
           /\ con' \in [Conns -> Consumer]
           /\ \A d \in Conns : con'[d].at = IF d = c THEN "force" ELSE con[d].at
           /\ \A d \in Conns : con'[d].old = con[d].old
           /\ \A d \in Conns : con'[d].peers = con[d].peers /\ con'[d].out = con[d].out
<1>1. /\ UNCHANGED <<room, seat, group, up, tab, calls, view>> /\ Stage(c, "force")
      /\ GroupSend(group, [type |-> "left", peer |-> con[c].old]) /\ con[c].at = "left"
  BY DEF JoinSendLeft, server, browser
<1>2. con[c].old \in Conns
  BY <1>1 DEF MeetingInv, Handling, TypeOK, Consumer
<1>3. [type |-> "left", peer |-> con[c].old] \in Event
  BY <1>2 DEF Event
<1>4. "force" \in Stages /\ TypeOK
  BY DEF Stages, MeetingInv
<1>5. QED
  BY <1>1, <1>2, <1>3, <1>4, StageChanges, GroupSendEvents

LEMMA JoinSendForceChanges ==
    ASSUME MeetingInv, NEW c \in Conns, JoinSendForce(c)
    PROVE  /\ UNCHANGED <<room, seat, group, up, tab, calls, view>>
           /\ con[c].at = "force" /\ con[c].old \in Conns
           /\ inbox' \in [Conns -> Seq(Event)]
           /\ \A d \in Conns : Events(d)' = IF d = con[c].old /\ con[d].at # "closed"
                  THEN Events(d) \cup {[type |-> "force", peer |-> con[c].old]} ELSE Events(d)
           /\ con' \in [Conns -> Consumer]
           /\ \A d \in Conns : con'[d].at = IF d = c THEN "greet" ELSE con[d].at
           /\ \A d \in Conns : con'[d].old = con[d].old
           /\ \A d \in Conns : con'[d].peers = con[d].peers /\ con'[d].out = con[d].out
<1>1. /\ UNCHANGED <<room, seat, group, up, tab, calls, view>> /\ Stage(c, "greet")
      /\ GroupSend({con[c].old} \cap {d \in Conns : con[d].at # "closed"},
                   [type |-> "force", peer |-> con[c].old])
      /\ con[c].at = "force"
  BY DEF JoinSendForce, server, browser
<1>2. con[c].old \in Conns
  BY <1>1 DEF MeetingInv, Handling, TypeOK, Consumer
<1>3. [type |-> "force", peer |-> con[c].old] \in Event
  BY <1>2 DEF Event
<1>4. "greet" \in Stages /\ TypeOK
  BY DEF Stages, MeetingInv
<1>5. QED
  BY <1>1, <1>2, <1>3, <1>4, StageChanges, GroupSendEvents

LEMMA GreetChanges ==
    ASSUME MeetingInv, NEW c \in Conns, Greet(c)
    PROVE  /\ UNCHANGED <<room, seat, group, inbox, up, tab, view>>
           /\ con[c].at = "greet"
           /\ calls' \in [Conns -> SUBSET Conns]
           /\ calls[c] = {}
           /\ \A d \in Conns : d # c => calls'[d] = calls[d]
           /\ calls'[c] = IF tab[c] = "open" THEN con[c].peers ELSE {}
           /\ con' \in [Conns -> Consumer]
           /\ \A d \in Conns : con'[d].at = IF d = c THEN "announce" ELSE con[d].at
           /\ \A d \in Conns : con'[d].old = con[d].old
           /\ \A d \in Conns : con'[d].peers = con[d].peers /\ con'[d].out = con[d].out
<1>1. /\ UNCHANGED <<room, seat, group, inbox, up, tab, view>> /\ Stage(c, "announce")
      /\ calls' = [calls EXCEPT ![c] = IF tab[c] = "open" THEN con[c].peers ELSE {}]
      /\ con[c].at = "greet"
  BY DEF Greet, server
<1>2. "announce" \in Stages /\ TypeOK
  BY DEF Stages, MeetingInv
<1>3. (IF tab[c] = "open" THEN con[c].peers ELSE {}) \in SUBSET Conns
  BY <1>2 DEF TypeOK, Consumer
<1>4. calls[c] = {}
  BY <1>1 DEF MeetingInv, Life, Joining
<1>5. calls \in [Conns -> SUBSET Conns]
  BY <1>2 DEF TypeOK
<1>6. QED
  BY <1>1, <1>2, <1>3, <1>4, <1>5, StageChanges

LEMMA AnnounceChanges ==
    ASSUME MeetingInv, NEW c \in Conns, Announce(c)
    PROVE  /\ UNCHANGED <<room, seat, group, up, tab, calls, view>>
           /\ con[c].at = "announce"
           /\ inbox' \in [Conns -> Seq(Event)]
           /\ \A d \in Conns : Events(d)' = IF d \in group \ {c}
                  THEN Events(d) \cup {[type |-> "joined", peer |-> c]} ELSE Events(d)
           /\ con' \in [Conns -> Consumer]
           /\ \A d \in Conns : con'[d] = IF d = c THEN Resting("idle") ELSE con[d]
           /\ Resting("idle").at = "idle" /\ Resting("idle").old = None
           /\ Resting("idle").peers = {} /\ Resting("idle").out = {}
<1>1. /\ UNCHANGED <<room, seat, group, up, tab, calls, view>>
      /\ GroupSend(group \ {c}, [type |-> "joined", peer |-> c])
      /\ con' = [con EXCEPT ![c] = Resting("idle")]
      /\ con[c].at = "announce"
  BY DEF Announce, server, browser
<1>2. [type |-> "joined", peer |-> c] \in Event
  BY DEF Event
<1>3. "idle" \in Stages /\ TypeOK
  BY DEF Stages, MeetingInv
<1>4. /\ inbox' \in [Conns -> Seq(Event)]
      /\ \A d \in Conns : Events(d)' = IF d \in group \ {c}
             THEN Events(d) \cup {[type |-> "joined", peer |-> c]} ELSE Events(d)
  BY <1>1, <1>2, <1>3, GroupSendEvents
<1>5. QED
  BY <1>1, <1>3, <1>4, RestingRecord, RecordChanges

LEMMA RelayChanges ==
    ASSUME MeetingInv, NEW c \in Conns, Relay(c)
    PROVE  /\ UNCHANGED <<room, seat, group, inbox, tab, calls, view>>
           /\ up' \in [Conns -> Seq(Message)] /\ \A d \in Conns : d # c => up'[d] = up[d]
           /\ ~First(c) /\ ~StartsJoin(up'[c]) /\ JoinsFirst(up'[c])
           /\ HasClose(up'[c]) => HasClose(up[c])
           /\ EndsClose(up[c]) => EndsClose(up'[c])
           /\ con[c].at = "idle"
           /\ con' \in [Conns -> Consumer] /\ \A d \in Conns : d # c => con'[d] = con[d]
           /\ \/ con'[c] = con[c]
              \/ /\ con'[c].at = "relay" /\ con'[c].old = None /\ con'[c].peers = {}
                 /\ \A m \in con'[c].out : m.type \in {"offer", "answer"}
<1>1. PICK type \in {"offer", "answer"} : Receives(c, type) /\ Received(c)
  BY DEF Relay
<1>2. /\ up' \in [Conns -> Seq(Message)] /\ \A d \in Conns : d # c => up'[d] = up[d]
      /\ ~First(c) /\ ~StartsJoin(up'[c]) /\ JoinsFirst(up'[c])
      /\ HasClose(up'[c]) => HasClose(up[c])
      /\ EndsClose(up[c]) => EndsClose(up'[c])
      /\ con[c].at = "idle" /\ Head(up[c]) \in Message /\ Head(up[c]).type = type
  BY <1>1, ReceivesMail DEF MeetingInv, Life, First
<1>3. UNCHANGED <<room, seat, group, inbox, tab, calls, view>>
  BY DEF Relay, server, browser
<1>4. CASE UNCHANGED con
  BY <1>2, <1>3, <1>4 DEF MeetingInv, TypeOK
<1> DEFINE new == [Resting("relay") EXCEPT !.out = {Head(up[c])}]
<1>5. CASE con' = [con EXCEPT ![c] = new]
  <2>1. /\ new \in Consumer
        /\ new.at = "relay" /\ new.old = None /\ new.peers = {} /\ new.out = {Head(up[c])}
    BY <1>2 DEF Resting, Consumer, Stages
  <2> HIDE DEF new
  <2>2. con' \in [Conns -> Consumer] /\ \A d \in Conns : con'[d] = IF d = c THEN new ELSE con[d]
    BY <1>5, <2>1, RecordChanges DEF MeetingInv
  <2>3. QED
    BY <1>2, <1>3, <2>1, <2>2
<1>6. QED
  BY <1>4, <1>5 DEF Relay

(* The target in the group gets what a browser sent to it.                  *)
LEMMA RelaySendChanges ==
    ASSUME MeetingInv, NEW c \in Conns, RelaySend(c)
    PROVE  /\ UNCHANGED <<room, seat, group, up, tab, calls, view>>
           /\ con[c].at = "relay"
           /\ inbox' \in [Conns -> Seq(Event)]
           /\ \E e \in Event : /\ e.type \in {"offer", "answer"}
                               /\ \A d \in Conns : Events(d)' \in {Events(d), Events(d) \cup {e}}
           /\ con' \in [Conns -> Consumer]
           /\ \A d \in Conns : con'[d] = IF d = c THEN Resting("idle") ELSE con[d]
           /\ Resting("idle").at = "idle" /\ Resting("idle").old = None
           /\ Resting("idle").peers = {} /\ Resting("idle").out = {}
<1>1. /\ UNCHANGED <<room, seat, group, up, tab, calls, view>>
      /\ con' = [con EXCEPT ![c] = Resting("idle")]
      /\ con[c].at = "relay"
  BY DEF RelaySend, server, browser
<1>2. PICK m \in con[c].out : GroupSend(group \cap {m.to}, [type |-> m.type, peer |-> c])
  BY DEF RelaySend
<1>3. m.type \in {"offer", "answer"}
  BY DEF MeetingInv, Handling
<1> DEFINE e == [type |-> m.type, peer |-> c]
<1>4. e \in Event /\ e.type \in {"offer", "answer"}
  BY <1>3 DEF Event
<1> HIDE DEF e
<1>5. "idle" \in Stages /\ TypeOK
  BY DEF Stages, MeetingInv
<1>6. GroupSend(group \cap {m.to}, e)
  BY <1>2 DEF e
<1>7. /\ inbox' \in [Conns -> Seq(Event)]
      /\ \A d \in Conns : Events(d)' \in {Events(d), Events(d) \cup {e}}
  BY <1>4, <1>5, <1>6, GroupSendEvents
<1>8. QED
  BY <1>1, <1>4, <1>5, <1>7, RestingRecord, RecordChanges

LEMMA DisconnectChanges ==
    ASSUME MeetingInv, NEW c \in Conns, Disconnect(c)
    PROVE  /\ UNCHANGED <<group, inbox, tab, calls, view>>
           /\ up' \in [Conns -> Seq(Message)] /\ \A d \in Conns : d # c => up'[d] = up[d]
           /\ ~First(c) /\ ~StartsJoin(up'[c]) /\ JoinsFirst(up'[c])
           /\ HasClose(up[c]) /\ tab[c] = "gone"
           /\ con[c].at = "idle" /\ room' = room \ {c}
           /\ con' \in [Conns -> Consumer]
           /\ \A d \in Conns : d # c => con'[d].at = con[d].at
           /\ con'[c].at \in {"leave", "discard"}
           /\ \A d \in Conns : con'[d].old = con[d].old
           /\ \A d \in Conns : con'[d].peers = con[d].peers /\ con'[d].out = con[d].out
<1>1. /\ Receives(c, "close") /\ Received(c) /\ UNCHANGED <<group, inbox, tab, calls, view>>
      /\ room' = room \ {c}
      /\ Stage(c, IF c \in room THEN "leave" ELSE "discard")
  BY DEF Disconnect, browser
<1>2. /\ up' \in [Conns -> Seq(Message)] /\ \A d \in Conns : d # c => up'[d] = up[d]
      /\ ~First(c) /\ ~StartsJoin(up'[c]) /\ JoinsFirst(up'[c])
      /\ HasClose(up[c])
      /\ con[c].at = "idle"
  BY <1>1, ReceivesMail DEF MeetingInv, Life, First
<1>3. tab[c] = "gone"
  BY <1>2 DEF MeetingInv, Life
<1>4. (IF c \in room THEN "leave" ELSE "discard") \in Stages /\ TypeOK
  BY DEF Stages, MeetingInv
<1>5. QED
  BY <1>1, <1>2, <1>3, <1>4, StageChanges

LEMMA SendLeftChanges ==
    ASSUME MeetingInv, NEW c \in Conns, SendLeft(c)
    PROVE  /\ UNCHANGED <<room, seat, group, up, tab, calls, view>>
           /\ con[c].at = "leave"
           /\ inbox' \in [Conns -> Seq(Event)]
           /\ \A d \in Conns : Events(d)' = IF d \in group
                  THEN Events(d) \cup {[type |-> "left", peer |-> c]} ELSE Events(d)
           /\ con' \in [Conns -> Consumer]
           /\ \A d \in Conns : con'[d].at = IF d = c THEN "discard" ELSE con[d].at
           /\ \A d \in Conns : con'[d].old = con[d].old
           /\ \A d \in Conns : con'[d].peers = con[d].peers /\ con'[d].out = con[d].out
<1>1. /\ UNCHANGED <<room, seat, group, up, tab, calls, view>> /\ Stage(c, "discard")
      /\ GroupSend(group, [type |-> "left", peer |-> c]) /\ con[c].at = "leave"
  BY DEF SendLeft, server, browser
<1>2. [type |-> "left", peer |-> c] \in Event
  BY DEF Event
<1>3. "discard" \in Stages /\ TypeOK
  BY DEF Stages, MeetingInv
<1>4. QED
  BY <1>1, <1>2, <1>3, StageChanges, GroupSendEvents

LEMMA DiscardChanges ==
    ASSUME MeetingInv, NEW c \in Conns, Discard(c)
    PROVE  /\ UNCHANGED <<room, seat, up, tab, calls, view>>
           /\ con[c].at = "discard" /\ group' = group \ {c}
           /\ inbox' \in [Conns -> Seq(Event)]
           /\ \A d \in Conns : Events(d)' \subseteq Events(d)
           /\ \A d \in Conns : d # c => Events(d)' = Events(d)
           /\ con' \in [Conns -> Consumer]
           /\ \A d \in Conns : con'[d].at = IF d = c THEN "closed" ELSE con[d].at
           /\ \A d \in Conns : con'[d].old = con[d].old
           /\ \A d \in Conns : con'[d].peers = con[d].peers /\ con'[d].out = con[d].out
<1>1. /\ UNCHANGED <<room, seat, up, tab, calls, view>> /\ Stage(c, "closed")
      /\ inbox' = [inbox EXCEPT ![c] = <<>>] /\ con[c].at = "discard" /\ group' = group \ {c}
  BY DEF Discard, browser, WithoutConsumer
<1>2. "closed" \in Stages /\ TypeOK
  BY DEF Stages, MeetingInv
<1>3. inbox \in [Conns -> Seq(Event)]
  BY <1>2 DEF TypeOK
<1>4. /\ inbox' \in [Conns -> Seq(Event)]
      /\ \A d \in Conns : inbox'[d] = IF d = c THEN <<>> ELSE inbox[d]
  BY <1>1, <1>3
<1>5. Contents(<<>>) = {}
  BY DEF Contents
<1>6. /\ \A d \in Conns : Events(d)' \subseteq Events(d)
      /\ \A d \in Conns : d # c => Events(d)' = Events(d)
  BY <1>4, <1>5 DEF Events
<1>7. QED
  BY <1>1, <1>2, <1>4, <1>6, StageChanges

(* The browser of a connection hangs up.                                    *)
LEMMA HangUpChanges ==
    ASSUME MeetingInv, NEW c \in Conns, tab[c] = "open", HangUp(c)
    PROVE  /\ \A d \in Conns : tab'[d] = IF d = c THEN "gone" ELSE tab[d]
           /\ \A d \in Conns : calls'[d] = IF d = c THEN {} ELSE calls[d]
           /\ \A p, q \in Conns : view'[p][q] = IF p = c THEN "none" ELSE view[p][q]
           /\ \A d \in Conns : d # c => up'[d] = up[d]
           /\ up'[c] # <<>> /\ (StartsJoin(up'[c]) <=> First(c)) /\ JoinsFirst(up'[c])
           /\ EndsClose(up'[c])
<1>1. /\ tab' = [tab EXCEPT ![c] = "gone"] /\ calls' = [calls EXCEPT ![c] = {}]
      /\ view' = [view EXCEPT ![c] = Nobody]
      /\ up' = [up EXCEPT ![c] = Append(@, [type |-> "close"])]
  BY DEF HangUp
<1> DEFINE m == [type |-> "close"]
<1>2. m \in Message /\ m.type = "close" /\ up' = [up EXCEPT ![c] = Append(@, m)]
  BY <1>1 DEF Message
<1> HIDE DEF m
<1>3. /\ up' \in [Conns -> Seq(Message)] /\ \A d \in Conns : d # c => up'[d] = up[d]
      /\ up'[c] # <<>> /\ (StartsJoin(up'[c]) <=> First(c)) /\ JoinsFirst(up'[c])
      /\ EndsClose(up'[c])
  BY <1>2, SendsMail DEF MeetingInv, Life, First
<1>4. \A q \in Conns : Nobody[q] = "none"
  BY DEF Nobody
<1>5. \A p, q \in Conns : view'[p][q] = IF p = c THEN "none" ELSE view[p][q]
  BY <1>1, <1>4 DEF MeetingInv, TypeOK
<1>6. QED
  BY <1>1, <1>3, <1>5 DEF MeetingInv, TypeOK

LEMMA HangUpTypes ==
    ASSUME MeetingInv, NEW c \in Conns, HangUp(c)
    PROVE  /\ tab' \in [Conns -> TabState] /\ calls' \in [Conns -> SUBSET Conns]
           /\ view' \in [Conns -> [Conns -> Media]] /\ up' \in [Conns -> Seq(Message)]
<1> DEFINE m == [type |-> "close"]
<1>1. m \in Message /\ m.type = "close"
  BY DEF Message
<1>2. /\ tab' = [tab EXCEPT ![c] = "gone"] /\ calls' = [calls EXCEPT ![c] = {}]
      /\ view' = [view EXCEPT ![c] = Nobody]
      /\ up' = [up EXCEPT ![c] = Append(@, m)]
  BY DEF HangUp
<1> HIDE DEF m
<1>3. up' \in [Conns -> Seq(Message)]
  BY <1>1, <1>2, SendsMail DEF MeetingInv
<1>4. Nobody \in [Conns -> Media]
  BY DEF Nobody, Media
<1>5. QED
  BY <1>2, <1>3, <1>4 DEF MeetingInv, TypeOK, TabState

(* One browser learns of one peer.                                          *)
LEMMA HearChanges ==
    ASSUME TypeOK, NEW c \in Conns, NEW p \in Conns, NEW media \in Media, Hear(c, p, media)
    PROVE  /\ UNCHANGED <<tab, calls>>
           /\ view' \in [Conns -> [Conns -> Media]]
           /\ \A d, q \in Conns : d # c \/ q # p => view'[d][q] = view[d][q]
           /\ tab[c] = "open" => view'[c][p] = media
           /\ tab[c] # "open" => view'[c][p] = view[c][p]
<1>1. /\ view' = [view EXCEPT ![c][p] = IF tab[c] = "open" THEN media ELSE @]
      /\ UNCHANGED <<tab, calls>>
  BY DEF Hear
<1>2. view \in [Conns -> [Conns -> Media]]
  BY DEF TypeOK
<1>3. QED
  BY <1>1, <1>2

LEMMA ConnectChanges ==
    ASSUME MeetingInv, NEW c \in Conns, Connect(c)
    PROVE  /\ UNCHANGED <<room, seat, inbox, calls, view>>
           /\ con[c].at = "none"
           /\ con' \in [Conns -> Consumer]
           /\ \A d \in Conns : con'[d] = IF d = c THEN Resting("idle") ELSE con[d]
           /\ Resting("idle").at = "idle" /\ Resting("idle").old = None
           /\ Resting("idle").peers = {} /\ Resting("idle").out = {}
           /\ group' = group \cup {c}
           /\ tab' \in [Conns -> TabState]
           /\ \A d \in Conns : tab'[d] = IF d = c THEN "open" ELSE tab[d]
           /\ up' \in [Conns -> Seq(Message)] /\ \A d \in Conns : d # c => up'[d] = up[d]
           /\ StartsJoin(up'[c]) /\ JoinsFirst(up'[c]) /\ ~HasClose(up'[c])
<1> DEFINE m == [type |-> "join"]
           one == <<m>>
<1>1. m \in Message /\ m.type = "join"
  BY DEF Message
<1>2. /\ UNCHANGED <<room, seat, inbox, calls, view>> /\ con[c].at = "none"
      /\ con' = [con EXCEPT ![c] = Resting("idle")]
      /\ group' = group \cup {c} /\ tab' = [tab EXCEPT ![c] = "open"]
      /\ up' = [up EXCEPT ![c] = one]
  BY DEF Connect
<1> HIDE DEF m
<1>3. one \in Seq(Message) /\ one # <<>> /\ Len(one) = 1 /\ one[1] = m /\ Head(one) = m
  BY <1>1
<1> HIDE DEF one
<1>4. StartsJoin(one) /\ JoinsFirst(one) /\ ~HasClose(one)
  BY <1>1, <1>3 DEF StartsJoin, JoinsFirst, HasClose
<1>5. /\ up' \in [Conns -> Seq(Message)]
      /\ \A d \in Conns : up'[d] = IF d = c THEN one ELSE up[d]
  BY <1>2, <1>3 DEF MeetingInv, TypeOK
<1>6. /\ tab' \in [Conns -> TabState]
      /\ \A d \in Conns : tab'[d] = IF d = c THEN "open" ELSE tab[d]
  BY <1>2 DEF MeetingInv, TypeOK, TabState
<1>7. "idle" \in Stages /\ TypeOK
  BY DEF Stages, MeetingInv
<1>8. /\ Resting("idle") \in Consumer
      /\ Resting("idle").at = "idle" /\ Resting("idle").old = None
      /\ Resting("idle").peers = {} /\ Resting("idle").out = {}
  BY <1>7, RestingRecord
<1>9. /\ con' \in [Conns -> Consumer]
      /\ \A d \in Conns : con'[d] = IF d = c THEN Resting("idle") ELSE con[d]
  BY <1>2, <1>7, <1>8, RecordChanges
<1>10. QED
  BY <1>2, <1>4, <1>5, <1>6, <1>8, <1>9

LEMMA LeaveChanges ==
    ASSUME MeetingInv, NEW c \in Conns, Leave(c)
    PROVE  tab[c] = "open" /\ HangUp(c) /\ UNCHANGED <<room, seat, group, inbox, con>>
BY DEF Leave, server

LEMMA CallChanges ==
    ASSUME MeetingInv, NEW c \in Conns, NEW p \in Conns, Call(c, p)
    PROVE  /\ UNCHANGED <<room, seat, group, inbox, con, tab>>
           /\ p \in calls[c] /\ tab[c] = "open" /\ Joined(c) /\ con[c].at \notin Joining
           /\ \A d \in Conns : calls'[d] = IF d = c THEN calls[c] \ {p} ELSE calls[d]
           /\ \A d, q \in Conns :
                 view'[d][q] = IF d = c /\ q = p THEN "calling" ELSE view[d][q]
           /\ \A d \in Conns : d # c => up'[d] = up[d]
           /\ ~StartsJoin(up'[c]) /\ JoinsFirst(up'[c])
           /\ HasClose(up'[c]) => HasClose(up[c])
<1> DEFINE m == [type |-> "offer", to |-> p]
<1>1. m \in Message /\ m.type = "offer"
  BY DEF Message
<1>2. /\ UNCHANGED <<room, seat, group, inbox, con, tab>> /\ p \in calls[c]
      /\ calls' = [calls EXCEPT ![c] = @ \ {p}]
      /\ view' = [view EXCEPT ![c][p] = "calling"]
      /\ up' = [up EXCEPT ![c] = Append(@, m)]
  BY DEF Call, server
<1> HIDE DEF m
<1>3. tab[c] = "open" /\ Joined(c) /\ con[c].at \notin Joining
  BY <1>2 DEF MeetingInv, Life
<1>4. /\ up' \in [Conns -> Seq(Message)] /\ \A d \in Conns : d # c => up'[d] = up[d]
      /\ ~StartsJoin(up'[c]) /\ JoinsFirst(up'[c])
      /\ HasClose(up'[c]) => HasClose(up[c])
  BY <1>1, <1>2, <1>3, SendsMail DEF MeetingInv, Life, First, Joined
<1>5. /\ calls' \in [Conns -> SUBSET Conns]
      /\ \A d \in Conns : calls'[d] = IF d = c THEN calls[c] \ {p} ELSE calls[d]
  BY <1>2 DEF MeetingInv, TypeOK
<1>6. /\ view' \in [Conns -> [Conns -> Media]]
      /\ \A d, q \in Conns : view'[d][q] = IF d = c /\ q = p THEN "calling" ELSE view[d][q]
  BY <1>2 DEF MeetingInv, TypeOK, Media
<1>7. QED
  BY <1>2, <1>3, <1>4, <1>5, <1>6

LEMMA CallTypes ==
    ASSUME MeetingInv, NEW c \in Conns, NEW p \in Conns, Call(c, p)
    PROVE  /\ calls' \in [Conns -> SUBSET Conns]
           /\ view' \in [Conns -> [Conns -> Media]]
           /\ up' \in [Conns -> Seq(Message)]
<1> DEFINE m == [type |-> "offer", to |-> p]
<1>1. m \in Message /\ m.type = "offer"
  BY DEF Message
<1>2. /\ calls' = [calls EXCEPT ![c] = @ \ {p}]
      /\ view' = [view EXCEPT ![c][p] = "calling"]
      /\ up' = [up EXCEPT ![c] = Append(@, m)]
  BY DEF Call
<1> HIDE DEF m
<1>3. up' \in [Conns -> Seq(Message)]
  BY <1>1, <1>2, SendsMail DEF MeetingInv
<1>4. QED
  BY <1>2, <1>3 DEF MeetingInv, TypeOK, Media

(* What a browser does when it hears of a peer.                             *)
Heard(c) == PeerJoinedEvent(c) \/ PeerLeftEvent(c) \/ OfferEvent(c) \/ AnswerEvent(c)

LEMMA HeardChanges ==
    ASSUME MeetingInv, NEW c \in Conns, Heard(c)
    PROVE  \E e \in Events(c) :
           /\ UNCHANGED <<room, seat, group, con, tab, calls>>
           /\ con[c].at = "idle"
           /\ inbox' \in [Conns -> Seq(Event)]
           /\ \A d \in Conns : Events(d)' \subseteq Events(d)
           /\ \A d \in Conns : d # c => Events(d)' = Events(d)
           /\ Events(c) \subseteq Events(c)' \cup {e}
           /\ e \in Event /\ e.peer \in Conns
           /\ e.type # "force"
           /\ up' \in [Conns -> Seq(Message)] /\ \A d \in Conns : d # c => up'[d] = up[d]
           /\ (StartsJoin(up'[c]) <=> First(c)) /\ JoinsFirst(up'[c])
           /\ HasClose(up'[c]) => HasClose(up[c])
           /\ tab[c] # "open" => up'[c] = up[c]
           /\ view' \in [Conns -> [Conns -> Media]]
           /\ \A d, q \in Conns : d # c \/ q # e.peer => view'[d][q] = view[d][q]
           /\ view'[c][e.peer] = "calling" => view[c][e.peer] = "calling"
           /\ e.type # "left" /\ view[c][e.peer] # "none" => view'[c][e.peer] # "none"
           /\ e.type = "joined" /\ tab[c] = "open" => view'[c][e.peer] # "none"
<1> DEFINE p == Peer(c)
<1>0. PICK e : e = Head(inbox[c])
  OBVIOUS
<1>1. TypeOK /\ JoinsFirst(up[c]) /\ up \in [Conns -> Seq(Message)]
  BY DEF MeetingInv, Life, TypeOK
<1>2. PICK type \in {"joined", "left", "offer", "answer"}, media \in Media :
          /\ Delivers(c, type) /\ Hear(c, p, media)
          /\ \/ UNCHANGED up
             \/ /\ tab[c] = "open"
                /\ up' = [up EXCEPT ![c] = Append(@, [type |-> "answer", to |-> p])]
          /\ type = "joined" => media = "waiting"
          /\ type = "offer" => media = "linked"
          /\ type = "answer" => media = IF view[c][p] = "calling" THEN "linked" ELSE view[c][p]
          /\ type = "left" => media = "none"
  <2>1. CASE PeerJoinedEvent(c)
    BY <2>1 DEF PeerJoinedEvent, NewPeer, Media
  <2>2. CASE PeerLeftEvent(c)
    BY <2>2 DEF PeerLeftEvent, Media
  <2>3. CASE OfferEvent(c)
    BY <2>3 DEF OfferEvent, Media
  <2>4. CASE AnswerEvent(c)
    <3>1. p \in Conns
      BY <1>1, <2>4, DeliversEvents DEF AnswerEvent
    <3>2. view[c][p] \in Media /\ "linked" \in Media
      BY <1>1, <3>1 DEF TypeOK, Media
    <3>3. QED
      BY <2>4, <3>2 DEF AnswerEvent
  <2>5. QED
    BY <2>1, <2>2, <2>3, <2>4 DEF Heard
<1>3. /\ inbox' \in [Conns -> Seq(Event)]
      /\ \A d \in Conns : Events(d)' \subseteq Events(d)
      /\ \A d \in Conns : d # c => Events(d)' = Events(d)
      /\ Events(c) \subseteq Events(c)' \cup {e}
      /\ e \in Events(c) /\ e \in Event /\ e.type = type /\ p = e.peer /\ e.peer \in Conns
      /\ con[c].at = "idle" /\ UNCHANGED <<room, seat, group, con>>
  BY <1>0, <1>1, <1>2, DeliversEvents
<1> HIDE DEF p
<1>4. /\ UNCHANGED <<tab, calls>>
      /\ view' \in [Conns -> [Conns -> Media]]
      /\ \A d, q \in Conns : d # c \/ q # p => view'[d][q] = view[d][q]
      /\ tab[c] = "open" => view'[c][p] = media
      /\ tab[c] # "open" => view'[c][p] = view[c][p]
  BY <1>1, <1>2, <1>3, HearChanges
<1>5. /\ up' \in [Conns -> Seq(Message)] /\ \A d \in Conns : d # c => up'[d] = up[d]
      /\ (StartsJoin(up'[c]) <=> First(c)) /\ JoinsFirst(up'[c])
      /\ HasClose(up'[c]) => HasClose(up[c])
      /\ tab[c] # "open" => up'[c] = up[c]
  <2>1. CASE UNCHANGED up
    BY <1>1, <2>1 DEF First
  <2> DEFINE m == [type |-> "answer", to |-> p]
  <2>2. CASE tab[c] = "open" /\ up' = [up EXCEPT ![c] = Append(@, m)]
    <3>1. m \in Message /\ m.type = "answer"
      BY <1>3 DEF Message
    <3> HIDE DEF m
    <3>2. QED
      BY <1>1, <2>2, <3>1, SendsMail DEF First
  <2>3. QED
    BY <1>2, <2>1, <2>2
<1>6. /\ view'[c][p] = "calling" => view[c][p] = "calling"
      /\ e.type # "left" /\ view[c][p] # "none" => view'[c][p] # "none"
      /\ e.type = "joined" /\ tab[c] = "open" => view'[c][p] # "none"
  BY <1>2, <1>3, <1>4
<1>7. QED
  <2>1. e \in Events(c)
    BY <1>3
  <2> WITNESS e \in Events(c)
  <2>2. QED
    BY <1>2, <1>3, <1>4, <1>5, <1>6

LEMMA ForceChanges ==
    ASSUME MeetingInv, NEW c \in Conns, ForceDisconnectEvent(c)
    PROVE  /\ UNCHANGED <<room, seat, group, con>>
           /\ con[c].at = "idle"
           /\ inbox' \in [Conns -> Seq(Event)]
           /\ \A d \in Conns : Events(d)' \subseteq Events(d)
           /\ \A d \in Conns : d # c => Events(d)' = Events(d)
           /\ \A e \in Events(c) : e \in Events(c)' \/ e.type = "force"
           /\ \/ tab[c] = "open" /\ HangUp(c)
              \/ tab[c] # "open" /\ UNCHANGED <<up, tab, calls, view>>
BY DeliversEvents DEF ForceDisconnectEvent, GiveWay, MeetingInv, browser
-----------------------------------------------------------------------------
LEMMA StepTypes ==
    ASSUME MeetingInv, NEW c \in Conns, Step(c)
    PROVE  TypeOK'
<1>0. TypeOK /\ SeatInv
  BY DEF MeetingInv
<1>1. seat' \in [Users -> Conns \cup {None}]
  <2>1. SeatInv'
    BY <1>0, JoinKeepsSeats, DisconnectKeepsSeats, OthersKeepSeats DEF Step, Serve
  <2>2. QED
    BY <2>1 DEF SeatInv, SeatsOwned
<1>2. CASE Connect(c)
  BY <1>0, <1>1, <1>2, ConnectChanges DEF TypeOK
<1>3. CASE Join(c)
  <2>1. /\ UNCHANGED <<group, inbox, tab, calls, view>>
        /\ up' \in [Conns -> Seq(Message)] /\ con' \in [Conns -> Consumer]
        /\ room' \subseteq room \cup {c}
    BY <1>3, JoinChanges
  <2>2. QED
    BY <1>0, <1>1, <2>1 DEF TypeOK
<1>4. CASE JoinSendLeft(c)
  BY <1>0, <1>4, JoinSendLeftChanges DEF TypeOK
<1>5. CASE JoinSendForce(c)
  BY <1>0, <1>5, JoinSendForceChanges DEF TypeOK
<1>6. CASE Greet(c)
  BY <1>0, <1>6, GreetChanges DEF TypeOK
<1>7. CASE Announce(c)
  BY <1>0, <1>7, AnnounceChanges DEF TypeOK
<1>8. CASE Relay(c)
  BY <1>0, <1>8, RelayChanges DEF TypeOK
<1>9. CASE RelaySend(c)
  BY <1>0, <1>9, RelaySendChanges DEF TypeOK
<1>10. CASE Disconnect(c)
  BY <1>0, <1>1, <1>10, DisconnectChanges DEF TypeOK
<1>11. CASE SendLeft(c)
  BY <1>0, <1>11, SendLeftChanges DEF TypeOK
<1>12. CASE Discard(c)
  BY <1>0, <1>12, DiscardChanges DEF TypeOK
<1>13. CASE Heard(c)
  <2>1. /\ UNCHANGED <<room, seat, group, con, tab, calls>>
        /\ inbox' \in [Conns -> Seq(Event)] /\ up' \in [Conns -> Seq(Message)]
        /\ view' \in [Conns -> [Conns -> Media]]
    BY <1>13, HeardChanges
  <2>2. QED
    BY <1>0, <2>1 DEF TypeOK
<1>14. CASE ForceDisconnectEvent(c)
  <2>1. /\ UNCHANGED <<room, seat, group, con>> /\ inbox' \in [Conns -> Seq(Event)]
        /\ (tab[c] = "open" /\ HangUp(c)) \/ UNCHANGED <<up, tab, calls, view>>
    BY <1>14, ForceChanges
  <2>2. QED
    BY <1>0, <2>1, HangUpTypes DEF TypeOK
<1>15. CASE Leave(c)
  <2>1. tab[c] = "open" /\ HangUp(c) /\ UNCHANGED <<room, seat, group, inbox, con>>
    BY <1>15, LeaveChanges
  <2>2. QED
    BY <1>0, <2>1, HangUpTypes DEF TypeOK
<1>16. ASSUME NEW p \in Conns, Call(c, p) PROVE TypeOK'
  <2>1. /\ UNCHANGED <<room, seat, group, inbox, con, tab>>
        /\ up' \in [Conns -> Seq(Message)] /\ calls' \in [Conns -> SUBSET Conns]
        /\ view' \in [Conns -> [Conns -> Media]]
    BY <1>16, CallChanges, CallTypes
  <2>2. QED
    BY <1>0, <2>1 DEF TypeOK
<1>17. QED
  BY <1>2, <1>3, <1>4, <1>5, <1>6, <1>7, <1>8, <1>9, <1>10, <1>11, <1>12, <1>13, <1>14,
     <1>15, <1>16 DEF Step, Serve, Browse, Heard

(* A browser that hangs up says so last.                                    *)
LEMMA HangLife ==
    ASSUME MeetingInv, NEW c \in Conns, tab[c] = "open", HangUp(c), UNCHANGED <<room, group, con>>,
           NEW d \in Conns
    PROVE  Life(d)'
<1>0. Life(d)
  BY DEF MeetingInv
<1>1. CASE d = c
  <2>1. /\ tab'[c] = "gone" /\ calls'[c] = {}
        /\ up'[c] # <<>> /\ (StartsJoin(up'[c]) <=> First(c)) /\ JoinsFirst(up'[c])
        /\ EndsClose(up'[c])
    BY HangUpChanges
  <2>2. QED
    BY <1>0, <1>1, <2>1 DEF Life, First, Joined, Ended
<1>2. CASE d # c
  <2>1. tab'[d] = tab[d] /\ calls'[d] = calls[d] /\ up'[d] = up[d]
    BY <1>2, HangUpChanges
  <2>2. QED
    BY <1>0, <2>1 DEF Life, First, Joined
<1>3. QED
  BY <1>1, <1>2

(* Every step keeps the life of every connection in order.                  *)
LEMMA StepLife ==
    ASSUME MeetingInv, NEW c \in Conns, Step(c), NEW d \in Conns
    PROVE  Life(d)'
<1>0. Life(d) /\ Life(c)
  BY DEF MeetingInv
<1>1. CASE Connect(c)
  BY <1>0, <1>1, ConnectChanges DEF Life, First, Joined, Ended, Joining
<1>2. CASE Join(c)
  <2>1. CASE d = c
    <3>1. /\ UNCHANGED <<group, tab, calls>>
          /\ First(c) /\ ~StartsJoin(up'[c]) /\ JoinsFirst(up'[c])
          /\ HasClose(up'[c]) => HasClose(up[c])
          /\ EndsClose(up[c]) => EndsClose(up'[c])
          /\ con[c].at = "idle" /\ con'[c].at \in {"greet", "left"}
      BY <1>2, JoinChanges
    <3>2. c \in group /\ calls[c] = {} /\ tab[c] # "none"
      BY <1>0, <3>1 DEF Life, First, Joined
    <3>3. QED
      BY <1>0, <2>1, <3>1, <3>2 DEF Life, First, Joined, Ended, Joining
  <2>2. CASE d # c
    <3>1. /\ UNCHANGED <<group, tab, calls>> /\ up'[d] = up[d] /\ con'[d] = con[d]
          /\ d \in room' => d \in room
      BY <1>2, <2>2, JoinChanges
    <3>2. QED
      BY <1>0, <3>1 DEF Life, First, Joined
  <2>3. QED
    BY <2>1, <2>2
<1>3. CASE JoinSendLeft(c)
  BY <1>0, <1>3, JoinSendLeftChanges DEF Life, First, Joined, Ended, Joining
<1>4. CASE JoinSendForce(c)
  BY <1>0, <1>4, JoinSendForceChanges DEF Life, First, Joined, Ended, Joining
<1>5. CASE Greet(c)
  BY <1>0, <1>5, GreetChanges DEF Life, First, Joined, Ended, Joining
<1>6. CASE Announce(c)
  BY <1>0, <1>6, AnnounceChanges DEF Life, First, Joined, Ended, Joining
<1>7. CASE Relay(c)
  BY <1>0, <1>7, RelayChanges DEF Life, First, Joined, Ended, Joining
<1>8. CASE RelaySend(c)
  BY <1>0, <1>8, RelaySendChanges DEF Life, First, Joined, Ended, Joining
<1>9. CASE Disconnect(c)
  BY <1>0, <1>9, DisconnectChanges DEF Life, First, Joined, Ended, Joining
<1>10. CASE SendLeft(c)
  BY <1>0, <1>10, SendLeftChanges DEF Life, First, Joined, Ended, Joining
<1>11. CASE Discard(c)
  BY <1>0, <1>11, DiscardChanges DEF Life, First, Joined, Ended, Joining
<1>12. CASE Heard(c)
  <2>1. /\ UNCHANGED <<room, group, con, tab, calls>> /\ con[c].at = "idle"
        /\ d # c => up'[d] = up[d]
        /\ (StartsJoin(up'[c]) <=> First(c)) /\ JoinsFirst(up'[c])
        /\ HasClose(up'[c]) => HasClose(up[c])
        /\ tab[c] # "open" => up'[c] = up[c]
    BY <1>12, HeardChanges
  <2>2. CASE d = c
    BY <1>0, <2>1, <2>2 DEF Life, First, Joined
  <2>3. CASE d # c
    BY <1>0, <2>1, <2>3 DEF Life, First, Joined
  <2>4. QED
    BY <2>2, <2>3
<1>13. CASE ForceDisconnectEvent(c)
  <2>1. /\ UNCHANGED <<room, group, con>>
        /\ (tab[c] = "open" /\ HangUp(c)) \/ UNCHANGED <<up, tab, calls>>
    BY <1>13, ForceChanges
  <2>2. CASE UNCHANGED <<up, tab, calls>>
    BY <1>0, <2>1, <2>2 DEF Life, First, Joined
  <2>3. QED
    BY <2>1, <2>2, HangLife
<1>14. CASE Leave(c)
  BY <1>14, LeaveChanges, HangLife
<1>15. ASSUME NEW p \in Conns, Call(c, p) PROVE Life(d)'
  <2>1. \A x \in Conns : calls'[x] = IF x = c THEN calls[c] \ {p} ELSE calls[x]
    BY <1>15, CallChanges
  <2>2. \A x \in Conns : x # c => up'[x] = up[x]
    BY <1>15, CallChanges
  <2>3. UNCHANGED <<room, group, con, tab>>
    BY <1>15, CallChanges
  <2>4. tab[c] = "open" /\ Joined(c)
    BY <1>15, CallChanges
  <2>5. con[c].at \notin Joining
    BY <1>15, CallChanges
  <2>6. ~StartsJoin(up'[c]) /\ JoinsFirst(up'[c])
    BY <1>15, CallChanges
  <2>7. HasClose(up'[c]) => HasClose(up[c])
    BY <1>15, CallChanges
  <2>8. CASE d = c
    BY <1>0, <2>1, <2>3, <2>4, <2>5, <2>6, <2>7, <2>8 DEF Life, First, Joined
  <2>9. CASE d # c
    BY <1>0, <2>1, <2>2, <2>3, <2>9 DEF Life, First, Joined
  <2>10. QED
    BY <2>8, <2>9
<1>16. QED
  BY <1>1, <1>2, <1>3, <1>4, <1>5, <1>6, <1>7, <1>8,
     <1>9, <1>10, <1>11, <1>12, <1>13, <1>14, <1>15
  DEF Step, Serve, Browse, Heard

LEMMA StepHandling ==
    ASSUME MeetingInv, NEW c \in Conns, Step(c), NEW d \in Conns
    PROVE  Handling(d)'
<1>0. Handling(d)
  BY DEF MeetingInv
<1>1. CASE Connect(c)
  BY <1>0, <1>1, ConnectChanges DEF Handling
<1>2. CASE Join(c)
  BY <1>0, <1>2, JoinChanges DEF Handling
<1>3. CASE JoinSendLeft(c)
  BY <1>0, <1>3, JoinSendLeftChanges DEF Handling
<1>4. CASE JoinSendForce(c)
  BY <1>0, <1>4, JoinSendForceChanges DEF Handling
<1>5. CASE Greet(c)
  BY <1>0, <1>5, GreetChanges DEF Handling
<1>6. CASE Announce(c)
  BY <1>0, <1>6, AnnounceChanges DEF Handling
<1>7. CASE Relay(c)
  BY <1>0, <1>7, RelayChanges DEF Handling
<1>8. CASE RelaySend(c)
  BY <1>0, <1>8, RelaySendChanges DEF Handling
<1>9. CASE Disconnect(c)
  BY <1>0, <1>9, DisconnectChanges DEF Handling
<1>10. CASE SendLeft(c)
  BY <1>0, <1>10, SendLeftChanges DEF Handling
<1>11. CASE Discard(c)
  BY <1>0, <1>11, DiscardChanges DEF Handling
<1>12. CASE Heard(c)
  BY <1>0, <1>12, HeardChanges DEF Handling
<1>13. CASE ForceDisconnectEvent(c)
  BY <1>0, <1>13, ForceChanges, HangUpChanges DEF Handling
<1>14. CASE Leave(c)
  BY <1>0, <1>14, LeaveChanges, HangUpChanges DEF Handling
<1>15. ASSUME NEW p \in Conns, Call(c, p) PROVE Handling(d)'
  BY <1>0, <1>15, CallChanges DEF Handling
<1>16. QED
  BY <1>1, <1>2, <1>3, <1>4, <1>5, <1>6, <1>7, <1>8,
     <1>9, <1>10, <1>11, <1>12, <1>13, <1>14, <1>15
  DEF Step, Serve, Browse, Heard

(* Who has joined once never joins again.                                   *)
LEMMA JoinedStays ==
    ASSUME MeetingInv, NEW c \in Conns, Step(c), NEW d \in Conns, Joined(d)
    PROVE  Joined(d)'
<1>0. Life(d) /\ Life(c) /\ Joined(d)
  BY DEF MeetingInv
<1>1. CASE Connect(c)
  BY <1>0, <1>1, ConnectChanges DEF Life, First, Joined
<1>2. CASE Join(c)
  BY <1>0, <1>2, JoinChanges DEF Life, First, Joined
<1>3. CASE JoinSendLeft(c)
  BY <1>0, <1>3, JoinSendLeftChanges DEF Life, First, Joined
<1>4. CASE JoinSendForce(c)
  BY <1>0, <1>4, JoinSendForceChanges DEF Life, First, Joined
<1>5. CASE Greet(c)
  BY <1>0, <1>5, GreetChanges DEF Life, First, Joined
<1>6. CASE Announce(c)
  BY <1>0, <1>6, AnnounceChanges DEF Life, First, Joined
<1>7. CASE Relay(c)
  BY <1>0, <1>7, RelayChanges DEF Life, First, Joined
<1>8. CASE RelaySend(c)
  BY <1>0, <1>8, RelaySendChanges DEF Life, First, Joined
<1>9. CASE Disconnect(c)
  BY <1>0, <1>9, DisconnectChanges DEF Life, First, Joined
<1>10. CASE SendLeft(c)
  BY <1>0, <1>10, SendLeftChanges DEF Life, First, Joined
<1>11. CASE Discard(c)
  BY <1>0, <1>11, DiscardChanges DEF Life, First, Joined
<1>12. CASE Heard(c)
  BY <1>0, <1>12, HeardChanges DEF Life, First, Joined
<1>13. CASE ForceDisconnectEvent(c)
  BY <1>0, <1>13, ForceChanges, HangUpChanges DEF Life, First, Joined
<1>14. CASE Leave(c)
  BY <1>0, <1>14, LeaveChanges, HangUpChanges DEF Life, First, Joined
<1>15. ASSUME NEW p \in Conns, Call(c, p) PROVE Joined(d)'
  BY <1>0, <1>15, CallChanges DEF Life, First, Joined
<1>16. QED
  BY <1>1, <1>2, <1>3, <1>4, <1>5, <1>6, <1>7, <1>8,
     <1>9, <1>10, <1>11, <1>12, <1>13, <1>14, <1>15
  DEF Step, Serve, Browse, Heard

(* Nobody is put out of the room without being told.                        *)
LEMMA StepDisplaced ==
    ASSUME MeetingInv, NEW c \in Conns, Step(c), NEW d \in Conns
    PROVE  Displaced(d)'
<1>0. Displaced(d) /\ Life(d) /\ (Life(c) /\ Handling(c))
  BY DEF MeetingInv
<1>1. CASE Connect(c)
  <2>1. CASE d = c
    <3>1. StartsJoin(up'[c])
      BY <1>1, ConnectChanges
    <3>2. QED
      BY <2>1, <3>1 DEF Displaced, First
  <2>2. CASE d # c
    <3>1. tab'[d] = tab[d] /\ up'[d] = up[d]
      BY <1>1, <2>2, ConnectChanges
    <3>2. \A x \in Conns : con[x].at \in {"left", "force"} => con'[x] = con[x]
      BY <1>1, ConnectChanges
    <3>3. UNCHANGED <<room, inbox>>
      BY <1>1, ConnectChanges
    <3>4. QED
      BY <1>0, <3>1, <3>2, <3>3 DEF Displaced, First, Events
  <2>3. QED
    BY <2>1, <2>2
<1>2. CASE Join(c)
  <2>1. PICK old \in room \cup {None} :
            /\ UNCHANGED <<inbox, tab>> /\ con[c].at = "idle"
            /\ room' = (room \ {old}) \cup {c}
            /\ con'[c].at = IF old = None THEN "greet" ELSE "left"
            /\ con'[c].old = old
            /\ \A x \in Conns : x # c => con'[x] = con[x] /\ up'[x] = up[x]
    BY <1>2, JoinChanges
  <2>2. CASE d = c
    BY <2>1, <2>2 DEF Displaced
  <2>3. CASE d # c /\ d = old
    <3>1. d # None
      BY MeetingAssumption
    <3>2. con'[c].at \in {"left", "force"} /\ con'[c].old = d
      BY <2>1, <2>3, <3>1
    <3>3. QED
      BY <3>2 DEF Displaced
  <2>4. CASE d # c /\ d # old
    <3>1. \A x \in Conns : con[x].at \in {"left", "force"} => con'[x] = con[x]
      BY <2>1
    <3>2. QED
      BY <1>0, <2>1, <2>4, <3>1 DEF Displaced, First, Events
  <2>5. QED
    BY <2>2, <2>3, <2>4
<1>3. CASE JoinSendLeft(c)
  <2>1. UNCHANGED <<room, up, tab>> /\ con[c].at = "left"
    BY <1>3, JoinSendLeftChanges
  <2>2. \A x \in Conns : con'[x].at = IF x = c THEN "force" ELSE con[x].at
    BY <1>3, JoinSendLeftChanges
  <2>3. \A x \in Conns : con'[x].old = con[x].old
    BY <1>3, JoinSendLeftChanges
  <2>4. Events(d) \subseteq Events(d)'
    BY <1>3, JoinSendLeftChanges
  <2>5. QED
    BY <1>0, <2>1, <2>2, <2>3, <2>4 DEF Displaced, First
<1>4. CASE JoinSendForce(c)
  <2>1. UNCHANGED <<room, up, tab>> /\ con[c].at = "force"
    BY <1>4, JoinSendForceChanges
  <2>2. \A x \in Conns : con'[x].at = IF x = c THEN "greet" ELSE con[x].at
    BY <1>4, JoinSendForceChanges
  <2>3. \A x \in Conns : con'[x].old = con[x].old
    BY <1>4, JoinSendForceChanges
  <2>4. Events(d)' = IF d = con[c].old /\ con[d].at # "closed"
            THEN Events(d) \cup {[type |-> "force", peer |-> con[c].old]} ELSE Events(d)
    BY <1>4, JoinSendForceChanges
  <2>5. tab[d] = "open" => con[d].at # "closed"
    BY <1>0 DEF Life, Ended
  <2>6. CASE d = con[c].old /\ tab[d] = "open"
    <3>1. [type |-> "force", peer |-> con[c].old] \in Events(d)'
      BY <2>4, <2>5, <2>6
    <3>2. QED
      BY <3>1 DEF Displaced
  <2>7. CASE d # con[c].old \/ tab[d] # "open"
    BY <1>0, <2>1, <2>2, <2>3, <2>4, <2>7 DEF Displaced, First
  <2>8. QED
    BY <2>6, <2>7
<1>5. CASE Greet(c)
  <2>1. UNCHANGED <<room, up, tab>>
    BY <1>5, GreetChanges
  <2>2. \A x \in Conns : con[x].at \in {"left", "force"} =>
            con'[x].at = con[x].at /\ con'[x].old = con[x].old
    BY <1>5, GreetChanges
  <2>3. \A e \in Events(d) : e \in Events(d)' \/ e.type # "force" \/ tab[d] # "open"
    BY <1>0, <1>5, GreetChanges DEF Events
  <2>4. QED
    BY <1>0, <2>1, <2>2, <2>3 DEF Displaced, First
<1>6. CASE Announce(c)
  <2>1. UNCHANGED <<room, up, tab>>
    BY <1>6, AnnounceChanges
  <2>2. \A x \in Conns : con[x].at \in {"left", "force"} =>
            con'[x].at = con[x].at /\ con'[x].old = con[x].old
    BY <1>6, AnnounceChanges
  <2>3. \A e \in Events(d) : e \in Events(d)' \/ e.type # "force" \/ tab[d] # "open"
    BY <1>0, <1>6, AnnounceChanges
  <2>4. QED
    BY <1>0, <2>1, <2>2, <2>3 DEF Displaced, First
<1>7. CASE Relay(c)
  <2>1. UNCHANGED <<room, inbox, tab>> /\ con[c].at = "idle" /\ ~First(c)
    BY <1>7, RelayChanges
  <2>2. \A x \in Conns : x # c => con'[x] = con[x] /\ up'[x] = up[x]
    BY <1>7, RelayChanges
  <2>3. \A x \in Conns : con[x].at \in {"left", "force"} => con'[x] = con[x]
    BY <2>1, <2>2
  <2>4. First(d) => First(d)'
    BY <2>1, <2>2 DEF First
  <2>5. QED
    BY <1>0, <2>1, <2>3, <2>4 DEF Displaced, Events
<1>8. CASE RelaySend(c)
  <2>1. UNCHANGED <<room, up, tab>>
    BY <1>8, RelaySendChanges
  <2>2. \A x \in Conns : con[x].at \in {"left", "force"} =>
            con'[x].at = con[x].at /\ con'[x].old = con[x].old
    BY <1>8, RelaySendChanges
  <2>3. \A e \in Events(d) : e \in Events(d)' \/ e.type # "force" \/ tab[d] # "open"
    BY <1>0, <1>8, RelaySendChanges
  <2>4. QED
    BY <1>0, <2>1, <2>2, <2>3 DEF Displaced, First
<1>9. CASE Disconnect(c)
  <2>1. UNCHANGED <<inbox, tab>> /\ con[c].at = "idle" /\ tab[c] = "gone" /\ room' = room \ {c}
    BY <1>9, DisconnectChanges
  <2>2. \A x \in Conns : x # c => con'[x].at = con[x].at /\ up'[x] = up[x]
    BY <1>9, DisconnectChanges
  <2>3. \A x \in Conns : con'[x].old = con[x].old
    BY <1>9, DisconnectChanges
  <2>4. CASE d = c
    BY <2>1, <2>4 DEF Displaced
  <2>5. CASE d # c
    <3>1. \A x \in Conns : con[x].at \in {"left", "force"} =>
              con'[x].at = con[x].at /\ con'[x].old = con[x].old
      BY <2>1, <2>2, <2>3
    <3>2. QED
      BY <1>0, <2>1, <2>2, <2>5, <3>1 DEF Displaced, First, Events
  <2>6. QED
    BY <2>4, <2>5
<1>10. CASE SendLeft(c)
  <2>1. UNCHANGED <<room, up, tab>>
    BY <1>10, SendLeftChanges
  <2>2. \A x \in Conns : con[x].at \in {"left", "force"} =>
            con'[x].at = con[x].at /\ con'[x].old = con[x].old
    BY <1>10, SendLeftChanges
  <2>3. \A e \in Events(d) : e \in Events(d)' \/ e.type # "force" \/ tab[d] # "open"
    BY <1>0, <1>10, SendLeftChanges
  <2>4. QED
    BY <1>0, <2>1, <2>2, <2>3 DEF Displaced, First
<1>11. CASE Discard(c)
  <2>1. UNCHANGED <<room, up, tab>>
    BY <1>11, DiscardChanges
  <2>2. \A x \in Conns : con[x].at \in {"left", "force"} =>
            con'[x].at = con[x].at /\ con'[x].old = con[x].old
    BY <1>11, DiscardChanges
  <2>3. \A e \in Events(d) : e \in Events(d)' \/ e.type # "force" \/ tab[d] # "open"
    BY <1>0, <1>11, DiscardChanges DEF Life, Ended
  <2>4. QED
    BY <1>0, <2>1, <2>2, <2>3 DEF Displaced, First
<1>12. CASE Heard(c)
  <2>1. UNCHANGED <<room, con, tab>>
    BY <1>12, HeardChanges
  <2>2. \A e \in Events(d) : e \in Events(d)' \/ e.type # "force"
    BY <1>12, HeardChanges
  <2>3. First(d) => First(d)'
    BY <1>12, HeardChanges DEF First
  <2>4. QED
    BY <1>0, <2>1, <2>2, <2>3 DEF Displaced
<1>13. CASE ForceDisconnectEvent(c)
  <2>1. /\ UNCHANGED <<room, con>>
        /\ d # c => Events(d)' = Events(d)
    BY <1>13, ForceChanges
  <2>2. CASE tab[c] = "open" /\ HangUp(c)
    <3>1. \A x \in Conns : tab'[x] = IF x = c THEN "gone" ELSE tab[x]
      BY <2>2, HangUpChanges
    <3>2. \A x \in Conns : x # c => up'[x] = up[x]
      BY <2>2, HangUpChanges
    <3>3. CASE d = c
      BY <3>1, <3>3 DEF Displaced
    <3>4. CASE d # c
      BY <1>0, <2>1, <3>1, <3>2, <3>4 DEF Displaced, First, Events
    <3>5. QED
      BY <3>3, <3>4
  <2>3. CASE tab[c] # "open" /\ UNCHANGED <<up, tab>>
    BY <1>0, <2>1, <2>3 DEF Displaced, First
  <2>4. QED
    BY <1>13, <2>2, <2>3, ForceChanges
<1>14. CASE Leave(c)
  <2>1. UNCHANGED <<room, con, inbox>>
    BY <1>14, LeaveChanges
  <2>2. CASE tab[c] = "open" /\ HangUp(c)
    <3>1. \A x \in Conns : tab'[x] = IF x = c THEN "gone" ELSE tab[x]
      BY <2>2, HangUpChanges
    <3>2. \A x \in Conns : x # c => up'[x] = up[x]
      BY <2>2, HangUpChanges
    <3>3. CASE d = c
      BY <3>1, <3>3 DEF Displaced
    <3>4. CASE d # c
      BY <1>0, <2>1, <3>1, <3>2, <3>4 DEF Displaced, First, Events
    <3>5. QED
      BY <3>3, <3>4
  <2>3. QED
    BY <1>14, <2>2, LeaveChanges
<1>15. ASSUME NEW p \in Conns, Call(c, p) PROVE Displaced(d)'
  <2>1. UNCHANGED <<room, inbox, con, tab>>
    BY <1>15, CallChanges
  <2>2. \A x \in Conns : x # c => up'[x] = up[x]
    BY <1>15, CallChanges
  <2>3. ~First(c)
    BY <1>15, CallChanges DEF Joined
  <2>4. QED
    BY <1>0, <2>1, <2>2, <2>3 DEF Displaced, First, Events
<1>16. QED
  BY <1>1, <1>2, <1>3, <1>4, <1>5, <1>6, <1>7, <1>8,
     <1>9, <1>10, <1>11, <1>12, <1>13, <1>14, <1>15
  DEF Step, Serve, Browse, Heard

LEMMA CallView ==
    ASSUME MeetingInv, NEW c \in Conns, NEW r \in Conns, Call(c, r),
           NEW p \in Conns, NEW q \in Conns
    PROVE  /\ view'[p][q] = "calling" => (p = c /\ q = r) \/ view[p][q] = "calling"
           /\ view[p][q] # "none" => view'[p][q] # "none"
           /\ view'[c][r] = "calling"
<1>1. view' = [view EXCEPT ![c][r] = "calling"] /\ view \in [Conns -> [Conns -> Media]]
  BY DEF Call, MeetingInv, TypeOK
<1>2. QED
  BY <1>1

(* A browser gets someone to call only when it joins.                       *)
LEMMA LaterStays ==
    ASSUME MeetingInv, NEW c \in Conns, Step(c), NEW p \in Conns, NEW q \in Conns, Later(p, q)'
    PROVE  Later(p, q) \/ (Join(c) /\ p = c)
<1>0. Later(p, q)'
  OBVIOUS
<1>1. CASE Connect(c)
  BY <1>0, <1>1, ConnectChanges DEF Later
<1>2. CASE Join(c)
  BY <1>0, <1>2, JoinChanges DEF Later
<1>3. CASE JoinSendLeft(c)
  BY <1>0, <1>3, JoinSendLeftChanges DEF Later
<1>4. CASE JoinSendForce(c)
  BY <1>0, <1>4, JoinSendForceChanges DEF Later
<1>5. CASE Greet(c)
  BY <1>0, <1>5, GreetChanges DEF Later
<1>6. CASE Announce(c)
  BY <1>0, <1>6, AnnounceChanges DEF Later
<1>7. CASE Relay(c)
  BY <1>0, <1>7, RelayChanges DEF Later
<1>8. CASE RelaySend(c)
  BY <1>0, <1>8, RelaySendChanges DEF Later
<1>9. CASE Disconnect(c)
  BY <1>0, <1>9, DisconnectChanges DEF Later
<1>10. CASE SendLeft(c)
  BY <1>0, <1>10, SendLeftChanges DEF Later
<1>11. CASE Discard(c)
  BY <1>0, <1>11, DiscardChanges DEF Later
<1>12. CASE Heard(c)
  <2>1. PICK e \in Events(c) :
            /\ UNCHANGED <<con, calls>>
            /\ \A x, y \in Conns : x # c \/ y # e.peer => view'[x][y] = view[x][y]
            /\ view'[c][e.peer] = "calling" => view[c][e.peer] = "calling"
    BY <1>12, HeardChanges
  <2>2. view'[p][q] = "calling" => view[p][q] = "calling"
    <3>1. CASE p = c /\ q = e.peer
      BY <2>1, <3>1
    <3>2. CASE p # c \/ q # e.peer
      BY <2>1, <3>2
    <3>3. QED
      BY <3>1, <3>2
  <2>3. QED
    BY <1>0, <2>1, <2>2 DEF Later
<1>13. CASE ForceDisconnectEvent(c)
  BY <1>0, <1>13, ForceChanges, HangUpChanges DEF Later
<1>14. CASE Leave(c)
  BY <1>0, <1>14, LeaveChanges, HangUpChanges DEF Later
<1>15. ASSUME NEW r \in Conns, Call(c, r) PROVE Later(p, q) \/ (Join(c) /\ p = c)
  <2>1. UNCHANGED con /\ r \in calls[c]
    BY <1>15, CallChanges
  <2>2. \A x \in Conns : calls'[x] = IF x = c THEN calls[c] \ {r} ELSE calls[x]
    BY <1>15, CallChanges
  <2>3. view'[p][q] = "calling" => (p = c /\ q = r) \/ view[p][q] = "calling"
    BY <1>15, CallView
  <2>4. QED
    BY <1>0, <2>1, <2>2, <2>3 DEF Later
<1>16. QED
  BY <1>1, <1>2, <1>3, <1>4, <1>5, <1>6, <1>7, <1>8,
     <1>9, <1>10, <1>11, <1>12, <1>13, <1>14, <1>15
  DEF Step, Serve, Browse, Heard

LEMMA JoinFirst ==
    ASSUME MeetingInv, NEW c \in Conns, Join(c)
    PROVE  First(c)
BY ReceivesMail DEF Join, MeetingInv, First

(* Whom a joining connection finds is in the room, and is not itself.       *)
LEMMA JoinFinds ==
    ASSUME MeetingInv, NEW c \in Conns, Join(c)
    PROVE  UNCHANGED <<calls, view>> /\ c \notin room /\ con'[c].peers \subseteq room
<1>1. UNCHANGED <<calls, view>>
  BY DEF Join, browser
<1>2. c \notin room
  BY JoinChanges
<1>3. con'[c].peers \subseteq room
  BY JoinChanges
<1>4. QED
  BY <1>1, <1>2, <1>3

(* So of two who joined one after the other only the later one calls.       *)
LEMMA StepOrdered ==
    ASSUME MeetingInv, NEW c \in Conns, Step(c)
    PROVE  CallsOrdered'
<1> SUFFICES ASSUME NEW p \in Conns, NEW q \in Conns, Later(p, q)'
             PROVE  Joined(q)' /\ ~Later(q, p)'
  BY DEF CallsOrdered
<1>1. CallsOrdered
  BY DEF MeetingInv
<1>2. CASE Later(p, q) /\ Later(q, p)'
  <2>1. Joined(q) /\ ~Later(q, p)
    BY <1>1, <1>2 DEF CallsOrdered
  <2>2. Join(c) /\ q = c
    BY <1>2, <2>1, LaterStays
  <2>3. First(c)
    BY <2>2, JoinFirst
  <2>4. QED
    BY <2>1, <2>2, <2>3 DEF Joined
<1>3. CASE Later(p, q) /\ ~Later(q, p)'
  <2>1. Joined(q)
    BY <1>1, <1>3 DEF CallsOrdered
  <2>2. QED
    BY <1>3, <2>1, JoinedStays
<1>4. CASE ~Later(p, q)
  <2>0. Join(c)
    BY <1>4, LaterStays
  <2>1. p = c
    BY <1>4, LaterStays
  <2>2. UNCHANGED <<calls, view>> /\ c \notin room /\ con'[c].peers \subseteq room
    BY <2>0, JoinFinds
  <2>3. q \in room
    BY <1>4, <2>1, <2>2 DEF Later
  <2>4. Joined(q) /\ q # c
    BY <2>2, <2>3 DEF MeetingInv, Life
  <2>5. ~Joined(c)
    BY <2>0, JoinFirst DEF Joined
  <2>6. ~Later(q, p)
    BY <1>1, <2>1, <2>5 DEF CallsOrdered
  <2>7. ~Later(q, p)'
    BY <2>1, <2>4, <2>6, LaterStays
  <2>8. QED
    BY <2>4, <2>7, JoinedStays
<1>5. QED
  BY <1>2, <1>3, <1>4

(* Who has left does not come back.                                         *)
LEMMA PastStays ==
    ASSUME MeetingInv, NEW c \in Conns, Step(c), NEW q \in Conns, Past(q)
    PROVE  Past(q)'
<1>1. Joined(q)'
  BY JoinedStays DEF Past
<1>2. CASE Join(c)
  <2>1. First(c)
    BY <1>2, JoinFirst
  <2>2. q # c
    BY <2>1 DEF Past, Joined
  <2>3. q \notin room'
    BY <1>2, <2>2 DEF Join, Past
  <2>4. QED
    BY <1>1, <2>3 DEF Past
<1>3. CASE Disconnect(c)
  <2>1. q \notin room'
    BY <1>3 DEF Disconnect, Past
  <2>2. QED
    BY <1>1, <2>1 DEF Past
<1>4. CASE ~Join(c) /\ ~Disconnect(c)
  <2>1. UNCHANGED room
    BY <1>4, RoomStays DEF Step
  <2>2. QED
    BY <1>1, <2>1 DEF Past
<1>5. QED
  BY <1>2, <1>3, <1>4

(* What is said of those who left stays true if nothing new is said but of  *)
(* those who left.                                                          *)
LEMMA LeftStays ==
    ASSUME MeetingInv, NEW c \in Conns, Step(c),
           \A d \in Conns : con'[d].at = "left" =>
               \/ con[d].at = "left" /\ con'[d].old = con[d].old
               \/ \E q \in Conns : q = con'[d].old /\ Past(q)',
           \A d \in Conns : \A e \in Events(d)' :
               e \in Events(d) \/ e.type # "left" \/ \E q \in Conns : q = e.peer /\ Past(q)'
    PROVE  LeftForGood'
<1>0. TypeOK /\ LeftForGood
  BY DEF MeetingInv
<1>1. ASSUME NEW d \in Conns, con'[d].at = "left"
      PROVE  \E q \in Conns : q = con'[d].old /\ Past(q)'
  <2>1. CASE con[d].at = "left" /\ con'[d].old = con[d].old
    <3>1. con[d].old \in Conns /\ Past(con[d].old)
      BY <1>0, <2>1 DEF LeftForGood
    <3>2. PICK q \in Conns : q = con[d].old
      BY <3>1
    <3>3. Past(q)'
      BY <3>1, <3>2, PastStays
    <3>4. QED
      BY <2>1, <3>2, <3>3
  <2>2. QED
    BY <1>1, <2>1
<1>2. ASSUME NEW d \in Conns, NEW e \in Events(d)', e.type = "left"
      PROVE  \E q \in Conns : q = e.peer /\ Past(q)'
  <2>1. CASE e \in Events(d)
    <3>1. e.peer \in Conns /\ Past(e.peer)
      BY <1>0, <1>2, <2>1 DEF LeftForGood
    <3>2. PICK q \in Conns : q = e.peer
      BY <3>1
    <3>3. Past(q)'
      BY <3>1, <3>2, PastStays
    <3>4. QED
      BY <3>2, <3>3
  <2>2. QED
    BY <1>2, <2>1
<1>3. QED
  BY <1>1, <1>2 DEF LeftForGood

(* Whoever a consumer or a waiting event says has left is out of the room   *)
(* and does not come back.                                                  *)
LEMMA StepLeft ==
    ASSUME MeetingInv, NEW c \in Conns, Step(c)
    PROVE  LeftForGood'
<1>1. CASE Connect(c)
  <2>1. \A d \in Conns : con'[d].at = "left" => con[d].at = "left" /\ con'[d].old = con[d].old
    <3>1. \A d \in Conns : d # c => con'[d] = con[d]
      BY <1>1, ConnectChanges
    <3>2. con'[c].at # "left"
      BY <1>1, ConnectChanges
    <3>3. QED
      BY <3>1, <3>2
  <2>2. \A d \in Conns : \A e \in Events(d)' : e \in Events(d) \/ e.type # "left"
    <3>1. UNCHANGED inbox
      BY <1>1, ConnectChanges
    <3>2. QED
      BY <3>1 DEF Events
  <2>3. QED
    BY <2>1, <2>2, LeftStays
<1>2. CASE Join(c)
  <2>1. PICK old \in room \cup {None} :
            /\ UNCHANGED <<inbox, tab>> /\ con[c].at = "idle"
            /\ room' = (room \ {old}) \cup {c}
            /\ con'[c].at = IF old = None THEN "greet" ELSE "left"
            /\ con'[c].old = old
            /\ \A x \in Conns : x # c => con'[x] = con[x] /\ up'[x] = up[x]
    BY <1>2, JoinChanges
  <2>2. c \notin room
    BY <1>2, JoinFinds
  <2>3. ASSUME old # None
        PROVE  \E q \in Conns : q = old /\ Past(q)'
    <3>1. old \in room /\ old \in Conns /\ Joined(old)
      BY <2>3 DEF MeetingInv, TypeOK, Life
    <3>2. PICK q \in Conns : q = old
      BY <3>1
    <3>3. Joined(q)'
      BY <3>1, <3>2, JoinedStays
    <3>4. q \notin room'
      BY <2>1, <2>2, <3>1, <3>2
    <3>5. QED
      BY <3>2, <3>3, <3>4 DEF Past
  <2>4. \A d \in Conns : con'[d].at = "left" =>
            \/ con[d].at = "left" /\ con'[d].old = con[d].old
            \/ \E q \in Conns : q = con'[d].old /\ Past(q)'
    BY <2>1, <2>3
  <2>5. \A d \in Conns : \A e \in Events(d)' : e \in Events(d) \/ e.type # "left"
    BY <2>1 DEF Events
  <2>6. QED
    BY <2>4, <2>5, LeftStays
<1>3. CASE JoinSendLeft(c)
  <2>1. PICK out \in Conns : out = con[c].old /\ Past(out)
    <3>1. con[c].at = "left"
      BY <1>3, JoinSendLeftChanges
    <3>2. QED
      BY <3>1 DEF MeetingInv, LeftForGood
  <2>2. Past(out)'
    BY <2>1, PastStays
  <2>3. \A d \in Conns : Events(d)' \subseteq Events(d) \cup {[type |-> "left", peer |-> out]}
    BY <1>3, <2>1, JoinSendLeftChanges
  <2>4. \A d \in Conns : \A e \in Events(d)' :
            e \in Events(d) \/ e.type # "left" \/ \E q \in Conns : q = e.peer /\ Past(q)'
    BY <2>2, <2>3
  <2>5. \A d \in Conns : con'[d].at = "left" => con[d].at = "left" /\ con'[d].old = con[d].old
    <3>1. \A d \in Conns : d # c => con'[d].at = con[d].at
      BY <1>3, JoinSendLeftChanges
    <3>2. con'[c].at # "left"
      BY <1>3, JoinSendLeftChanges
    <3>3. \A d \in Conns : con'[d].old = con[d].old
      BY <1>3, JoinSendLeftChanges
    <3>4. QED
      BY <3>1, <3>2, <3>3
  <2>6. QED
    BY <2>4, <2>5, LeftStays
<1>4. CASE JoinSendForce(c)
  <2>1. \A d \in Conns : con'[d].at = "left" => con[d].at = "left" /\ con'[d].old = con[d].old
    <3>1. \A d \in Conns : d # c => con'[d].at = con[d].at
      BY <1>4, JoinSendForceChanges
    <3>2. con'[c].at # "left"
      BY <1>4, JoinSendForceChanges
    <3>3. \A d \in Conns : con'[d].old = con[d].old
      BY <1>4, JoinSendForceChanges
    <3>4. QED
      BY <3>1, <3>2, <3>3
  <2>2. \A d \in Conns : \A e \in Events(d)' : e \in Events(d) \/ e.type # "left"
    BY <1>4, JoinSendForceChanges
  <2>3. QED
    BY <2>1, <2>2, LeftStays
<1>5. CASE Greet(c)
  <2>1. \A d \in Conns : con'[d].at = "left" => con[d].at = "left" /\ con'[d].old = con[d].old
    <3>1. \A d \in Conns : d # c => con'[d].at = con[d].at
      BY <1>5, GreetChanges
    <3>2. con'[c].at # "left"
      BY <1>5, GreetChanges
    <3>3. \A d \in Conns : con'[d].old = con[d].old
      BY <1>5, GreetChanges
    <3>4. QED
      BY <3>1, <3>2, <3>3
  <2>2. \A d \in Conns : \A e \in Events(d)' : e \in Events(d) \/ e.type # "left"
    <3>1. UNCHANGED inbox
      BY <1>5, GreetChanges
    <3>2. QED
      BY <3>1 DEF Events
  <2>3. QED
    BY <2>1, <2>2, LeftStays
<1>6. CASE Announce(c)
  <2>1. \A d \in Conns : con'[d].at = "left" => con[d].at = "left" /\ con'[d].old = con[d].old
    <3>1. \A d \in Conns : d # c => con'[d] = con[d]
      BY <1>6, AnnounceChanges
    <3>2. con'[c].at # "left"
      BY <1>6, AnnounceChanges
    <3>3. QED
      BY <3>1, <3>2
  <2>2. \A d \in Conns : \A e \in Events(d)' : e \in Events(d) \/ e.type # "left"
    BY <1>6, AnnounceChanges
  <2>3. QED
    BY <2>1, <2>2, LeftStays
<1>7. CASE Relay(c)
  <2>1. \A d \in Conns : con'[d].at = "left" => con[d].at = "left" /\ con'[d].old = con[d].old
    <3>1. \A d \in Conns : d # c => con'[d] = con[d]
      BY <1>7, RelayChanges
    <3>2. con'[c] = con[c] \/ con'[c].at # "left"
      BY <1>7, RelayChanges
    <3>3. QED
      BY <3>1, <3>2
  <2>2. \A d \in Conns : \A e \in Events(d)' : e \in Events(d) \/ e.type # "left"
    <3>1. UNCHANGED inbox
      BY <1>7, RelayChanges
    <3>2. QED
      BY <3>1 DEF Events
  <2>3. QED
    BY <2>1, <2>2, LeftStays
<1>8. CASE RelaySend(c)
  <2>1. \A d \in Conns : con'[d].at = "left" => con[d].at = "left" /\ con'[d].old = con[d].old
    <3>1. \A d \in Conns : d # c => con'[d] = con[d]
      BY <1>8, RelaySendChanges
    <3>2. con'[c].at # "left"
      BY <1>8, RelaySendChanges
    <3>3. QED
      BY <3>1, <3>2
  <2>2. \A d \in Conns : \A e \in Events(d)' : e \in Events(d) \/ e.type # "left"
    <3>1. PICK e \in Event : /\ e.type \in {"offer", "answer"}
                          /\ \A d \in Conns : Events(d)' \in {Events(d), Events(d) \cup {e}}
      BY <1>8, RelaySendChanges
    <3>2. e.type # "left"
      BY <3>1
    <3>3. QED
      BY <3>1, <3>2
  <2>3. QED
    BY <2>1, <2>2, LeftStays
<1>9. CASE Disconnect(c)
  <2>1. \A d \in Conns : con'[d].at = "left" => con[d].at = "left" /\ con'[d].old = con[d].old
    <3>1. \A d \in Conns : d # c => con'[d].at = con[d].at
      BY <1>9, DisconnectChanges
    <3>2. con'[c].at # "left"
      BY <1>9, DisconnectChanges
    <3>3. \A d \in Conns : con'[d].old = con[d].old
      BY <1>9, DisconnectChanges
    <3>4. QED
      BY <3>1, <3>2, <3>3
  <2>2. \A d \in Conns : \A e \in Events(d)' : e \in Events(d) \/ e.type # "left"
    <3>1. UNCHANGED inbox
      BY <1>9, DisconnectChanges
    <3>2. QED
      BY <3>1 DEF Events
  <2>3. QED
    BY <2>1, <2>2, LeftStays
<1>10. CASE SendLeft(c)
  <2>1. con[c].at = "leave"
    BY <1>10, SendLeftChanges
  <2>2. Past(c)
    BY <2>1 DEF MeetingInv, Life, Ended, Past, Joined
  <2>3. Past(c)'
    BY <2>2, PastStays
  <2>4. \A d \in Conns : Events(d)' \subseteq Events(d) \cup {[type |-> "left", peer |-> c]}
    BY <1>10, SendLeftChanges
  <2>5. \A d \in Conns : \A e \in Events(d)' :
            e \in Events(d) \/ e.type # "left" \/ \E q \in Conns : q = e.peer /\ Past(q)'
    BY <2>3, <2>4
  <2>6. \A d \in Conns : con'[d].at = "left" => con[d].at = "left" /\ con'[d].old = con[d].old
    <3>1. \A d \in Conns : d # c => con'[d].at = con[d].at
      BY <1>10, SendLeftChanges
    <3>2. con'[c].at # "left"
      BY <1>10, SendLeftChanges
    <3>3. \A d \in Conns : con'[d].old = con[d].old
      BY <1>10, SendLeftChanges
    <3>4. QED
      BY <3>1, <3>2, <3>3
  <2>7. QED
    BY <2>5, <2>6, LeftStays
<1>11. CASE Discard(c)
  <2>1. \A d \in Conns : con'[d].at = "left" => con[d].at = "left" /\ con'[d].old = con[d].old
    <3>1. \A d \in Conns : d # c => con'[d].at = con[d].at
      BY <1>11, DiscardChanges
    <3>2. con'[c].at # "left"
      BY <1>11, DiscardChanges
    <3>3. \A d \in Conns : con'[d].old = con[d].old
      BY <1>11, DiscardChanges
    <3>4. QED
      BY <3>1, <3>2, <3>3
  <2>2. \A d \in Conns : \A e \in Events(d)' : e \in Events(d) \/ e.type # "left"
    <3>1. \A d \in Conns : Events(d)' \subseteq Events(d)
      BY <1>11, DiscardChanges
    <3>2. QED
      BY <3>1
  <2>3. QED
    BY <2>1, <2>2, LeftStays
<1>12. CASE Heard(c)
  <2>1. \A d \in Conns : con'[d].at = "left" => con[d].at = "left" /\ con'[d].old = con[d].old
    <3>1. UNCHANGED con
      BY <1>12, HeardChanges
    <3>2. QED
      BY <3>1
  <2>2. \A d \in Conns : \A e \in Events(d)' : e \in Events(d) \/ e.type # "left"
    <3>1. \A d \in Conns : Events(d)' \subseteq Events(d)
      BY <1>12, HeardChanges
    <3>2. QED
      BY <3>1
  <2>3. QED
    BY <2>1, <2>2, LeftStays
<1>13. CASE ForceDisconnectEvent(c)
  <2>1. \A d \in Conns : con'[d].at = "left" => con[d].at = "left" /\ con'[d].old = con[d].old
    <3>1. UNCHANGED con
      BY <1>13, ForceChanges
    <3>2. QED
      BY <3>1
  <2>2. \A d \in Conns : \A e \in Events(d)' : e \in Events(d) \/ e.type # "left"
    <3>1. \A d \in Conns : Events(d)' \subseteq Events(d)
      BY <1>13, ForceChanges
    <3>2. QED
      BY <3>1
  <2>3. QED
    BY <2>1, <2>2, LeftStays
<1>14. CASE Leave(c)
  <2>1. \A d \in Conns : con'[d].at = "left" => con[d].at = "left" /\ con'[d].old = con[d].old
    <3>1. UNCHANGED con
      BY <1>14, LeaveChanges
    <3>2. QED
      BY <3>1
  <2>2. \A d \in Conns : \A e \in Events(d)' : e \in Events(d) \/ e.type # "left"
    <3>1. UNCHANGED inbox
      BY <1>14, LeaveChanges
    <3>2. QED
      BY <3>1 DEF Events
  <2>3. QED
    BY <2>1, <2>2, LeftStays
<1>15. ASSUME NEW r \in Conns, Call(c, r) PROVE LeftForGood'
  <2>1. \A d \in Conns : con'[d].at = "left" => con[d].at = "left" /\ con'[d].old = con[d].old
    <3>1. UNCHANGED con
      BY <1>15, CallChanges
    <3>2. QED
      BY <3>1
  <2>2. \A d \in Conns : \A e \in Events(d)' : e \in Events(d) \/ e.type # "left"
    <3>1. UNCHANGED inbox
      BY <1>15, CallChanges
    <3>2. QED
      BY <3>1 DEF Events
  <2>3. QED
    BY <2>1, <2>2, LeftStays
<1>16. QED
  BY <1>1, <1>2, <1>3, <1>4, <1>5, <1>6, <1>7, <1>8,
     <1>9, <1>10, <1>11, <1>12, <1>13, <1>14, <1>15
  DEF Step, Serve, Browse, Heard

LEMMA CallQueue ==
    ASSUME MeetingInv, NEW c \in Conns, NEW r \in Conns, Call(c, r), NEW p \in Conns
    PROVE  calls[p] \subseteq calls'[p] \cup {r} /\ (p # c => calls'[p] = calls[p])
<1>1. calls' = [calls EXCEPT ![c] = @ \ {r}] /\ calls \in [Conns -> SUBSET Conns]
  BY DEF Call, MeetingInv, TypeOK
<1>2. QED
  BY <1>1

(* Of two in the room the one with an open page keeps knowing the other, or *)
(* keeps waiting for the news.                                              *)
LEMMA StepKnown ==
    ASSUME MeetingInv, NEW c \in Conns, Step(c)
    PROVE  AllKnown'
<1> SUFFICES ASSUME NEW p \in Conns, NEW q \in Conns,
                    p \in room', q \in room', p # q, tab'[p] = "open"
             PROVE  Knows(p, q)'
  <2>1. room' \subseteq Conns
    BY StepTypes DEF TypeOK
  <2>2. QED
    BY <2>1 DEF AllKnown
<1>0. p \in room' /\ q \in room' /\ p # q /\ tab'[p] = "open"
  OBVIOUS
<1>1. CASE Connect(c)
  <2>1. /\ UNCHANGED <<room, inbox, calls, view>>
        /\ con[c].at = "none"
        /\ \A x \in Conns : x # c => con'[x] = con[x] /\ tab'[x] = tab[x]
    BY <1>1, ConnectChanges
  <2>2. p # c /\ q # c
    BY <1>0, <2>1 DEF MeetingInv, Life, Joined
  <2>3. Knows(p, q)
    BY <1>0, <2>1, <2>2 DEF MeetingInv, AllKnown
  <2>4. QED
    BY <2>1, <2>2, <2>3 DEF Knows, Events
<1>2. CASE Join(c)
  <2>1. PICK old \in room \cup {None} :
            /\ UNCHANGED <<inbox, tab, calls, view>> /\ con[c].at = "idle"
            /\ room' = (room \ {old}) \cup {c}
            /\ con'[c].at = IF old = None THEN "greet" ELSE "left"
            /\ con'[c].peers = room \ {old}
            /\ \A x \in Conns : x # c => con'[x] = con[x]
    BY <1>2, JoinChanges
  <2>2. con'[c].at \in Joining
    BY <2>1 DEF Joining
  <2>3. CASE p = c
    <3>1. q \in con'[p].peers /\ con'[p].at \in Joining
      BY <1>0, <2>1, <2>2, <2>3
    <3>2. QED
      BY <3>1 DEF Knows, Joining
  <2>4. CASE q = c
    BY <2>2, <2>4 DEF Knows
  <2>5. CASE p # c /\ q # c
    <3>1. p \in room /\ q \in room /\ tab[p] = "open"
      BY <1>0, <2>1, <2>5
    <3>2. Knows(p, q)
      BY <1>0, <3>1 DEF MeetingInv, AllKnown
    <3>3. QED
      BY <2>1, <2>5, <3>2 DEF Knows, Events
  <2>6. QED
    BY <2>3, <2>4, <2>5
<1>3. CASE JoinSendLeft(c)
  <2>1. UNCHANGED <<room, tab, calls, view>> /\ con[c].at = "left"
    BY <1>3, JoinSendLeftChanges
  <2>2. \A x \in Conns : con'[x].at = IF x = c THEN "force" ELSE con[x].at
    BY <1>3, JoinSendLeftChanges
  <2>3. \A x \in Conns : con'[x].peers = con[x].peers
    BY <1>3, JoinSendLeftChanges
  <2>4. Knows(p, q)
    BY <1>0, <2>1 DEF MeetingInv, AllKnown
  <2>5. Events(p) \subseteq Events(p)'
    <3>1. \A x \in Conns : Events(x)' = IF x \in group
              THEN Events(x) \cup {[type |-> "left", peer |-> con[c].old]} ELSE Events(x)
      BY <1>3, JoinSendLeftChanges
    <3>2. QED
      BY <3>1
  <2>6. QED
    BY <2>1, <2>2, <2>3, <2>4, <2>5 DEF Knows, Joining
<1>4. CASE JoinSendForce(c)
  <2>1. UNCHANGED <<room, tab, calls, view>> /\ con[c].at = "force"
    BY <1>4, JoinSendForceChanges
  <2>2. \A x \in Conns : con'[x].at = IF x = c THEN "greet" ELSE con[x].at
    BY <1>4, JoinSendForceChanges
  <2>3. \A x \in Conns : con'[x].peers = con[x].peers
    BY <1>4, JoinSendForceChanges
  <2>4. Knows(p, q)
    BY <1>0, <2>1 DEF MeetingInv, AllKnown
  <2>5. Events(p) \subseteq Events(p)'
    BY <1>4, JoinSendForceChanges
  <2>6. QED
    BY <2>1, <2>2, <2>3, <2>4, <2>5 DEF Knows, Joining
<1>5. CASE Greet(c)
  <2>1. UNCHANGED <<room, inbox, tab, view>> /\ con[c].at = "greet"
    BY <1>5, GreetChanges
  <2>2. \A x \in Conns : con'[x].at = IF x = c THEN "announce" ELSE con[x].at
    BY <1>5, GreetChanges
  <2>3. \A x \in Conns : con'[x].peers = con[x].peers
    BY <1>5, GreetChanges
  <2>4. Knows(p, q)
    BY <1>0, <2>1 DEF MeetingInv, AllKnown
  <2>5. Events(p) \subseteq Events(p)'
    BY <2>1 DEF Events
  <2>6. calls[c] = {}
    BY <1>5, GreetChanges
  <2>7. \A x \in Conns : x # c => calls'[x] = calls[x]
    BY <1>5, GreetChanges
  <2>8. tab[c] = "open" => calls'[c] = con[c].peers
    BY <1>5, GreetChanges
  <2>9. CASE p = c
    BY <1>0, <2>1, <2>2, <2>3, <2>4, <2>5, <2>6, <2>8, <2>9 DEF Knows, Joining
  <2>10. CASE p # c
    BY <2>1, <2>2, <2>3, <2>4, <2>5, <2>7, <2>10 DEF Knows, Joining
  <2>11. QED
    BY <2>9, <2>10
<1>6. CASE Announce(c)
  <2>1. UNCHANGED <<room, group, tab, calls, view>> /\ con[c].at = "announce"
    BY <1>6, AnnounceChanges
  <2>2. \A x \in Conns : x # c => con'[x] = con[x]
    BY <1>6, AnnounceChanges
  <2>3. Knows(p, q)
    BY <1>0, <2>1 DEF MeetingInv, AllKnown
  <2>4. \A x \in Conns : Events(x)' = IF x \in group \ {c}
            THEN Events(x) \cup {[type |-> "joined", peer |-> c]} ELSE Events(x)
    BY <1>6, AnnounceChanges
  <2>5. CASE q = c
    <3>1. p \in room
      BY <1>0, <2>1
    <3>2. p \in group
      BY <3>1 DEF MeetingInv, Life, Joined, Ended
    <3>3. [type |-> "joined", peer |-> q] \in Events(p)'
      BY <1>0, <2>4, <2>5, <3>2
    <3>4. QED
      BY <3>3 DEF Knows
  <2>6. CASE q # c
    <3>1. Events(p) \subseteq Events(p)'
      BY <2>4
    <3>2. con'[q] = con[q]
      BY <2>2, <2>6
    <3>3. con[p].at \in Joining => con'[p] = con[p]
      BY <2>1, <2>2 DEF Joining
    <3>4. QED
      BY <2>1, <2>3, <3>1, <3>2, <3>3 DEF Knows
  <2>7. QED
    BY <2>5, <2>6
<1>7. CASE Relay(c)
  <2>1. UNCHANGED <<room, tab, calls, view>> /\ con[c].at = "idle"
    BY <1>7, RelayChanges
  <2>2. \A x \in Conns : x # c => con'[x] = con[x]
    BY <1>7, RelayChanges
  <2>3. Knows(p, q)
    BY <1>0, <2>1 DEF MeetingInv, AllKnown
  <2>4. Events(p) \subseteq Events(p)'
    <3>1. UNCHANGED inbox
      BY <1>7, RelayChanges
    <3>2. QED
      BY <3>1 DEF Events
  <2>5. \A x \in Conns : con[x].at \in Joining \cup {"announce"} => con'[x] = con[x]
    BY <2>1, <2>2 DEF Joining
  <2>6. QED
    BY <2>1, <2>3, <2>4, <2>5 DEF Knows
<1>8. CASE RelaySend(c)
  <2>1. UNCHANGED <<room, tab, calls, view>> /\ con[c].at = "relay"
    BY <1>8, RelaySendChanges
  <2>2. \A x \in Conns : x # c => con'[x] = con[x]
    BY <1>8, RelaySendChanges
  <2>3. Knows(p, q)
    BY <1>0, <2>1 DEF MeetingInv, AllKnown
  <2>4. Events(p) \subseteq Events(p)'
    <3>1. PICK e \in Event : \A d \in Conns : Events(d)' \in {Events(d), Events(d) \cup {e}}
      BY <1>8, RelaySendChanges
    <3>2. QED
      BY <3>1
  <2>5. \A x \in Conns : con[x].at \in Joining \cup {"announce"} => con'[x] = con[x]
    BY <2>1, <2>2 DEF Joining
  <2>6. QED
    BY <2>1, <2>3, <2>4, <2>5 DEF Knows
<1>9. CASE Disconnect(c)
  <2>1. /\ UNCHANGED <<inbox, tab, calls, view>> /\ room' = room \ {c}
        /\ con[c].at = "idle"
    BY <1>9, DisconnectChanges
  <2>2. \A x \in Conns : x # c => con'[x].at = con[x].at
    BY <1>9, DisconnectChanges
  <2>3. \A x \in Conns : con'[x].peers = con[x].peers
    BY <1>9, DisconnectChanges
  <2>4. Knows(p, q)
    BY <1>0, <2>1 DEF MeetingInv, AllKnown
  <2>5. p # c /\ q # c
    BY <1>0, <2>1
  <2>6. QED
    BY <2>1, <2>2, <2>3, <2>4, <2>5 DEF Knows, Events
<1>10. CASE SendLeft(c)
  <2>1. UNCHANGED <<room, tab, calls, view>> /\ con[c].at = "leave"
    BY <1>10, SendLeftChanges
  <2>2. \A x \in Conns : con'[x].at = IF x = c THEN "discard" ELSE con[x].at
    BY <1>10, SendLeftChanges
  <2>3. \A x \in Conns : con'[x].peers = con[x].peers
    BY <1>10, SendLeftChanges
  <2>4. Knows(p, q)
    BY <1>0, <2>1 DEF MeetingInv, AllKnown
  <2>5. Events(p) \subseteq Events(p)'
    BY <1>10, SendLeftChanges
  <2>6. QED
    BY <2>1, <2>2, <2>3, <2>4, <2>5 DEF Knows, Joining
<1>11. CASE Discard(c)
  <2>1. UNCHANGED <<room, tab, calls, view>> /\ con[c].at = "discard"
    BY <1>11, DiscardChanges
  <2>2. \A x \in Conns : con'[x].at = IF x = c THEN "closed" ELSE con[x].at
    BY <1>11, DiscardChanges
  <2>3. \A x \in Conns : con'[x].peers = con[x].peers
    BY <1>11, DiscardChanges
  <2>4. \A x \in Conns : x # c => Events(x)' = Events(x)
    BY <1>11, DiscardChanges
  <2>5. c \notin room
    BY <2>1 DEF MeetingInv, Life, Ended
  <2>6. Knows(p, q) /\ p # c /\ q # c
    BY <1>0, <2>1, <2>5 DEF MeetingInv, AllKnown
  <2>7. QED
    BY <2>1, <2>2, <2>3, <2>4, <2>6 DEF Knows
<1>12. CASE Heard(c)
  <2>1. PICK e \in Events(c) :
            /\ UNCHANGED <<room, con, tab, calls>>
            /\ \A x \in Conns : x # c => Events(x)' = Events(x)
            /\ Events(c) \subseteq Events(c)' \cup {e}
            /\ \A x, y \in Conns : x # c \/ y # e.peer => view'[x][y] = view[x][y]
            /\ e.type # "left" /\ view[c][e.peer] # "none" => view'[c][e.peer] # "none"
            /\ e.type = "joined" /\ tab[c] = "open" => view'[c][e.peer] # "none"
    BY <1>12, HeardChanges
  <2>2. Knows(p, q) /\ q \in room /\ tab[p] = "open"
    BY <1>0, <2>1 DEF MeetingInv, AllKnown
  <2>3. CASE p # c
    BY <2>1, <2>2, <2>3 DEF Knows
  <2>4. CASE p = c
    <3>1. e.type = "left" => e.peer # q
      BY <2>2 DEF MeetingInv, LeftForGood, Past
    <3>2. view[p][q] # "none" => view'[p][q] # "none"
      <4>1. CASE q = e.peer
        BY <2>1, <2>4, <3>1, <4>1
      <4>2. CASE q # e.peer
        BY <2>1, <2>4, <4>2
      <4>3. QED
        BY <4>1, <4>2
    <3>3. [type |-> "joined", peer |-> q] \in Events(p) =>
              [type |-> "joined", peer |-> q] \in Events(p)' \/ view'[p][q] # "none"
      <4> SUFFICES ASSUME [type |-> "joined", peer |-> q] \in Events(p),
                          [type |-> "joined", peer |-> q] \notin Events(p)'
                   PROVE  view'[p][q] # "none"
        OBVIOUS
      <4>1. e = [type |-> "joined", peer |-> q]
        BY <2>1, <2>4
      <4>2. e.type = "joined" /\ e.peer = q
        BY <4>1
      <4>3. QED
        BY <2>1, <2>2, <2>4, <4>2
    <3>4. QED
      BY <2>1, <2>2, <3>2, <3>3 DEF Knows
  <2>5. QED
    BY <2>3, <2>4
<1>13. CASE ForceDisconnectEvent(c)
  <2>1. UNCHANGED <<room, con>>
    BY <1>13, ForceChanges
  <2>2. \A x \in Conns : x # c => Events(x)' = Events(x)
    BY <1>13, ForceChanges
  <2>3. \A e \in Events(c) : e \in Events(c)' \/ e.type = "force"
    BY <1>13, ForceChanges
  <2>4. CASE tab[c] = "open" /\ HangUp(c)
    <3>1. \A x \in Conns : tab'[x] = IF x = c THEN "gone" ELSE tab[x]
      BY <2>4, HangUpChanges
    <3>2. p # c /\ tab[p] = "open"
      BY <1>0, <3>1
    <3>3. \A x \in Conns : x # c => calls'[x] = calls[x]
      BY <2>4, HangUpChanges
    <3>4. \A x, y \in Conns : x # c => view'[x][y] = view[x][y]
      BY <2>4, HangUpChanges
    <3>5. Knows(p, q)
      BY <1>0, <2>1, <3>2 DEF MeetingInv, AllKnown
    <3>6. Events(p)' = Events(p)
      BY <2>2, <3>2
    <3>7. QED
      BY <2>1, <3>2, <3>3, <3>4, <3>5, <3>6 DEF Knows
  <2>5. CASE UNCHANGED <<tab, calls, view>>
    <3>1. Knows(p, q)
      BY <1>0, <2>1, <2>5 DEF MeetingInv, AllKnown
    <3>2. [type |-> "joined", peer |-> q] \in Events(p) =>
              [type |-> "joined", peer |-> q] \in Events(p)'
      <4>1. [type |-> "joined", peer |-> q].type = "joined"
        OBVIOUS
      <4>2. QED
        BY <2>2, <2>3, <4>1
    <3>3. QED
      BY <2>1, <2>5, <3>1, <3>2 DEF Knows
  <2>6. QED
    BY <1>13, <2>4, <2>5, ForceChanges
<1>14. CASE Leave(c)
  <2>1. UNCHANGED <<room, con>>
    BY <1>14, LeaveChanges
  <2>2. UNCHANGED inbox
    BY <1>14, LeaveChanges
  <2>3. CASE tab[c] = "open" /\ HangUp(c)
    <3>1. \A x \in Conns : tab'[x] = IF x = c THEN "gone" ELSE tab[x]
      BY <2>3, HangUpChanges
    <3>2. p # c /\ tab[p] = "open"
      BY <1>0, <3>1
    <3>3. \A x \in Conns : x # c => calls'[x] = calls[x]
      BY <2>3, HangUpChanges
    <3>4. \A x, y \in Conns : x # c => view'[x][y] = view[x][y]
      BY <2>3, HangUpChanges
    <3>5. Knows(p, q)
      BY <1>0, <2>1, <3>2 DEF MeetingInv, AllKnown
    <3>6. Events(p)' = Events(p)
      BY <2>2, <3>2 DEF Events
    <3>7. QED
      BY <2>1, <3>2, <3>3, <3>4, <3>5, <3>6 DEF Knows
  <2>4. QED
    BY <1>14, <2>3, LeaveChanges
<1>15. ASSUME NEW r \in Conns, Call(c, r) PROVE Knows(p, q)'
  <2>1. UNCHANGED <<room, inbox, con, tab>>
    BY <1>15, CallChanges
  <2>2. calls[p] \subseteq calls'[p] \cup {r} /\ (p # c => calls'[p] = calls[p])
    BY <1>15, CallQueue
  <2>3. view[p][q] # "none" => view'[p][q] # "none"
    BY <1>15, CallView
  <2>4. p = c /\ q = r => view'[p][q] # "none"
    <3>1. view'[c][r] = "calling"
      BY <1>15, CallView
    <3>2. QED
      BY <3>1
  <2>5. Knows(p, q)
    BY <1>0, <2>1 DEF MeetingInv, AllKnown
  <2>6. QED
    BY <2>1, <2>2, <2>3, <2>4, <2>5 DEF Knows, Events
<1>16. QED
  BY <1>1, <1>2, <1>3, <1>4, <1>5, <1>6, <1>7, <1>8,
     <1>9, <1>10, <1>11, <1>12, <1>13, <1>14, <1>15
  DEF Step, Serve, Browse, Heard
-----------------------------------------------------------------------------
LEMMA InitMeeting == Init => MeetingInv
<1> SUFFICES ASSUME Init PROVE MeetingInv
  OBVIOUS
<1>1. /\ room = {} /\ group = {} /\ seat = [u \in Users |-> None]
      /\ inbox = [c \in Conns |-> <<>>] /\ up = [c \in Conns |-> <<>>]
      /\ con = [c \in Conns |-> Resting("none")]
      /\ tab = [c \in Conns |-> "none"] /\ calls = [c \in Conns |-> {}]
      /\ view = [c \in Conns |-> Nobody]
  BY DEF Init
<1>2. /\ Resting("none") \in Consumer
      /\ Resting("none").at = "none" /\ Resting("none").old = None
      /\ Resting("none").peers = {} /\ Resting("none").out = {}
  <2>1. "none" \in Stages
    BY DEF Stages
  <2>2. QED
    BY <2>1, RestingRecord
<1>3. Nobody \in [Conns -> Media] /\ \A q \in Conns : Nobody[q] = "none"
  BY DEF Nobody, Media
<1>4. TypeOK
  BY <1>1, <1>2, <1>3 DEF TypeOK, TabState
<1>5. SeatInv
  BY <1>1 DEF SeatInv, SeatsOwned, RoomIsSeats
<1>6. ASSUME NEW c \in Conns PROVE Life(c) /\ Handling(c) /\ Displaced(c) /\ Events(c) = {}
  <2>1. /\ tab[c] = "none" /\ up[c] = <<>> /\ inbox[c] = <<>> /\ calls[c] = {}
        /\ con[c].at = "none" /\ con[c].out = {}
    BY <1>1, <1>2
  <2>2. ~First(c) /\ JoinsFirst(up[c]) /\ ~HasClose(up[c])
    BY <2>1 DEF First, StartsJoin, JoinsFirst, HasClose
  <2>3. Life(c)
    BY <1>1, <2>1, <2>2 DEF Life, Ended
  <2>4. Handling(c) /\ Displaced(c)
    BY <2>1 DEF Handling, Displaced
  <2>5. Events(c) = {}
    BY <2>1 DEF Events, Contents
  <2>6. QED
    BY <2>3, <2>4, <2>5
<1>7. LeftForGood
  BY <1>1, <1>2, <1>6 DEF LeftForGood
<1>8. CallsOrdered
  <2>1. ASSUME NEW p \in Conns, NEW q \in Conns PROVE ~Later(p, q)
    BY <1>1, <1>2, <1>3 DEF Later
  <2>2. QED
    BY <2>1 DEF CallsOrdered
<1>9. AllKnown
  BY <1>1 DEF AllKnown
<1>10. QED
  BY <1>4, <1>5, <1>6, <1>7, <1>8, <1>9 DEF MeetingInv

LEMMA MeetingStays == MeetingInv /\ UNCHANGED vars => MeetingInv'
<1> SUFFICES ASSUME MeetingInv, UNCHANGED vars PROVE MeetingInv'
  OBVIOUS
<1>1. UNCHANGED <<room, seat, group, inbox, up, con, tab, calls, view>>
  BY DEF vars
<1>2. \A c \in Conns : UNCHANGED <<Events(c), First(c)>>
  BY <1>1 DEF Events, First
<1>3. TypeOK' /\ SeatInv'
  BY <1>1 DEF MeetingInv, TypeOK, SeatInv, SeatsOwned, RoomIsSeats
<1>4. \A c \in Conns : Life(c)'
  BY <1>1 DEF MeetingInv, Life, Joined, First
<1>5. \A c \in Conns : Handling(c)' /\ Displaced(c)'
  BY <1>1 DEF MeetingInv, Handling, Displaced, First, Events
<1>6. LeftForGood'
  BY <1>1 DEF MeetingInv, LeftForGood, Past, Joined, First, Events
<1>7. CallsOrdered'
  BY <1>1 DEF MeetingInv, CallsOrdered, Later, Joined, First
<1>8. AllKnown'
  BY <1>1 DEF MeetingInv, AllKnown, Knows, Events
<1>9. QED
  BY <1>3, <1>4, <1>5, <1>6, <1>7, <1>8 DEF MeetingInv

LEMMA NextMeeting == MeetingInv /\ [Next]_vars => MeetingInv'
<1> SUFFICES ASSUME MeetingInv, [Next]_vars PROVE MeetingInv'
  OBVIOUS
<1>1. ASSUME NEW c \in Conns, Step(c) PROVE MeetingInv'
  <2>1. SeatInv'
    BY <1>1, JoinKeepsSeats, DisconnectKeepsSeats, OthersKeepSeats DEF MeetingInv, Step, Serve
  <2>2. TypeOK'
    BY <1>1, StepTypes
  <2>3. \A d \in Conns : Life(d)' /\ Handling(d)' /\ Displaced(d)'
    BY <1>1, StepLife, StepHandling, StepDisplaced
  <2>4. LeftForGood' /\ CallsOrdered' /\ AllKnown'
    BY <1>1, StepLeft, StepOrdered, StepKnown
  <2>5. QED
    BY <2>1, <2>2, <2>3, <2>4 DEF MeetingInv
<1>2. CASE Rest \/ UNCHANGED vars
  BY <1>2, MeetingStays DEF Rest
<1>3. QED
  BY <1>1, <1>2 DEF Next, Step

LEMMA MeetingAlways == Spec => []MeetingInv
BY InitMeeting, NextMeeting, PTL DEF Spec

(* Every consumer, browser and message of the room has its type: a handler  *)
(* never sends a peer_id or a stage that is not one (consumers.py, room.html). *)
THEOREM RoomTyped == Spec => []TypeOK
<1>1. MeetingInv => TypeOK
  BY DEF MeetingInv
<1>2. QED
  BY <1>1, MeetingAlways, PTL

(* Two browsers never both call each other, whatever joins overlap: the one *)
(* that joined later, and found the other in the room, calls                *)
(* (consumers.py, existing_peers; room.html, "joined" and "offer").         *)
THEOREM CallsNeverCross == Spec => []OneCaller
<1>1. MeetingInv => OneCaller
  BY DEF MeetingInv, OneCaller, CallsOrdered, Later
<1>2. QED
  BY <1>1, MeetingAlways, PTL

(* Once all messages are handled, a page that was closed is in no room and  *)
(* in no group, wherever its consumer was when the close came: the close is *)
(* the last message and is not lost (consumers.py, disconnect).             *)
THEOREM GoneIsOut == Spec => []GoneLeaves
<1>1. MeetingInv => GoneLeaves
  <2> SUFFICES ASSUME MeetingInv, Calm, NEW c \in Conns, tab[c] = "gone"
               PROVE  c \notin room \cup group
    BY DEF GoneLeaves
  <2>1. Life(c) /\ up[c] = <<>> /\ con[c].at \in {"none", "idle", "closed"}
    BY DEF MeetingInv, Calm
  <2>2. con[c].at \in Ended
    BY <2>1 DEF Life, EndsClose
  <2>3. con[c].at = "closed"
    BY <2>1, <2>2 DEF Ended
  <2>4. QED
    BY <2>1, <2>3 DEF Life, Ended
<1>2. QED
  BY <1>1, MeetingAlways, PTL

(* Once all messages are handled, a page that is still open is in the room: *)
(* only a newer connection of its user puts it out, and that one tells it   *)
(* to close (consumers.py, _dispatch "join" and force_disconnect).          *)
THEOREM OpenIsThere == Spec => []OpenIsIn
<1>1. MeetingInv => OpenIsIn
  <2> SUFFICES ASSUME MeetingInv, Calm, NEW c \in Conns, tab[c] = "open"
               PROVE  c \in room
    BY DEF OpenIsIn
  <2>1. Displaced(c) /\ up[c] = <<>> /\ inbox[c] = <<>>
    BY DEF MeetingInv, Calm
  <2>2. ~First(c) /\ Events(c) = {}
    BY <2>1 DEF First, StartsJoin, Events, Contents
  <2>3. \A d \in Conns : con[d].at \notin {"left", "force"}
    BY DEF Calm
  <2>4. QED
    BY <2>1, <2>2, <2>3 DEF Displaced
<1>2. QED
  BY <1>1, MeetingAlways, PTL

(* Once all messages are handled, everyone in the room shows everyone else  *)
(* in it, however their joins, reloads and goodbyes overlapped: who joins   *)
(* calls those he found, and they hear of him before or after               *)
(* (consumers.py, existing_peers and peer_joined; room.html).               *)
THEOREM EveryoneSeen == Spec => []NobodyMissing
<1>1. MeetingInv => NobodyMissing
  <2> SUFFICES ASSUME MeetingInv, Calm, NEW p \in room, NEW q \in room, p # q
               PROVE  view[p][q] # "none"
    BY DEF NobodyMissing
  <2>1. p \in Conns /\ q \in Conns /\ Life(p)
    BY DEF MeetingInv, TypeOK
  <2>2. /\ con[p].at \in {"none", "idle", "closed"} /\ con[q].at \in {"none", "idle", "closed"}
        /\ up[p] = <<>> /\ inbox[p] = <<>> /\ calls[p] = {}
    BY <2>1 DEF Calm
  <2>3. tab[p] = "open"
    <3>1. tab[p] # "none" /\ con[p].at \notin Ended /\ ~EndsClose(up[p])
      BY <2>1, <2>2 DEF Life, Joined, EndsClose
    <3>2. tab[p] \in TabState
      BY <2>1 DEF MeetingInv, TypeOK
    <3>3. QED
      BY <2>1, <3>1, <3>2 DEF Life, TabState
  <2>4. Knows(p, q) /\ Events(p) = {}
    BY <2>2, <2>3 DEF MeetingInv, AllKnown, Events, Contents
  <2>5. QED
    BY <2>2, <2>4 DEF Knows, Joining
<1>2. QED
  BY <1>1, MeetingAlways, PTL
=============================================================================
