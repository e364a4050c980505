--------------------------- MODULE PresenceClient ---------------------------
(***************************************************************************)
(* What a page knows of the other devices (web services/network.ts): the   *)
(* devices nearby, the room it is in and the devices there, as the         *)
(* messages of the signaling server change them. Lists are functions from  *)
(* a device to the name and model it was announced with.                   *)
(***************************************************************************)
EXTENDS Naturals, Sequences

CONSTANT NoRoom     \* currentRoomCode is null

\* Map.set and Map.delete
With(f, x, v) == [y \in DOMAIN f \cup {x} |-> IF y = x THEN v ELSE f[y]]
Without(f, x) == [y \in DOMAIN f \ {x} |-> f[y]]

Lonely == [nearby |-> <<>>, room |-> NoRoom, mates |-> <<>>]

\* The messages of the server about devices; `about' is a device, `sig' how it
\* is announced, `list' a function from devices to that.
GroupPresence(list)       == [type |-> "group-presence", list |-> list]
PeerDiscovered(d, sig)    == [type |-> "peer-discovered", about |-> d, sig |-> sig]
PeerLeft(d)               == [type |-> "peer-left", about |-> d]
RoomCreated(code)         == [type |-> "room-created", room |-> code]
RoomJoined(code, list)    == [type |-> "room-joined", room |-> code, list |-> list]
PeerJoinedRoom(d, sig)    == [type |-> "peer-joined-room", about |-> d, sig |-> sig]
PeerLeftRoom(d)           == [type |-> "peer-left-room", about |-> d]
RoomLeft                  == [type |-> "room-left"]

\* A device is announced: it replaces the ones that look the same, nearby by
\* name and model, in a room by name alone: they are the `alike' ones.
Replacing(list, m, alike) ==
  With([o \in {o \in DOMAIN list : o = m.about \/ o \notin alike} |-> list[o]], m.about, m.sig)

\* handleSignalingEnvelope, for the messages about devices and rooms.
HandleEnvelope(v, m) ==
  CASE m.type = "group-presence"   -> [v EXCEPT !.nearby = m.list]
    [] m.type = "peer-discovered"  ->
         [v EXCEPT !.nearby = Replacing(@, m, {o \in DOMAIN @ : @[o] = m.sig})]
    [] m.type = "peer-left"        -> [v EXCEPT !.nearby = Without(@, m.about)]
    [] m.type = "room-created"     -> [v EXCEPT !.room = m.room]
    [] m.type = "room-joined"      -> [v EXCEPT !.room = m.room, !.mates = m.list]
    [] m.type = "peer-joined-room" ->
         [v EXCEPT !.mates = Replacing(@, m, {o \in DOMAIN @ : @[o].name = m.sig.name})]
    [] m.type = "peer-left-room"   -> [v EXCEPT !.mates = Without(@, m.about)]
    [] m.type = "room-left"        -> [v EXCEPT !.room = NoRoom, !.mates = <<>>]

\* The messages that reach d of those a handler sends, in order.
HandleAll(v, d, posts) ==
  LET after[i \in 0 .. Len(posts)] ==
        IF i = 0 THEN v
        ELSE IF d \in posts[i].to THEN HandleEnvelope(after[i - 1], posts[i].msg)
        ELSE after[i - 1] IN
  after[Len(posts)]
=============================================================================
