------------------------------- MODULE Rooms -------------------------------
(***************************************************************************)
(* RoomManager (signaling rooms/index.ts): rooms of devices that know a    *)
(* code. The methods are operators on the map of rooms, r.                 *)
(*                                                                         *)
(* `life' is how long a room has: idle is an hour without activity, old a  *)
(* day since its creation. The limit on failed attempts to join a room is  *)
(* in JoinLimiter.                                                         *)
(***************************************************************************)
EXTENDS Naturals, FiniteSets, Functions

CONSTANT RoomMaxPeers     \* ROOM_MAX_PEERS

ASSUME RoomMaxPeersAssumption == RoomMaxPeers \in Nat \ {0}

CreateRoom(r, code, d, locked) ==
  [c \in DOMAIN r \cup {code} |->
     IF c = code THEN [peers |-> {d}, locked |-> locked, life |-> "active"] ELSE r[c]]

DropRooms(r, codes) == [c \in DOMAIN r \ codes |-> r[c]]

\* Activity: an idle room has another hour, an old one stays old.
Touched(room, peers) ==
  [room EXCEPT !.peers = peers, !.life = IF @ = "old" THEN @ ELSE "active"]

Full(room, d) == Cardinality(room.peers) >= RoomMaxPeers /\ d \notin room.peers

\* joinRoom succeeds
CanJoin(r, code, d, knows) ==
  /\ code \in DOMAIN r
  /\ r[code].life = "active"
  /\ r[code].locked => knows
  /\ ~Full(r[code], d)

\* joinRoom: an expired room is deleted on the way.
JoinRoom(r, code, d, knows) ==
  IF CanJoin(r, code, d, knows)
  THEN [r EXCEPT ![code] = Touched(@, @.peers \cup {d})]
  ELSE DropRooms(r, {c \in {code} \cap DOMAIN r : r[c].life # "active"})

\* leaveRoom: the last one closes the room.
LeaveRoom(r, code, d) ==
  IF code \notin DOMAIN r THEN r
  ELSE IF r[code].peers \ {d} = {} THEN DropRooms(r, {code})
  ELSE [r EXCEPT ![code] = Touched(@, @.peers \ {d})]

RoomsOf(r, d) == {c \in DOMAIN r : d \in r[c].peers}

PruneExpiredRooms(r) == DropRooms(r, {c \in DOMAIN r : r[c].life # "active"})

=============================================================================
