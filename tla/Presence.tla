------------------------------ MODULE Presence ------------------------------
(***************************************************************************)
(* Pages that find each other through the signaling server: they connect   *)
(* over a socket, an event stream or polls, join, probe, move to another   *)
(* network, fail and come back; the server closes what it finds dead and   *)
(* drops a device after its grace period. A message arrives in the step    *)
(* that sends it, but for stray ones: what a connection that is no longer  *)
(* used still delivers, and turbo lanes.                                   *)
(***************************************************************************)
EXTENDS SignalingServer

CONSTANTS
  Codes,        \* room codes
  Places,       \* a function from the names of places to what one finds there
  Home,         \* where each device is at first
  Hops,         \* the server's TRUST_PROXY_HOPS: none, or one number
  MaxIds,       \* connections of a device the server has not closed yet
  MaxStray,     \* stray messages
  Pairs,        \* of devices, the ones the liveness properties are about
  Scenes        \* who does what: a behaviour is of one scene

VARIABLES
  groups,       \* the LocalGroupIndex
  rooms,        \* the map of the RoomManager
  conns,        \* the connections of the Gateway
  open,         \* the sockets and streams of a device the server holds open
  link,         \* the connection a page uses
  place,        \* where a device is
  probed,       \* the place its last probe was made at
  view,         \* what it knows of the others
  missed,       \* history: its last list of those nearby did not reach it
  unwatched,    \* history: a contact whose end the server does not see kept it
  stray,        \* number of stray messages
  scene

serverVars == <<groups, rooms, conns, open>>
vars == <<groups, rooms, conns, open, link, place, probed, view, missed, unwatched, stray, scene>>

Nowhere == "nowhere"      \* a page that has not probed
Ip == [p \in DOMAIN Places |-> VerifiedClientIp(Places[p].request, Hops)]

\* The keys of a device whose messages come from place p: alone, and with the
\* reports of a probe made at q.
KeysFrom == [p \in DOMAIN Places |-> NetworkKeySet(Ip[p], {})]
KeysWith ==
  [p \in DOMAIN Places |-> [q \in DOMAIN Places \cup {Nowhere} |->
     NetworkKeySet(Ip[p], IF q = Nowhere THEN {LocalLan} ELSE ProbedKeys(Places[q]))]]

\* What is true of any network and any page.
ASSUME PresenceAssumption ==
  /\ MaxIds \in Nat /\ MaxStray \in Nat
  /\ Home \in [Devices -> DOMAIN Places]
  /\ \A p \in DOMAIN Places : \A q \in DOMAIN Places \cup {Nowhere} : KeysWith[p][q] \subseteq Keys
  /\ \A d \in Devices : /\ Sig[d] = [name |-> Sig[d].name, model |-> Sig[d].model]
                        /\ RoomPeerSig[d] = [name |-> RoomPeerSig[d].name, model |-> RoomPeerSig[d].model]
  /\ \A s \in Scenes : s.strays \subseteq s.active /\ s.locks \subseteq BOOLEAN
  /\ Pairs \subseteq {p \in Devices \X Devices : p[1] # p[2]}

Conns == [transport : {"ws", "sse"}, id : 1 .. MaxIds, at : DOMAIN Places]
Links == Conns \cup {Poll(p) : p \in DOMAIN Places} \cup {NoConn}

SessionOK(s) ==
  /\ s.keys \subseteq Keys
  /\ s.ip \in {Ip[p] : p \in DOMAIN Places}
  /\ s.timer \in BOOLEAN
  /\ s.stale \in BOOLEAN

\* Every variable has its type.
TypeOK ==
  /\ Registered(groups) \subseteq Devices
  /\ \A d \in Registered(groups) : SessionOK(groups.devices[d])
  /\ groups.keyToDevices \subseteq Keys \X Devices
  /\ DOMAIN rooms \subseteq Codes
  /\ \A c \in DOMAIN rooms : rooms[c].peers \subseteq Devices
  /\ conns \in [Devices -> Links]
  /\ open \in [Devices -> SUBSET Conns]
  /\ link \in [Devices -> Links]
  /\ place \in [Devices -> DOMAIN Places]
  /\ probed \in [Devices -> DOMAIN Places \cup {Nowhere}]
  /\ missed \in [Devices -> BOOLEAN]
  /\ unwatched \in [Devices -> BOOLEAN]
  /\ stray \in 0 .. MaxStray
  /\ scene \in Scenes

Init ==
  /\ groups = NoGroups
  /\ rooms = <<>>
  /\ conns = [d \in Devices |-> NoConn]
  /\ open = [d \in Devices |-> {}]
  /\ link = [d \in Devices |-> NoConn]
  /\ place = Home
  /\ view = [d \in Devices |-> Lonely]
  /\ missed = [d \in Devices |-> FALSE]
  /\ unwatched = [d \in Devices |-> FALSE]
  /\ stray = 0
  /\ scene \in Scenes
  /\ probed = [d \in Devices |-> IF d \in scene.fresh THEN Nowhere ELSE Home[d]]

-----------------------------------------------------------------------------
Online(d) == link[d] # NoConn

\* The messages a handler sends reach the pages whose connection is registered; a
\* page that is sent its list over a connection it does not use misses it.
Heard(links, out) ==
  [d \in Devices |-> IF Reaches(conns', links, d) THEN HandleAll(view[d], d, out) ELSE view[d]]

ListSent(d, out) ==
  \E i \in DOMAIN out : d \in out[i].to /\ out[i].msg.type = "group-presence"

Deliver(links, out) ==
  /\ view' = Heard(links, out)
  /\ missed' = [d \in Devices |-> IF ListSent(d, out) THEN ~Reaches(conns', links, d) ELSE missed[d]]

\* Devices of which another one of the same hardware is known, or any device.
Newest ==
  LET twins == {d \in Registered(groups) : \E o \in Registered(groups) \ {d} :
                  Sig[d] = Sig[o]} IN
  IF twins = {} THEN {CHOOSE d \in Devices : TRUE} ELSE twins

\* What comes over a socket, and a request that polls, registers the connection, a
\* POST only one for a device that has none. The server does not see the end of a
\* poll.
Contact(d, c) ==
  /\ conns' = RegisterConnection(conns, d, c)
  /\ unwatched' = [unwatched EXCEPT ![d] = c.transport = "poll"]

Post(d) ==
  IF conns[d] = NoConn THEN Contact(d, Poll(place[d])) ELSE UNCHANGED <<conns, unwatched>>

\* A message of a page that is connected
UsualContact(d) ==
  /\ Online(d)
  /\ IF link[d].transport = "ws" THEN Contact(d, link[d]) ELSE Post(d)

\* The page connects: a socket and its first message, a stream and the POST behind
\* it, or a POST behind which it polls (LongPoll): until then a connection that is
\* registered already stays so, dead as it may be. It joins, and joins again the
\* room it believes to be in.
Connect(d, transport) ==
  /\ ~Online(d)
  /\ d \in scene.active
  /\ transport \in scene.transports
  /\ \E c \in (IF transport = "poll" THEN {Poll(place[d])}
               ELSE {e \in Conns : /\ e.transport = transport
                                   /\ e.at = place[d]
                                   /\ e.id = CHOOSE i \in 1 .. MaxIds + 1 :
                                        /\ \A o \in open[d] : o.id # i
                                        /\ \A j \in 1 .. i - 1 : \E o \in open[d] : o.id = j}) :
     /\ link' = [link EXCEPT ![d] = c]
     /\ open' = [open EXCEPT ![d] = @ \cup ({c} \cap Conns)]
     /\ IF transport = "poll" THEN Post(d) ELSE Contact(d, c)
  /\ groups' = JoinGroups(groups, d, Ip[place[d]], KeysWith[place[d]][probed[d]])
  /\ LET code == view[d].room IN
     /\ rooms' = IF code = NoRoom THEN rooms
                 ELSE JoinRoomRooms(groups', rooms, code, d, FALSE)
     /\ \E out \in {JoinOut(groups, groups', rooms, d, newest) : newest \in Newest} :
          Deliver(link', IF code = NoRoom THEN out
                         ELSE out \o JoinRoomOut(groups', rooms, rooms', code, d, FALSE))
  /\ UNCHANGED <<place, probed, stray, scene>>

\* pollLoop: one request after the other, each of which ends the grace period and
\* takes the place of whatever connection was registered.
LongPoll(d) ==
  /\ link[d].transport = "poll"
  /\ Contact(d, link[d])
  /\ groups' = CancelDisconnect(groups, d)
  /\ UNCHANGED <<rooms, open, link, place, probed, view, missed, stray, scene>>

\* A probe ends, of those a page makes every 15 s and when its network changes,
\* and the page joins again.
Reprobe(d) ==
  /\ UsualContact(d)
  /\ probed' = [probed EXCEPT ![d] = place[d]]
  /\ groups' = JoinGroups(groups, d, Ip[place[d]], KeysWith[place[d]][place[d]])
  /\ \E out \in {JoinOut(groups, groups', rooms, d, newest) : newest \in Newest} :
       Deliver(link, out)
  /\ UNCHANGED <<rooms, open, link, place, stray, scene>>

\* The heartbeat
Ping(d) ==
  /\ UsualContact(d)
  /\ groups' = PingGroups(groups, d, Ip[place[d]], KeysFrom[place[d]])
  /\ \E out \in {PresenceOut(groups', d, newest) : newest \in Newest} : Deliver(link, out)
  /\ UNCHANGED <<rooms, open, link, place, probed, stray, scene>>

\* The user asks for a rescan, or changes the profile.
Rescan(d) ==
  /\ UsualContact(d)
  /\ d \in scene.rescans
  /\ \/ groups' = RescanGroups(groups, d, Ip[place[d]], KeysWith[place[d]][probed[d]])
     \/ groups' = ProfileGroups(groups, d, Ip[place[d]], KeysFrom[place[d]])
  /\ \E out \in {PresenceOut(groups', d, newest) : newest \in Newest} :
       Deliver(link, out \o RoomsOut(groups', rooms, d))
  /\ UNCHANGED <<rooms, open, link, place, probed, stray, scene>>

-----------------------------------------------------------------------------
\* createRoom of the page, and `create-room' of the server.
StartRoom(d, code) ==
  /\ UsualContact(d)
  /\ d \in scene.roomers
  /\ code \notin DOMAIN rooms
  /\ groups' = CreateGroups(groups, d, Ip[place[d]], KeysFrom[place[d]])
  /\ \E locked \in scene.locks : rooms' = CreateRoom(rooms, code, d, locked)
  /\ Deliver(link, <<To({d}, RoomCreated(code))>>)
  /\ UNCHANGED <<open, link, place, probed, stray, scene>>

\* joinRoom of the page, with the password or without it; an attempt the limit
\* on failures does not allow changes no room.
EnterRoom(d, code) ==
  /\ UsualContact(d)
  /\ d \in scene.roomers
  /\ groups' = ProfileGroups(groups, d, Ip[place[d]], KeysFrom[place[d]])
  /\ \E knows \in BOOLEAN :
       \/ /\ rooms' = JoinRoomRooms(groups', rooms, code, d, knows)
          /\ \E out \in {JoinRoomOut(groups', rooms, rooms', code, d, knows)} : Deliver(link, out)
       \/ rooms' = rooms /\ Deliver(link, <<>>)
  /\ UNCHANGED <<open, link, place, probed, stray, scene>>

\* leaveRoom of the page: it has left at once, and says so if it is connected.
LeftTheRoom(v, d) == [v EXCEPT ![d].room = NoRoom, ![d].mates = <<>>]

ExitRoom(d) ==
  /\ view[d].room # NoRoom
  /\ d \in scene.roomers
  /\ \/ /\ UsualContact(d)
        /\ groups' = CancelDisconnect(groups, d)
        /\ rooms' = LeaveRoom(rooms, view[d].room, d)
        /\ LET codes == {view[d].room} \cap DOMAIN rooms
               out   == Append(LeaveOut(rooms, codes, d), To({d}, RoomLeft)) IN
           view' = LeftTheRoom(Heard(link, out), d)
     \/ /\ ~Online(d)
        /\ view' = LeftTheRoom(view, d)
        /\ UNCHANGED <<groups, rooms, conns, unwatched>>
  /\ UNCHANGED <<open, link, place, probed, missed, stray, scene>>

\* A room has had no activity for an hour, or is a day old; every minute such
\* rooms are deleted, without a word to those in them.
AgeRoom(code) ==
  /\ code \in DOMAIN rooms
  /\ scene.ageing
  /\ rooms[code].life # "old"
  /\ \E life \in {"idle", "old"} : rooms' = [rooms EXCEPT ![code].life = life]
  /\ UNCHANGED <<groups, conns, open, link, place, probed, view, missed, unwatched, stray, scene>>

PruneRooms ==
  /\ rooms' = PruneExpiredRooms(rooms)
  /\ rooms' # rooms
  /\ UNCHANGED <<groups, conns, open, link, place, probed, view, missed, unwatched, stray, scene>>

-----------------------------------------------------------------------------
\* The page loses its connection, which the server does not see yet: it keeps
\* what it knows, or is closed.
Drop(d) ==
  /\ Online(d)
  /\ d \in scene.leavers
  /\ link' = [link EXCEPT ![d] = NoConn]
  /\ \E v \in {view[d], Lonely} : view' = [view EXCEPT ![d] = v]
  /\ UNCHANGED <<serverVars, place, probed, missed, unwatched, stray, scene>>

\* The device moves, or its hotspot is switched: a new address ends its
\* connection, but for polls, which go on from there.
Move(d, p) ==
  /\ d \in scene.movers
  /\ p # place[d]
  /\ place' = [place EXCEPT ![d] = p]
  /\ link' = IF Ip[p] = Ip[place[d]] THEN link
             ELSE [link EXCEPT ![d] = IF @.transport = "poll" THEN Poll(p) ELSE NoConn]
  /\ UNCHANGED <<serverVars, probed, view, missed, unwatched, stray, scene>>

\* The server sees a connection end (at the latest its pings find it dead).
Close(d, c) ==
  /\ c \in open[d]
  /\ ~SameConn(c, link[d])
  /\ open' = [open EXCEPT ![d] = @ \ {c}]
  /\ IF ClosesSession(conns, d, c)
     THEN /\ conns' = RemoveConnection(conns, d)
          /\ groups' = ScheduleDisconnect(groups, d)
     ELSE UNCHANGED <<conns, groups>>
  /\ UNCHANGED <<rooms, link, place, probed, view, missed, unwatched, stray, scene>>

\* disconnectTimer fires.
Depart(d) ==
  /\ d \in Registered(groups)
  /\ groups.devices[d].timer
  /\ groups' = RemoveDevice(groups, d)
  /\ rooms' = LeaveAll(rooms, RoomsOf(rooms, d), d)
  /\ UNCHANGED conns
  /\ \E out \in {DepartOut(groups, rooms, d, newest) : newest \in Newest} : Deliver(link, out)
  /\ UNCHANGED <<open, link, place, probed, unwatched, stray, scene>>

\* Nothing was heard of a device for 8 s.
GrowStale(d) ==
  /\ d \in Registered(groups)
  /\ d \in scene.silent
  /\ ~groups.devices[d].stale
  /\ groups' = Update(groups, d, [groups.devices[d] EXCEPT !.stale = TRUE])
  /\ UNCHANGED <<rooms, conns, open, link, place, probed, view, missed, unwatched, stray, scene>>

-----------------------------------------------------------------------------
Stray(d) ==
  /\ d \in scene.strays
  /\ stray < MaxStray
  /\ stray' = stray + 1

\* A ping that a socket still delivers after the page has given it up, or that
\* was posted.
LatePing(d, c) ==
  /\ Stray(d)
  /\ ~SameConn(c, link[d])
  /\ \/ c.transport = "ws" /\ Contact(d, c)
     \/ c.transport = "poll" /\ Post(d)
  /\ groups' = PingGroups(groups, d, Ip[c.at], KeysFrom[c.at])
  /\ \E out \in {PresenceOut(groups', d, newest) : newest \in Newest} : Deliver(link, out)
  /\ UNCHANGED <<rooms, open, link, place, probed, scene>>

\* A request to poll that was under way: the page may miss what is sent from now on.
LatePoll(d) ==
  /\ Stray(d)
  /\ link[d].transport # "poll"
  /\ Contact(d, Poll(place[d]))
  /\ groups' = CancelDisconnect(groups, d)
  /\ missed' = [missed EXCEPT ![d] = TRUE]
  /\ UNCHANGED <<rooms, open, link, place, probed, view, scene>>

\* A turbo lane that opens, a frame on one, a POST of frames: none of them is the
\* device's connection, all of them end its grace period.
LaneTraffic(d) ==
  /\ Stray(d)
  /\ groups' = CancelDisconnect(groups, d)
  /\ unwatched' = [unwatched EXCEPT ![d] = @ \/ conns[d] = NoConn]
  /\ UNCHANGED <<rooms, conns, open, link, place, probed, view, missed, scene>>

Next ==
  \/ \E d \in Devices, transport \in {"ws", "sse", "poll"} : Connect(d, transport)
  \/ \E d \in Devices : LongPoll(d)
  \/ \E d \in Devices : Reprobe(d)
  \/ \E d \in Devices : Ping(d)
  \/ \E d \in Devices : Rescan(d)
  \/ \E d \in Devices, code \in Codes : StartRoom(d, code)
  \/ \E d \in Devices, code \in Codes : EnterRoom(d, code)
  \/ \E d \in Devices : ExitRoom(d)
  \/ \E code \in Codes : AgeRoom(code)
  \/ PruneRooms
  \/ \E d \in Devices : Drop(d)
  \/ \E d \in Devices, p \in DOMAIN Places : Move(d, p)
  \/ \E d \in Devices : \E c \in open[d] : Close(d, c)
  \/ \E d \in Devices : Depart(d)
  \/ \E d \in Devices : GrowStale(d)
  \/ \E d \in Devices : \E c \in open[d] \cup {Poll(place[d])} : LatePing(d, c)
  \/ \E d \in Devices : LatePoll(d)
  \/ \E d \in Devices : LaneTraffic(d)

Spec == Init /\ [][Next]_vars

\* Connections that are dead are found out, and grace periods end.
Fairness ==
  \A d \in Devices : WF_vars(\E c \in open[d] : Close(d, c)) /\ WF_vars(Depart(d))

FairSpec == Spec /\ Fairness

-----------------------------------------------------------------------------
\* The index lists a device under every key of its session, however its keys
\* were changed: two devices with a common key find each other.
IndexComplete ==
  \A d \in Registered(groups) : \A k \in groups.devices[d].keys :
    <<k, d>> \in groups.keyToDevices

\* A page that is connected stays so: no grace period runs against a device whose
\* connection is registered, any contact having ended it, and the close of a
\* connection that was replaced, whenever it comes, does not cut off the newer one.
StaysReachable ==
  /\ \A d \in Registered(groups) : groups.devices[d].timer => conns[d] = NoConn
  /\ \A d \in Devices : stray = 0 /\ link[d] \in open[d] => Reaches(conns, link, d)

\* A device that no other that takes part is named as, be it by a session whose name
\* the server does not know.
NamesOf(d) == {Sig[d].name, RoomPeerSig[d].name}
Unique(d) == \A o \in scene.active \ {d} : NamesOf(o) \cap NamesOf(d) = {}

\* No room is empty or over its limit, and a seat is taken by a device that has a
\* session, unless another one of its hardware has replaced it.
SeatsTaken ==
  \A c \in DOMAIN rooms :
    /\ Cardinality(rooms[c].peers) \in 1 .. RoomMaxPeers
    /\ \A d \in rooms[c].peers : Unique(d) => d \in Registered(groups)

\* A page that hears what the server sends, and heard the last list it was sent. One
\* that begins to poll while a dead connection of it is registered does not: its join
\* goes out before its first request to poll, the answer to the dead connection (core
\* signaling/index.ts:380-384, signaling index.ts:380-383), and it is right again with
\* the first heartbeat after that request.
Hears(d) ==
  /\ Unique(d) /\ d \in Registered(groups)
  /\ Reaches(conns, link, d) /\ ~missed[d]

Overlap(d, o) == groups.devices[d].keys \cap groups.devices[o].keys # {}

\* `create-room', `join-room' and `leave-room' change a session without a word about
\* who is nearby (index.ts:766-785, 827-925): a device that sends them from a new
\* address is right again with its next heartbeat only.
Plain(d) == d \notin scene.roomers \cap scene.movers

\* A device that stays where it was first, and had probed before it joined: the keys
\* of its session only grow.
Settled(d) == d \notin scene.movers \cup scene.fresh

\* `rescan' puts its keys into the session before registerDevice looks there for the
\* old ones to remove (index.ts:606-612, groups/index.ts:39-51): a device that rescans
\* from a new address stays listed under keys it no longer has.
Traced(d) == d \in scene.movers \cap scene.rescans

\* Two devices with a network key in common see each other, if both look like no
\* other, whatever connections, probes and grace periods went before (the
\* promise at clientip/index.ts:217-222).
NeighboursMeet ==
  \A p \in Pairs :
    /\ Plain(p[1]) /\ Plain(p[2]) /\ Hears(p[1])
    /\ Unique(p[2]) /\ ~missed[p[2]] /\ Overlap(p[1], p[2])
    => p[2] \in DOMAIN view[p[1]].nearby

\* A page lists no device that has left, or that shares no network with it, unless
\* that one has changed its networks, by moving or by the first probe after it joined
\* (then the page's next heartbeat corrects the list), or the index still lists the
\* page's own device where it was.
NoGhosts ==
  \A p \in Pairs :
    /\ Plain(p[1]) /\ Plain(p[2]) /\ ~Traced(p[1]) /\ Settled(p[2])
    /\ Hears(p[1]) /\ Unique(p[2]) /\ p[2] \in DOMAIN view[p[1]].nearby
    => p[2] \in Registered(groups) /\ Overlap(p[1], p[2])

\* A device that is gone for good leaves the groups and the rooms, unless the
\* server cannot see that it is gone.
GoneForGood(d) == ~Online(d) /\ ~unwatched[d]
Forgotten(d) == d \notin Registered(groups) /\ (Unique(d) => RoomsOf(rooms, d) = {})

GoneForgotten == \A d \in Devices : <>[]GoneForGood(d) => <>[]Forgotten(d)
=============================================================================
