-------------------------- MODULE SignalingServer --------------------------
(***************************************************************************)
(* The message handlers of the signaling server (signaling index.ts). A    *)
(* handler of a message of device d is given as what it makes of the local *)
(* groups, of the rooms, and as the messages it sends to each device, in   *)
(* order. `newest' settles which of several devices of the same hardware   *)
(* was seen last (LocalGroups).                                            *)
(***************************************************************************)
EXTENDS Gateway, Rooms, PresenceClient, NetworkKeys

CONSTANT
  Sig,          \* a device's name and model
  RoomPeerSig   \* how a device without a session is announced in a room

\* What a handler sends: messages with their recipients, in order.
To(ds, m) == [to |-> ds, msg |-> m]

\* serializePeer, and what stands for a device that has no session.
Announced(g, ds) ==
  [o \in ds |-> IF o \in Registered(g) THEN g.devices[o].sig ELSE RoomPeerSig[o]]

\* As PresenceOut, without a word to the others (a plausible bug).
PresenceToSelf(g, d, newest) ==
  <<To({d}, GroupPresence(Announced(g, VisiblePeers(g, d, newest))))>>

\* broadcastGroupPresence
PresenceOut(g, d, newest) ==
  LET vis == VisiblePeers(g, d, newest) IN
  << To({d}, GroupPresence(Announced(g, vis))),
     To({o \in vis : d \in Registered(g)}, PeerDiscovered(d, Announced(g, {d})[d])) >>

\* What a member and the others learn of a room (index.ts:899-925, 999-1018).
RoomOut(g, r, code, d) ==
  LET others == r[code].peers \ {d} IN
  << To({d}, RoomJoined(code, Announced(g, others))),
     To(others, PeerJoinedRoom(d, Announced(g, {d})[d])) >>

\* broadcastRoomPresenceUpdate
RoomsOut(g, r, d) ==
  IF d \notin Registered(g) \/ RoomsOf(r, d) = {} THEN <<>>
  ELSE FlattenSeq(SetToSeq({RoomOut(g, r, c, d) : c \in RoomsOf(r, d)}))

\* The others in the rooms learn that d has left them.
LeaveOut(r, codes, d) ==
  SetToSeq({To(r[c].peers \ {d}, PeerLeftRoom(d)) : c \in codes})

-----------------------------------------------------------------------------
NewSession(ip, keys, sig) ==
  [keys |-> keys, sig |-> sig, ip |-> ip, timer |-> FALSE, stale |-> FALSE]

\* `join': a new session replaces the device's, and the ghosts of its hardware.
JoinGroups(g, d, ip, keys) ==
  RegisterDevice(CancelDisconnect(g, d), d, NewSession(ip, keys, Sig[d]))

JoinOut(g, joined, r, d, newest) ==
  SetToSeq({To(VisiblePeers(joined, d, newest), PeerLeft(o)) : o \in Registered(g) \ Registered(joined)})
  \o PresenceOut(joined, d, newest) \o RoomsOut(joined, r, d)

\* As Refreshed, the grace period going on (a plausible bug).
RefreshedDying(s, ip, keys, reported) ==
  [s EXCEPT !.stale = FALSE, !.ip = ip,
            !.keys = IF reported THEN keys ELSE IF s.ip # ip THEN @ \cup keys ELSE @]

\* ensureDeviceSession: any other message refreshes the session of its sender, or
\* makes one under the name it gives. Keys the message reports replace those of
\* the session, a new address adds to them. The new ones are put into the session
\* before registerDevice looks there for the old ones.
Refreshed(s, ip, keys, reported) ==
  [s EXCEPT !.timer = FALSE, !.stale = FALSE, !.ip = ip,
            !.keys = IF reported THEN keys ELSE IF s.ip # ip THEN @ \cup keys ELSE @]

\* As EnsureSession, new keys put into the session alone (a plausible bug).
EnsureUnindexed(g, d, ip, keys, reported, sig) ==
  IF d \notin Registered(g) THEN RegisterDevice(g, d, NewSession(ip, keys, sig))
  ELSE Update(g, d, Refreshed(g.devices[d], ip, keys, reported))

EnsureSession(g, d, ip, keys, reported, sig) ==
  IF d \notin Registered(g) THEN RegisterDevice(g, d, NewSession(ip, keys, sig))
  ELSE LET s == Refreshed(g.devices[d], ip, keys, reported) IN
       IF reported \/ g.devices[d].ip # ip
       THEN RegisterDevice(Update(g, d, s), d, s)
       ELSE Update(g, d, s)

NamedOnly(d) == [Sig[d] EXCEPT !.model = "none"]

\* `ping', `rescan', `create-room', and `update-profile' or `join-room'; `keys' are
\* those of the address and of what the message reports.
PingGroups(g, d, ip, keys)   == EnsureSession(g, d, ip, keys, FALSE, RoomPeerSig[d])
RescanGroups(g, d, ip, keys) == EnsureSession(g, d, ip, keys, TRUE, NamedOnly(d))
CreateGroups(g, d, ip, keys) == EnsureSession(g, d, ip, keys, FALSE, NamedOnly(d))
ProfileGroups(g, d, ip, keys) ==
  LET ensured == CreateGroups(g, d, ip, keys) IN
  Update(ensured, d, [ensured.devices[d] EXCEPT !.sig = Sig[d]])

-----------------------------------------------------------------------------
\* `join-room' that is let in: a ghost of the joiner's hardware loses its seat.
RoomGhosts(g, r, code, d) ==
  {o \in (r[code].peers \cap Registered(g)) \ {d} :
     Hardware(g, o) = Hardware(g, d)}

JoinRoomRooms(g, r, code, d, knows) ==
  LET seated == JoinRoom(r, code, d, knows)
      ghosts == RoomGhosts(g, seated, code, d) IN
  IF CanJoin(r, code, d, knows) THEN [seated EXCEPT ![code] = Touched(@, @.peers \ ghosts)] ELSE seated

JoinRoomOut(g, r, seated, code, d, knows) ==
  IF ~CanJoin(r, code, d, knows) THEN <<>>
  ELSE SetToSeq({To(seated[code].peers, PeerLeftRoom(o)) : o \in r[code].peers \ seated[code].peers})
       \o RoomOut(g, seated, code, d)

\* As LeaveAll, the seats kept (a plausible bug).
LeaveNone(r, codes, d) == r

\* The rooms when a device has left some of them (leaveRoom of each).
LeaveAll(r, codes, d) ==
  [c \in {c \in DOMAIN r : c \in codes => r[c].peers \ {d} # {}} |->
     IF c \in codes THEN Touched(r[c], r[c].peers \ {d}) ELSE r[c]]

\* As DepartOut, when the device is no longer in the index (a plausible bug).
DepartOutLate(g, r, d, newest) ==
  <<To(VisiblePeers(RemoveDevice(g, d), d, newest), PeerLeft(d))>> \o LeaveOut(r, RoomsOf(r, d), d)

\* The grace period is over: those who saw the device, and its rooms, are told.
DepartOut(g, r, d, newest) ==
  <<To(VisiblePeers(g, d, newest), PeerLeft(d))>> \o LeaveOut(r, RoomsOf(r, d), d)
=============================================================================
