----------------------------- MODULE MCPresence -----------------------------
(***************************************************************************)
(* Values of Presence's constants for TLC.                                 *)
(***************************************************************************)
EXTENDS Presence

CONSTANTS a, b, c, r

V4(wide, mid, host, scope) ==
  [family |-> 4, wide |-> wide, mid |-> mid, host |-> host, scope |-> scope]
V6(wide, mid, host) ==
  [family |-> 6, wide |-> wide, mid |-> mid, host |-> host, scope |-> "public"]

Proxy == V4(10, 0, 1, "private")

\* Two networks: one behind two proxies and a public IPv4, one with an IPv6 prefix.
MCPlaces ==
  [wifi   |-> [request |-> [socket |-> Proxy, cdn |-> <<>>,
                            forwarded |-> <<V4(81, 2, 7, "public"), Proxy, Proxy>>],
               found |-> {V4(81, 2, 7, "public")}, host |-> {}],
   mobile |-> [request |-> [socket |-> V6(20, 5, 9), cdn |-> <<>>, forwarded |-> <<>>],
               found |-> {V6(20, 5, 9)}, host |-> {}]]

\* Counting the proxies or not, the server sees the same addresses.
MCHops == <<1>>
ASSUME SameAddresses ==
  \A p \in DOMAIN Places : Ip[p] = VerifiedClientIp(Places[p].request, <<>>)

MCHome == [d \in Devices |-> "wifi"]

MCKeys == UNION {KeysWith[p][q] : p \in DOMAIN Places, q \in DOMAIN Places \cup {Nowhere}}

\* a and c look the same
MCSig == [d \in Devices |-> IF d = b THEN [name |-> "b", model |-> "y"]
                            ELSE [name |-> "a", model |-> "x"]]
MCRoomPeerSig == [d \in Devices |-> [name |-> d, model |-> "none"]]

MCPairs == {<<a, b>>, <<b, a>>}

Scene == [active |-> {a, b}, fresh |-> {}, transports |-> {"ws"}, rescans |-> {}, roomers |-> {},
          locks |-> {FALSE}, ageing |-> FALSE, leavers |-> {}, movers |-> {}, silent |-> {},
          strays |-> {}]

MCScenes ==
  { \* every transport, a device that comes and goes with a stray
    [Scene EXCEPT !.transports = {"ws", "sse", "poll"}, !.leavers = {a}, !.strays = {a}],
    \* sockets and polls, two devices that come and go
    [Scene EXCEPT !.transports = {"ws", "poll"}, !.leavers = {a, b}],
    \* rooms, of which a device drops out, and that expire
    [Scene EXCEPT !.leavers = {a}, !.roomers = {a, b}, !.locks = BOOLEAN, !.ageing = TRUE],
    \* a device that polls once its socket is lost, and is in a room
    [Scene EXCEPT !.transports = {"ws", "poll"}, !.leavers = {a}, !.roomers = {a}],
    \* three devices for a room of two
    [Scene EXCEPT !.active = {a, b, c}, !.roomers = {a, b, c}],
    \* a device that moves before and after its first probe, rescans, and has a
    \* message under way from where it was
    [Scene EXCEPT !.transports = {"ws", "poll"}, !.fresh = {a, b}, !.movers = {a},
                  !.rescans = {a}, !.strays = {a}],
    \* a device that moves, while the one it leaves rescans and is in a room
    [Scene EXCEPT !.transports = {"ws", "poll"}, !.movers = {a}, !.rescans = {b}, !.roomers = {b}],
    \* a device that comes back under a new id, while its old one is in a room
    [Scene EXCEPT !.active = {a, b, c}, !.leavers = {a}, !.silent = {a}, !.roomers = {a, c}] }
=============================================================================
