---------------------------- MODULE LocalGroups ----------------------------
(***************************************************************************)
(* LocalGroupIndex (signaling groups/index.ts): the sessions of the        *)
(* devices, and the index from a network key to the devices that have it.  *)
(* A handler calls several of its methods, so each method is an operator   *)
(* from the state of the index, g, to its next state.                      *)
(*                                                                         *)
(* `stale' says that a device was last seen more than 8 s ago, `timer'     *)
(* that its disconnectTimer runs. heartbeatComplete is true of every       *)
(* session the server creates (index.ts:625, 672).                         *)
(***************************************************************************)
EXTENDS Naturals, FiniteSets

CONSTANTS
  Devices,
  Keys        \* the network keys

\* What stands for the session of a device that has none.
NoSession == [keys |-> {}, sig |-> "none", ip |-> [scope |-> "none"], timer |-> FALSE, stale |-> FALSE]

\* devices, and keyToDevices as the set of pairs of a key and a device.
NoGroups == [devices |-> [d \in Devices |-> NoSession], keyToDevices |-> {}]

Registered(g) == {d \in Devices : g.devices[d] # NoSession}

\* A change of the session object itself.
Update(g, d, s) == [g EXCEPT !.devices[d] = s]

\* The device is taken from the index under the keys of its session.
RemoveDevice(g, d) ==
  [devices      |-> [g.devices EXCEPT ![d] = NoSession],
   keyToDevices |-> g.keyToDevices \ (g.devices[d].keys \X {d})]

\* The other sessions of the same hardware on the same network that a device
\* replaces when it registers: those about to go, or silent for 8 s.
Evicted(g, d, s) ==
  {o \in Registered(g) \ {d} :
     /\ g.devices[o].sig = s.sig
     /\ g.devices[o].ip = s.ip \/ g.devices[o].keys \cap s.keys # {}
     /\ g.devices[o].timer \/ g.devices[o].stale}

\* registerDevice: the keys of the session it replaces are removed, and the
\* ghosts of its hardware; its own keys are added.
RegisterDevice(g, d, s) ==
  LET gone == Evicted(g, d, s) IN
  [devices |-> [o \in Devices |-> IF o = d THEN s
                                  ELSE IF o \in gone THEN NoSession ELSE g.devices[o]],
   keyToDevices |->
     {e \in g.keyToDevices : ~(e[2] \in gone \cup {d} /\ e[1] \in g.devices[e[2]].keys)}
     \cup (s.keys \X {d})]

\* As ScheduleDisconnect, for any device, and for none (plausible bugs).
ScheduleBlindly(g, d) == [g EXCEPT !.devices[d].timer = TRUE]
ScheduleNothing(g, d) == IF d \in Registered(g) THEN g ELSE g

ScheduleDisconnect(g, d) ==
  IF d \in Registered(g) THEN [g EXCEPT !.devices[d].timer = TRUE] ELSE g

CancelDisconnect(g, d) == [g EXCEPT !.devices[d].timer = FALSE]

\* getVisiblePeers: the registered devices listed under a key of the device's
\* session, one of each hardware: the one last seen of those that are not about
\* to go.
Listed(g, d) ==
  {e[2] : e \in {e \in g.keyToDevices : e[1] \in g.devices[d].keys}} \cap (Registered(g) \ {d})

Hardware(g, o) == <<g.devices[o].ip, g.devices[o].sig>>

Steady(g, ds) == LET stay == {o \in ds : ~g.devices[o].timer} IN IF stay = {} THEN ds ELSE stay

LastSeen(ds, newest) == IF newest \in ds THEN newest ELSE CHOOSE o \in ds : TRUE

VisiblePeers(g, d, newest) ==
  LET listed == Listed(g, d) IN
  {LastSeen(Steady(g, {p \in listed : Hardware(g, p) = Hardware(g, o)}), newest) : o \in listed}
=============================================================================
