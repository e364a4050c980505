--------------------------- MODULE PresenceProofs ---------------------------
(***************************************************************************)
(* Proofs about Presence: for any devices, places, networks, rooms and     *)
(* connections, the server's index is complete, a page that is connected   *)
(* stays reachable, the seats of the rooms are taken by devices that are   *)
(* there, devices that share a network list each other, and a page lists   *)
(* nobody who is not there.                                                *)
(***************************************************************************)
(* The last two are about what a page makes of every message it was ever   *)
(* sent: their proofs follow a handler's messages from the first to the    *)
(* last (HandlingReaches), and what each of them says of a device.         *)
(***************************************************************************)
EXTENDS Presence, FiniteSetTheorems, SequenceTheorems, WellFoundedInduction, TLAPS

Ips == {Ip[p] : p \in DOMAIN Places}
SigsOf(d) == {Sig[d], NamedOnly(d), RoomPeerSig[d]}

Sessions ==
  [keys : SUBSET Keys, sig : (UNION {SigsOf(d) : d \in Devices}) \cup {"none"},
   ip : Ips \cup {NoSession.ip}, timer : BOOLEAN, stale : BOOLEAN]

\* A session that the server makes of device d
Fit(s, d) == s.keys # {} /\ s.sig \in SigsOf(d) /\ s.ip \in Ips

GroupsTyped(g) ==
  /\ g \in [devices : [Devices -> Sessions], keyToDevices : SUBSET (Keys \X Devices)]
  /\ \A d \in Devices : g.devices[d] = NoSession \/ Fit(g.devices[d], d)

Indexed(g, d) == \A k \in g.devices[d].keys : <<k, d>> \in g.keyToDevices

GroupsRight(g) == GroupsTyped(g) /\ \A d \in Devices : Indexed(g, d)

Alike(o, d) == NamesOf(o) \cap NamesOf(d) # {}

\* What a message of d makes of the groups: d has a session without a grace period,
\* and nobody else loses one but who is named as d is.
Renewed(g, h, d) ==
  /\ GroupsRight(h)
  /\ h.devices[d].keys # {} /\ ~h.devices[d].timer
  /\ \A o \in Devices \ {d} : h.devices[o] = g.devices[o] \/ (h.devices[o] = NoSession /\ Alike(o, d))

-----------------------------------------------------------------------------
LEMMA SigNames ==
  ASSUME NEW d \in Devices, NEW sig \in SigsOf(d)
  PROVE  sig.name \in NamesOf(d)
<1>1. /\ Sig[d] = [name |-> Sig[d].name, model |-> Sig[d].model]
      /\ RoomPeerSig[d] = [name |-> RoomPeerSig[d].name, model |-> RoomPeerSig[d].model]
  BY PresenceAssumption DEF PresenceAssumption
<1>2. NamedOnly(d).name = Sig[d].name
  <2>1. PICK n, m : Sig[d] = [name |-> n, model |-> m] BY <1>1
  <2>2. NamedOnly(d) = [name |-> n, model |-> "none"] BY <2>1 DEF NamedOnly
  <2>3. QED BY <2>1, <2>2
<1>3. QED BY <1>2 DEF SigsOf, NamesOf

\* The keys of a message are network keys, and there are some.
LEMMA SomeKeys ==
  ASSUME NEW p \in DOMAIN Places
  PROVE  /\ KeysFrom[p] \subseteq Keys /\ KeysFrom[p] # {}
         /\ \A q \in DOMAIN Places \cup {Nowhere} : KeysWith[p][q] \subseteq Keys /\ KeysWith[p][q] # {}
<1> DEFINE from == HierarchyKeys(Ip[p])
<1>1. NetworkKey(Ip[p]) \in from BY DEF HierarchyKeys
<1>2. KeysFrom[p] = from
  <2>1. NetworkKeySet(Ip[p], {}) = from BY DEF NetworkKeySet
  <2>2. QED BY <2>1 DEF KeysFrom
<1>3. \A q \in DOMAIN Places \cup {Nowhere} : from \subseteq KeysWith[p][q]
  <2>1. TAKE q \in DOMAIN Places \cup {Nowhere}
  <2>2. PICK reports : KeysWith[p][q] = NetworkKeySet(Ip[p], reports) BY DEF KeysWith
  <2>3. QED BY <2>2 DEF NetworkKeySet
<1>4. \A q \in DOMAIN Places \cup {Nowhere} : KeysWith[p][q] \subseteq Keys
  BY PresenceAssumption DEF PresenceAssumption
<1> HIDE DEF from
<1>5. Nowhere \in DOMAIN Places \cup {Nowhere} OBVIOUS
<1>6. QED BY <1>1, <1>2, <1>3, <1>4, <1>5

LEMMA Nobody ==
  NoSession \in Sessions /\ NoSession.keys = {} /\ NoSession.timer = FALSE
<1> DEFINE nowhere == [scope |-> "none"]
<1>1. NoSession = [keys |-> {}, sig |-> "none", ip |-> nowhere, timer |-> FALSE, stale |-> FALSE]
  BY DEF NoSession
<1> HIDE DEF nowhere
<1>2. /\ NoSession.keys = {} /\ NoSession.timer = FALSE /\ NoSession.ip = nowhere
      /\ NoSession.sig = "none" /\ NoSession.stale = FALSE
  BY <1>1
<1>3. nowhere \in Ips \cup {NoSession.ip} BY <1>2
<1>4. NoSession \in Sessions
  <2> DEFINE sigs == (UNION {SigsOf(d) : d \in Devices}) \cup {"none"}
             ips  == Ips \cup {NoSession.ip}
  <2>1. "none" \in sigs OBVIOUS
  <2>2. nowhere \in ips BY <1>3
  <2>3. Sessions = [keys : SUBSET Keys, sig : sigs, ip : ips, timer : BOOLEAN, stale : BOOLEAN]
    BY DEF Sessions
  <2> HIDE DEF sigs, ips
  <2>4. QED BY <1>1, <2>1, <2>2, <2>3
<1>5. QED BY <1>2, <1>4

\* A change of a session that leaves its keys as they are
LEMMA Updating ==
  ASSUME NEW g, GroupsTyped(g), NEW d \in Devices, NEW s \in Sessions, s = NoSession \/ Fit(s, d)
  PROVE  /\ GroupsTyped(Update(g, d, s))
         /\ Update(g, d, s).devices[d] = s
         /\ \A o \in Devices \ {d} : /\ Update(g, d, s).devices[o] = g.devices[o]
                                     /\ Indexed(g, o) => Indexed(Update(g, d, s), o)
         /\ s.keys = g.devices[d].keys /\ Indexed(g, d) => Indexed(Update(g, d, s), d)
<1> DEFINE h == Update(g, d, s)
<1>1. /\ h \in [devices : [Devices -> Sessions], keyToDevices : SUBSET (Keys \X Devices)]
      /\ h.keyToDevices = g.keyToDevices
      /\ \A o \in Devices : h.devices[o] = IF o = d THEN s ELSE g.devices[o]
  BY DEF Update, GroupsTyped
<1> HIDE DEF h
<1>2. GroupsTyped(h) BY <1>1 DEF GroupsTyped
<1>3. QED BY <1>1, <1>2 DEF Indexed, h

LEMMA Registering ==
  ASSUME NEW g, GroupsTyped(g), NEW d \in Devices, \A o \in Devices \ {d} : Indexed(g, o),
         NEW s \in Sessions, Fit(s, d), ~s.timer
  PROVE  Renewed(g, RegisterDevice(g, d, s), d)
<1> DEFINE gone == Evicted(g, d, s)
           h == RegisterDevice(g, d, s)
           index == {e \in g.keyToDevices : ~(e[2] \in gone \cup {d} /\ e[1] \in g.devices[e[2]].keys)}
                    \cup (s.keys \X {d})
<1>1. NoSession \in Sessions BY Nobody
<1>2. /\ h = [devices |-> [o \in Devices |-> IF o = d THEN s
                                             ELSE IF o \in gone THEN NoSession ELSE g.devices[o]],
              keyToDevices |-> index]
  BY DEF RegisterDevice
<1>3. g.devices \in [Devices -> Sessions] /\ g.keyToDevices \subseteq Keys \X Devices BY DEF GroupsTyped
<1>4. index \subseteq Keys \X Devices
  <2>1. s.keys \subseteq Keys BY DEF Sessions
  <2>2. QED BY <1>3, <2>1
<1>5. \A o \in gone : o \in Devices \ {d} /\ Alike(o, d)
  <2>1. TAKE o \in gone
  <2>2. o \in Devices \ {d} /\ g.devices[o] # NoSession /\ g.devices[o].sig = s.sig
    BY DEF Evicted, Registered
  <2>3. s.sig \in SigsOf(o) /\ s.sig \in SigsOf(d) BY <2>2 DEF GroupsTyped, Fit
  <2>4. s.sig.name \in NamesOf(o) /\ s.sig.name \in NamesOf(d) BY <2>2, <2>3, SigNames
  <2>5. QED BY <2>2, <2>4 DEF Alike
<1> HIDE DEF gone
<1>6. /\ h.keyToDevices = index
      /\ h.devices = [o \in Devices |-> IF o = d THEN s ELSE IF o \in gone THEN NoSession ELSE g.devices[o]]
  BY <1>2
<1>7. h \in [devices : [Devices -> Sessions], keyToDevices : SUBSET (Keys \X Devices)]
  BY <1>1, <1>2, <1>3, <1>4
<1>8. Indexed(h, d) BY <1>6 DEF Indexed
<1>9. \A o \in Devices \ {d} : Indexed(h, o)
  <2>1. SUFFICES ASSUME NEW o \in Devices \ {d}, NEW k \in h.devices[o].keys PROVE <<k, o>> \in index
    BY <1>6 DEF Indexed
  <2>2. CASE o \in gone BY <1>6, <2>1, <2>2 DEF NoSession
  <2>3. CASE o \notin gone
    <3>1. k \in g.devices[o].keys BY <1>6, <2>1, <2>3
    <3>2. <<k, o>> \in g.keyToDevices BY <3>1 DEF Indexed
    <3>3. QED BY <2>3, <3>2
  <2>4. QED BY <2>2, <2>3
<1> HIDE DEF h, index
<1>10. \A o \in Devices : h.devices[o] = IF o = d THEN s ELSE IF o \in gone THEN NoSession ELSE g.devices[o]
  BY <1>6
<1>11. GroupsTyped(h)
  <2>1. \A o \in Devices : h.devices[o] = NoSession \/ Fit(h.devices[o], o) BY <1>10 DEF GroupsTyped
  <2>2. QED BY <1>7, <2>1 DEF GroupsTyped
<1>12. GroupsRight(h) BY <1>8, <1>9, <1>11 DEF GroupsRight
<1>13. h.devices[d].keys # {} /\ ~h.devices[d].timer BY <1>10 DEF Fit
<1>14. \A o \in Devices \ {d} : h.devices[o] = g.devices[o] \/ (h.devices[o] = NoSession /\ Alike(o, d))
  BY <1>5, <1>10
<1>15. Renewed(g, h, d) BY <1>12, <1>13, <1>14 DEF Renewed
<1>16. QED BY <1>15 DEF h

-----------------------------------------------------------------------------
\* A change that may leave d listed under too few keys, and registers it again
LEMMA UpdatedAndRegistered ==
  ASSUME NEW g, GroupsRight(g), NEW d \in Devices, NEW x \in Sessions, x = NoSession \/ Fit(x, d),
         NEW s \in Sessions, Fit(s, d), ~s.timer
  PROVE  Renewed(g, RegisterDevice(Update(g, d, x), d, s), d)
<1> DEFINE u == Update(g, d, x)
<1>1. GroupsTyped(u) /\ \A o \in Devices \ {d} : u.devices[o] = g.devices[o] /\ Indexed(u, o)
  BY Updating DEF GroupsRight
<1> HIDE DEF u
<1>2. Renewed(u, RegisterDevice(u, d, s), d) BY <1>1, Registering
<1>3. Renewed(g, RegisterDevice(u, d, s), d) BY <1>1, <1>2 DEF Renewed
<1>4. QED BY <1>3 DEF u

\* A change of the session alone
LEMMA UpdatedOnly ==
  ASSUME NEW g, GroupsRight(g), NEW d \in Devices, NEW s \in Sessions, Fit(s, d), ~s.timer,
         s.keys = g.devices[d].keys
  PROVE  Renewed(g, Update(g, d, s), d)
  BY Updating DEF GroupsRight, Renewed, Fit

LEMMA NewSessionFits ==
  ASSUME NEW d \in Devices, NEW ip \in Ips, NEW keys \in SUBSET Keys, keys # {}, NEW sig \in SigsOf(d)
  PROVE  /\ NewSession(ip, keys, sig) \in Sessions /\ Fit(NewSession(ip, keys, sig), d)
         /\ ~NewSession(ip, keys, sig).timer
<1> DEFINE sigs == (UNION {SigsOf(o) : o \in Devices}) \cup {"none"}
           ips  == Ips \cup {NoSession.ip}
           s    == NewSession(ip, keys, sig)
<1>1. sig \in sigs /\ ip \in ips OBVIOUS
<1>2. Sessions = [keys : SUBSET Keys, sig : sigs, ip : ips, timer : BOOLEAN, stale : BOOLEAN]
  BY DEF Sessions
<1> HIDE DEF sigs, ips
<1>3. s \in Sessions BY <1>1, <1>2 DEF NewSession
<1>4. s.keys = keys /\ s.sig = sig /\ s.ip = ip /\ s.timer = FALSE BY DEF NewSession
<1>5. QED BY <1>3, <1>4 DEF Fit

LEMMA RefreshedFits ==
  ASSUME NEW d \in Devices, NEW s \in Sessions, Fit(s, d), NEW ip \in Ips, NEW keys \in SUBSET Keys,
         keys # {}, NEW reported \in BOOLEAN
  PROVE  /\ Refreshed(s, ip, keys, reported) \in Sessions /\ Fit(Refreshed(s, ip, keys, reported), d)
         /\ ~Refreshed(s, ip, keys, reported).timer
         /\ ~reported /\ s.ip = ip => Refreshed(s, ip, keys, reported).keys = s.keys
<1> DEFINE ips == Ips \cup {NoSession.ip}
           sigs == (UNION {SigsOf(o) : o \in Devices}) \cup {"none"}
           all == IF reported THEN keys ELSE IF s.ip # ip THEN s.keys \cup keys ELSE s.keys
           t == [s EXCEPT !.timer = FALSE, !.stale = FALSE, !.ip = ip, !.keys = all]
<1>1. ip \in ips OBVIOUS
<1>2. Sessions = [keys : SUBSET Keys, sig : sigs, ip : ips, timer : BOOLEAN, stale : BOOLEAN]
  BY DEF Sessions
<1> HIDE DEF sigs, ips
<1>3. all \in SUBSET Keys BY <1>2
<1>4. all # {} BY DEF Fit
<1>5. Refreshed(s, ip, keys, reported) = t BY <1>2 DEF Refreshed
<1>6. ~reported /\ s.ip = ip => all = s.keys OBVIOUS
<1> HIDE DEF all
<1>7. t \in Sessions /\ t.keys = all /\ t.sig = s.sig /\ t.ip = ip /\ t.timer = FALSE
  BY <1>1, <1>2, <1>3
<1> HIDE DEF t
<1>8. Fit(t, d) BY <1>4, <1>7 DEF Fit
<1>9. QED BY <1>5, <1>6, <1>7, <1>8

LEMMA Ensuring ==
  ASSUME NEW g, GroupsRight(g), NEW d \in Devices, NEW ip \in Ips, NEW keys \in SUBSET Keys,
         keys # {}, NEW reported \in BOOLEAN, NEW sig \in SigsOf(d)
  PROVE  Renewed(g, EnsureSession(g, d, ip, keys, reported, sig), d)
<1> DEFINE s == NewSession(ip, keys, sig)
           t == Refreshed(g.devices[d], ip, keys, reported)
<1>1. g.devices[d] \in Sessions /\ GroupsTyped(g) /\ \A o \in Devices : Indexed(g, o)
  BY DEF GroupsRight, GroupsTyped
<1>2. s \in Sessions /\ Fit(s, d) /\ ~s.timer BY NewSessionFits
<1>3. CASE d \notin Registered(g)
  <2>1. EnsureSession(g, d, ip, keys, reported, sig) = RegisterDevice(g, d, s)
    BY <1>3 DEF EnsureSession
  <2> HIDE DEF s
  <2>2. QED BY <1>1, <1>2, <2>1, Registering
<1>4. CASE d \in Registered(g)
  <2>1. Fit(g.devices[d], d) BY <1>1, <1>4 DEF Registered, GroupsTyped
  <2>2. /\ t \in Sessions /\ Fit(t, d) /\ ~t.timer
        /\ ~reported /\ g.devices[d].ip = ip => t.keys = g.devices[d].keys
    BY <1>1, <2>1, RefreshedFits
  <2>3. EnsureSession(g, d, ip, keys, reported, sig) =
          IF reported \/ g.devices[d].ip # ip THEN RegisterDevice(Update(g, d, t), d, t) ELSE Update(g, d, t)
    BY <1>4 DEF EnsureSession
  <2> HIDE DEF t
  <2>4. CASE reported \/ g.devices[d].ip # ip BY <2>2, <2>3, <2>4, UpdatedAndRegistered
  <2>5. CASE ~reported /\ g.devices[d].ip = ip BY <2>2, <2>3, <2>5, UpdatedOnly
  <2>6. QED BY <2>4, <2>5
<1>5. QED BY <1>3, <1>4

\* A change of a session that is there, not of its keys
Marked(g, h, d) ==
  /\ GroupsRight(h)
  /\ Registered(h) = Registered(g)
  /\ h.devices[d].keys = g.devices[d].keys
  /\ \A o \in Devices \ {d} : h.devices[o] = g.devices[o]

LEMMA Marking ==
  ASSUME NEW g, GroupsRight(g), NEW d \in Devices, d \in Registered(g), NEW s \in Sessions, Fit(s, d),
         s.keys = g.devices[d].keys
  PROVE  Marked(g, Update(g, d, s), d) /\ Update(g, d, s).devices[d] = s
<1> DEFINE h == Update(g, d, s)
<1>1. /\ GroupsRight(h) /\ h.devices[d] = s /\ \A o \in Devices \ {d} : h.devices[o] = g.devices[o]
  BY Updating DEF GroupsRight
<1>2. s # NoSession BY Nobody DEF Fit
<1> HIDE DEF h
<1>3. Registered(h) = Registered(g) BY <1>1, <1>2 DEF Registered
<1>4. QED BY <1>1, <1>3 DEF Marked, h

\* The grace period of a device begins or ends.
LEMMA Timers ==
  ASSUME NEW g, GroupsRight(g), NEW d \in Devices, NEW timer \in BOOLEAN, d \in Registered(g) \/ ~timer
  PROVE  /\ Marked(g, [g EXCEPT !.devices[d].timer = timer], d)
         /\ [g EXCEPT !.devices[d].timer = timer].devices[d].timer = timer
<1> DEFINE s == [g.devices[d] EXCEPT !.timer = timer]
           h == [g EXCEPT !.devices[d].timer = timer]
<1>1. g.devices[d] \in Sessions /\ g \in [devices : [Devices -> Sessions], keyToDevices : SUBSET (Keys \X Devices)]
  BY DEF GroupsRight, GroupsTyped
<1>2. /\ s \in Sessions /\ s.timer = timer /\ s.keys = g.devices[d].keys /\ s.sig = g.devices[d].sig
      /\ s.ip = g.devices[d].ip
  BY <1>1 DEF Sessions
<1>3. h = Update(g, d, s) BY <1>1 DEF Update
<1>4. CASE d \in Registered(g)
  <2>1. Fit(g.devices[d], d) BY <1>4 DEF GroupsRight, GroupsTyped, Registered
  <2>2. Fit(s, d) BY <1>2, <2>1 DEF Fit
  <2> HIDE DEF s, h
  <2>3. Marked(g, h, d) /\ h.devices[d].timer = timer BY <1>2, <1>3, <1>4, <2>2, Marking
  <2>4. QED BY <2>3 DEF h
<1>5. CASE d \notin Registered(g)
  <2>1. g.devices[d] = NoSession /\ timer = FALSE BY <1>5 DEF Registered
  <2>2. s = g.devices[d]
    <3>1. g.devices[d].timer = FALSE BY <2>1, Nobody
    <3>2. QED BY <1>1, <2>1, <3>1 DEF Sessions
  <2>3. h = g BY <1>1, <1>3, <2>2 DEF Update
  <2> HIDE DEF h
  <2>4. g.devices[d].timer = FALSE BY <2>1, Nobody
  <2>5. Marked(g, h, d) /\ h.devices[d].timer = timer BY <2>1, <2>3, <2>4 DEF Marked
  <2>6. QED BY <2>5 DEF h
<1>6. QED BY <1>4, <1>5

LEMMA Removing ==
  ASSUME NEW g, GroupsRight(g), NEW d \in Devices
  PROVE  /\ GroupsRight(RemoveDevice(g, d))
         /\ RemoveDevice(g, d).devices[d] = NoSession
         /\ \A o \in Devices \ {d} : RemoveDevice(g, d).devices[o] = g.devices[o]
<1> DEFINE h == RemoveDevice(g, d)
           index == g.keyToDevices \ (g.devices[d].keys \X {d})
<1>1. /\ g.devices \in [Devices -> Sessions] /\ g.keyToDevices \subseteq Keys \X Devices
      /\ \A o \in Devices : g.devices[o] = NoSession \/ Fit(g.devices[o], o)
      /\ \A o \in Devices : Indexed(g, o)
  BY DEF GroupsRight, GroupsTyped
<1>2. h.devices = [g.devices EXCEPT ![d] = NoSession] /\ h.keyToDevices = index BY DEF RemoveDevice
<1>3. h \in [devices : [Devices -> Sessions], keyToDevices : SUBSET (Keys \X Devices)]
  BY <1>1, Nobody DEF RemoveDevice
<1> HIDE DEF h
<1>4. \A o \in Devices : h.devices[o] = IF o = d THEN NoSession ELSE g.devices[o] BY <1>1, <1>2
<1>5. \A o \in Devices : Indexed(h, o)
  <2>1. SUFFICES ASSUME NEW o \in Devices, NEW k \in h.devices[o].keys PROVE <<k, o>> \in index
    BY <1>2 DEF Indexed
  <2>2. o # d /\ k \in g.devices[o].keys BY <1>4, <2>1, Nobody
  <2>3. <<k, o>> \in g.keyToDevices BY <1>1, <2>2 DEF Indexed
  <2>4. QED BY <2>2, <2>3
<1> HIDE DEF index
<1>6. GroupsTyped(h) BY <1>1, <1>3, <1>4 DEF GroupsTyped
<1>7. QED BY <1>4, <1>5, <1>6 DEF GroupsRight, h

-----------------------------------------------------------------------------
\* The messages of a device
LEMMA JoinRenews ==
  ASSUME NEW g, GroupsRight(g), NEW d \in Devices, NEW ip \in Ips, NEW keys \in SUBSET Keys, keys # {}
  PROVE  Renewed(g, JoinGroups(g, d, ip, keys), d)
<1> DEFINE h == CancelDisconnect(g, d)
           s == NewSession(ip, keys, Sig[d])
<1>1. Marked(g, h, d) BY Timers DEF CancelDisconnect
<1>2. s \in Sessions /\ Fit(s, d) /\ ~s.timer BY NewSessionFits DEF SigsOf
<1>3. JoinGroups(g, d, ip, keys) = RegisterDevice(h, d, s) BY DEF JoinGroups
<1> HIDE DEF h, s
<1>4. Renewed(h, RegisterDevice(h, d, s), d) BY <1>1, <1>2, Registering DEF Marked, GroupsRight
<1>5. QED BY <1>1, <1>3, <1>4 DEF Renewed, Marked

LEMMA MessagesRenew ==
  ASSUME NEW g, GroupsRight(g), NEW d \in Devices, NEW ip \in Ips, NEW keys \in SUBSET Keys, keys # {}
  PROVE  /\ Renewed(g, PingGroups(g, d, ip, keys), d)
         /\ Renewed(g, RescanGroups(g, d, ip, keys), d)
         /\ Renewed(g, CreateGroups(g, d, ip, keys), d)
         /\ Renewed(g, ProfileGroups(g, d, ip, keys), d)
<1>1. Renewed(g, PingGroups(g, d, ip, keys), d) BY Ensuring DEF PingGroups, SigsOf
<1>2. Renewed(g, RescanGroups(g, d, ip, keys), d) BY Ensuring DEF RescanGroups, SigsOf
<1>3. Renewed(g, CreateGroups(g, d, ip, keys), d) BY Ensuring DEF CreateGroups, SigsOf
<1>4. Renewed(g, ProfileGroups(g, d, ip, keys), d)
  <2> DEFINE h == CreateGroups(g, d, ip, keys)
             s == [h.devices[d] EXCEPT !.sig = Sig[d]]
             sigs == (UNION {SigsOf(o) : o \in Devices}) \cup {"none"}
             ips == Ips \cup {NoSession.ip}
  <2>1. Renewed(g, h, d) BY <1>3
  <2>2. ProfileGroups(g, d, ip, keys) = Update(h, d, s) BY DEF ProfileGroups
  <2> HIDE DEF h
  <2>3. h.devices[d] \in Sessions /\ Fit(h.devices[d], d) /\ h.devices[d].timer = FALSE
    <3>1. h.devices[d] \in Sessions BY <2>1 DEF Renewed, GroupsRight, GroupsTyped
    <3>2. h.devices[d].keys # {} /\ ~h.devices[d].timer BY <2>1 DEF Renewed
    <3>3. Fit(h.devices[d], d) BY <2>1, <3>2, Nobody DEF Renewed, GroupsRight, GroupsTyped
    <3>4. QED BY <3>1, <3>2, <3>3 DEF Sessions
  <2>4. Sig[d] \in sigs BY DEF SigsOf
  <2>5. Sessions = [keys : SUBSET Keys, sig : sigs, ip : ips, timer : BOOLEAN, stale : BOOLEAN]
    BY DEF Sessions
  <2> HIDE DEF sigs, ips
  <2>6. /\ s \in Sessions /\ s.keys = h.devices[d].keys /\ s.sig = Sig[d] /\ s.ip = h.devices[d].ip
        /\ s.timer = FALSE
    BY <2>3, <2>4, <2>5
  <2> HIDE DEF s
  <2>7. Fit(s, d) BY <2>3, <2>6 DEF Fit, SigsOf
  <2>8. GroupsRight(h) BY <2>1 DEF Renewed
  <2>9. Renewed(h, Update(h, d, s), d) BY <2>6, <2>7, <2>8, UpdatedOnly
  <2>10. QED BY <2>1, <2>2, <2>9 DEF Renewed
<1>5. QED BY <1>1, <1>2, <1>3, <1>4

-----------------------------------------------------------------------------
RoomType == [peers : SUBSET Devices, locked : BOOLEAN, life : {"active", "idle", "old"}]

\* A number of peers that a room may have
Peopled(peers) == IsFiniteSet(peers) /\ Cardinality(peers) \in 1 .. RoomMaxPeers

RoomsRight(r) ==
  /\ DOMAIN r \subseteq Codes
  /\ \A c \in DOMAIN r : r[c] \in RoomType /\ Peopled(r[c].peers)

\* A change of the rooms: nobody takes a seat but the new ones.
Seats(r, q, new) ==
  /\ RoomsRight(q)
  /\ \A c \in DOMAIN q : \A o \in q[c].peers : o \in new \/ (c \in DOMAIN r /\ o \in r[c].peers)

LEMMA Some ==
  ASSUME NEW peers, IsFiniteSet(peers), NEW fewer \in SUBSET peers, fewer # {},
         Cardinality(peers) <= RoomMaxPeers
  PROVE  Peopled(fewer)
<1>1. IsFiniteSet(fewer) /\ Cardinality(fewer) <= Cardinality(peers) BY FS_Subset
<1>2. Cardinality(fewer) \in Nat /\ Cardinality(peers) \in Nat BY <1>1, FS_CardinalityType
<1>3. Cardinality(fewer) # 0 BY <1>1, FS_EmptySet
<1>4. RoomMaxPeers \in Nat BY RoomMaxPeersAssumption
<1>5. QED BY <1>1, <1>2, <1>3, <1>4 DEF Peopled

LEMMA Touching ==
  ASSUME NEW room \in RoomType, NEW peers \in SUBSET Devices
  PROVE  Touched(room, peers) \in RoomType /\ Touched(room, peers).peers = peers
  BY DEF RoomType, Touched

LEMMA Dropping ==
  ASSUME NEW r, RoomsRight(r), NEW codes, NEW new
  PROVE  Seats(r, DropRooms(r, codes), new)
  BY DEF RoomsRight, DropRooms, Seats

LEMMA Creating ==
  ASSUME NEW r, RoomsRight(r), NEW code \in Codes, NEW d \in Devices, NEW locked \in BOOLEAN
  PROVE  Seats(r, CreateRoom(r, code, d, locked), {d})
<1> DEFINE room == [peers |-> {d}, locked |-> locked, life |-> "active"]
           q == CreateRoom(r, code, d, locked)
<1>1. room \in RoomType /\ room.peers = {d} BY DEF RoomType
<1>2. Peopled({d})
  <2>1. IsFiniteSet({d}) /\ Cardinality({d}) = 1 BY FS_Singleton
  <2>2. QED BY <2>1, RoomMaxPeersAssumption DEF Peopled, RoomMaxPeersAssumption
<1>3. q = [c \in DOMAIN r \cup {code} |-> IF c = code THEN room ELSE r[c]] BY DEF CreateRoom
<1> HIDE DEF room, q
<1>4. DOMAIN q = DOMAIN r \cup {code} /\ \A c \in DOMAIN q : q[c] = IF c = code THEN room ELSE r[c]
  BY <1>3
<1>5. Seats(r, q, {d}) BY <1>1, <1>2, <1>4 DEF RoomsRight, Seats
<1>6. QED BY <1>5 DEF q

\* One room gets other peers.
LEMMA Reseating ==
  ASSUME NEW r, RoomsRight(r), NEW code \in DOMAIN r, NEW new \in SUBSET Devices, NEW peers, Peopled(peers),
         peers \subseteq r[code].peers \cup new
  PROVE  Seats(r, [r EXCEPT ![code] = Touched(@, peers)], new)
<1> DEFINE q == [r EXCEPT ![code] = Touched(@, peers)]
           room == Touched(r[code], peers)
<1>1. r[code].peers \subseteq Devices BY DEF RoomsRight, RoomType
<1>2. room \in RoomType /\ room.peers = peers BY <1>1, Touching DEF RoomsRight
<1>3. q = [r EXCEPT ![code] = room] OBVIOUS
<1> HIDE DEF room, q
<1>4. DOMAIN q = DOMAIN r /\ \A c \in DOMAIN q : q[c] = IF c = code THEN room ELSE r[c] BY <1>3
<1>5. Seats(r, q, new) BY <1>2, <1>4 DEF RoomsRight, Seats
<1>6. QED BY <1>5 DEF q

LEMMA Joining ==
  ASSUME NEW g, NEW r, RoomsRight(r), NEW code, NEW d \in Devices, NEW knows \in BOOLEAN
  PROVE  Seats(r, JoinRoomRooms(g, r, code, d, knows), {d})
<1>1. CASE ~CanJoin(r, code, d, knows) BY <1>1, Dropping DEF JoinRoomRooms, JoinRoom
<1>2. CASE CanJoin(r, code, d, knows)
  <2> DEFINE joined == r[code].peers \cup {d}
             seated == [r EXCEPT ![code] = Touched(@, joined)]
             ghosts == RoomGhosts(g, seated, code, d)
  <2>1. code \in DOMAIN r /\ r[code] \in RoomType /\ Peopled(r[code].peers)
    BY <1>2 DEF CanJoin, RoomsRight
  <2>2. Cardinality(r[code].peers) < RoomMaxPeers \/ d \in r[code].peers
    <3>1. Cardinality(r[code].peers) \in Nat /\ RoomMaxPeers \in Nat
      BY <2>1, FS_CardinalityType, RoomMaxPeersAssumption DEF Peopled, RoomMaxPeersAssumption
    <3>2. QED BY <1>2, <3>1 DEF CanJoin, Full
  <2>3. IsFiniteSet(joined) /\ Cardinality(joined) <= RoomMaxPeers
    <3>1. IsFiniteSet(r[code].peers) /\ Cardinality(r[code].peers) \in 1 .. RoomMaxPeers
          /\ RoomMaxPeers \in Nat
      BY <2>1, RoomMaxPeersAssumption DEF Peopled, RoomMaxPeersAssumption
    <3>2. CASE d \in r[code].peers
      <4>1. joined = r[code].peers BY <3>2
      <4>2. QED BY <3>1, <4>1
    <3>3. CASE d \notin r[code].peers
      <4>1. IsFiniteSet(joined) /\ Cardinality(joined) = Cardinality(r[code].peers) + 1
        BY <3>1, <3>3, FS_AddElement
      <4>2. QED BY <2>2, <3>1, <3>3, <4>1
    <3>4. QED BY <3>2, <3>3
  <2>4. joined # {} /\ d \in joined /\ joined \in SUBSET Devices BY <2>1 DEF RoomType
  <2>5. Peopled(joined) BY <2>3, <2>4, Some
  <2>6. Seats(r, seated, {d})
    <3> HIDE DEF joined
    <3>1. joined \subseteq r[code].peers \cup {d} BY DEF joined
    <3>2. QED BY <2>1, <2>5, <3>1, Reseating
  <2>7. seated[code].peers = joined /\ code \in DOMAIN seated BY <2>1, <2>4, Touching
  <2>8. JoinRoomRooms(g, r, code, d, knows) =
          [seated EXCEPT ![code] = Touched(@, @.peers \ ghosts)]
    BY <1>2 DEF JoinRoomRooms, JoinRoom
  <2>9. d \notin ghosts BY DEF RoomGhosts
  <2> HIDE DEF seated, ghosts, joined
  <2>10. Peopled(joined \ ghosts)
    <3>1. joined \ ghosts \in SUBSET joined /\ joined \ ghosts # {} BY <2>4, <2>9
    <3>2. QED BY <2>3, <3>1, Some
  <2>11. Seats(seated, [seated EXCEPT ![code] = Touched(@, joined \ ghosts)], {d})
    <3>1. RoomsRight(seated) BY <2>6 DEF Seats
    <3>2. joined \ ghosts \subseteq seated[code].peers \cup {d} BY <2>7
    <3>3. QED BY <2>7, <2>10, <3>1, <3>2, Reseating
  <2>12. [seated EXCEPT ![code] = Touched(@, @.peers \ ghosts)] =
           [seated EXCEPT ![code] = Touched(@, joined \ ghosts)]
    BY <2>7
  <2>13. QED BY <2>6, <2>8, <2>11, <2>12 DEF Seats
<1>3. QED BY <1>1, <1>2

LEMMA Leaving ==
  ASSUME NEW r, RoomsRight(r), NEW code, NEW d \in Devices
  PROVE  Seats(r, LeaveRoom(r, code, d), {})
<1>1. CASE code \notin DOMAIN r BY <1>1 DEF LeaveRoom, Seats
<1>2. CASE code \in DOMAIN r /\ r[code].peers \ {d} = {} BY <1>2, Dropping DEF LeaveRoom
<1>3. CASE code \in DOMAIN r /\ r[code].peers \ {d} # {}
  <2> DEFINE peers == r[code].peers \ {d}
  <2>1. IsFiniteSet(r[code].peers) /\ Cardinality(r[code].peers) <= RoomMaxPeers
    BY <1>3, RoomMaxPeersAssumption DEF RoomsRight, Peopled, RoomMaxPeersAssumption
  <2>2. Peopled(peers) BY <1>3, <2>1, Some
  <2>3. LeaveRoom(r, code, d) = [r EXCEPT ![code] = Touched(@, peers)] BY <1>3 DEF LeaveRoom
  <2>4. peers \subseteq r[code].peers \cup {} OBVIOUS
  <2> HIDE DEF peers
  <2>5. Seats(r, [r EXCEPT ![code] = Touched(@, peers)], {}) BY <1>3, <2>2, <2>4, Reseating
  <2>6. QED BY <2>3, <2>5
<1>4. QED BY <1>1, <1>2, <1>3

LEMMA LeavingAll ==
  ASSUME NEW r, RoomsRight(r), NEW d \in Devices
  PROVE  /\ Seats(r, LeaveAll(r, RoomsOf(r, d), d), {})
         /\ \A c \in DOMAIN LeaveAll(r, RoomsOf(r, d), d) : d \notin LeaveAll(r, RoomsOf(r, d), d)[c].peers
<1> DEFINE codes == RoomsOf(r, d)
           q == LeaveAll(r, codes, d)
<1>1. /\ DOMAIN q = {c \in DOMAIN r : c \in codes => r[c].peers \ {d} # {}}
      /\ \A c \in DOMAIN q : q[c] = IF c \in codes THEN Touched(r[c], r[c].peers \ {d}) ELSE r[c]
  BY DEF LeaveAll
<1>2. \A c \in DOMAIN r : c \notin codes => d \notin r[c].peers BY DEF RoomsOf
<1> HIDE DEF q, codes
<1>3. ASSUME NEW c \in DOMAIN q
      PROVE  /\ c \in DOMAIN r /\ q[c] \in RoomType /\ Peopled(q[c].peers)
             /\ q[c].peers \subseteq r[c].peers /\ d \notin q[c].peers
  <2>1. c \in DOMAIN r /\ r[c] \in RoomType /\ Peopled(r[c].peers) BY <1>1, <1>3 DEF RoomsRight
  <2>2. CASE c \notin codes BY <1>1, <1>2, <1>3, <2>1, <2>2
  <2>3. CASE c \in codes
    <3> DEFINE peers == r[c].peers \ {d}
    <3>1. peers # {} /\ q[c] = Touched(r[c], peers) /\ peers \in SUBSET Devices
      BY <1>1, <1>3, <2>1, <2>3 DEF RoomType
    <3>2. q[c] \in RoomType /\ q[c].peers = peers BY <2>1, <3>1, Touching
    <3>3. IsFiniteSet(r[c].peers) /\ Cardinality(r[c].peers) <= RoomMaxPeers /\ peers \in SUBSET r[c].peers
      BY <2>1, RoomMaxPeersAssumption DEF Peopled, RoomMaxPeersAssumption
    <3>4. d \notin peers OBVIOUS
    <3> HIDE DEF peers
    <3>5. Peopled(peers) BY <3>1, <3>3, Some
    <3>6. QED BY <2>1, <3>2, <3>3, <3>4, <3>5
  <2>4. QED BY <2>2, <2>3
<1>4. Seats(r, q, {}) BY <1>1, <1>3 DEF Seats, RoomsRight
<1>5. QED BY <1>3, <1>4 DEF q, codes

-----------------------------------------------------------------------------
PlacesTyped ==
  /\ conns \in [Devices -> Links]
  /\ open \in [Devices -> SUBSET Conns]
  /\ link \in [Devices -> Links]
  /\ place \in [Devices -> DOMAIN Places]
  /\ probed \in [Devices -> DOMAIN Places \cup {Nowhere}]
  /\ unwatched \in [Devices -> BOOLEAN]
  /\ stray \in 0 .. MaxStray
  /\ scene \in Scenes

\* Only those who take part connect.
Players == \A d \in Devices : Online(d) => d \in scene.active

\* The two halves of StaysReachable, and the half of SeatsTaken that is not about numbers
GraceAlone == \A d \in Devices : groups.devices[d].timer => conns[d] = NoConn
Newer == \A d \in Devices : stray = 0 /\ link[d] \in open[d] => SameConn(conns[d], link[d])
Seated == \A c \in DOMAIN rooms : \A d \in rooms[c].peers : Unique(d) => d \in Registered(groups)

PresenceInv ==
  /\ PlacesTyped /\ Players
  /\ GroupsRight(groups) /\ RoomsRight(rooms)
  /\ GraceAlone /\ Newer /\ Seated

\* The conjuncts that do not depend on the connections
ServerInv == GroupsRight(groups) /\ RoomsRight(rooms) /\ Seated

LEMMA Transports ==
  /\ NoConn.transport = "none" /\ NoConn \in Links
  /\ \A p : Poll(p).transport = "poll" /\ Poll(p) # NoConn /\ Poll(p) \notin Conns
  /\ \A p \in DOMAIN Places : Poll(p) \in Links
  /\ \A c \in Conns : c.transport \in {"ws", "sse"} /\ c # NoConn /\ c \in Links
<1>1. NoConn.transport = "none" BY DEF NoConn
<1>2. \A p : Poll(p).transport = "poll" BY DEF Poll
<1>3. \A c \in Conns : c.transport \in {"ws", "sse"} BY DEF Conns
<1>4. QED BY <1>1, <1>2, <1>3 DEF Links

LEMMA StillSeated ==
  ASSUME NEW d \in Devices, PresenceInv, d \in scene.active, scene' = scene,
         Renewed(groups, groups', d), Seats(rooms, rooms', {d})
  PROVE  ServerInv'
<1>1. GroupsRight(groups)' BY DEF Renewed
<1>2. RoomsRight(rooms)' BY DEF Seats
<1>3. d \in Registered(groups') BY Nobody DEF Renewed, Registered
<1>4. ASSUME NEW c \in DOMAIN rooms', NEW o \in rooms'[c].peers, Unique(o)
      PROVE  o \in Registered(groups')
  <2>1. CASE o = d BY <1>3, <2>1
  <2>2. CASE o # d
    <3>1. c \in DOMAIN rooms /\ o \in rooms[c].peers BY <2>2 DEF Seats
    <3>2. o \in Registered(groups) BY <1>4, <3>1 DEF PresenceInv, Seated
    <3>3. ~Alike(o, d) BY <1>4, <2>2 DEF Unique, Alike
    <3>4. groups'.devices[o] = groups.devices[o] BY <2>2, <3>2, <3>3 DEF Renewed, Registered
    <3>5. QED BY <3>2, <3>4 DEF Registered
  <2>3. QED BY <2>1, <2>2
<1>5. Seated' BY <1>4 DEF Seated, Unique
<1>6. QED BY <1>1, <1>2, <1>5 DEF ServerInv

LEMMA StillGrace ==
  ASSUME NEW d \in Devices, PresenceInv, Renewed(groups, groups', d),
         \A o \in Devices \ {d} : conns'[o] = conns[o]
  PROVE  GraceAlone'
  BY Nobody DEF PresenceInv, GraceAlone, Renewed

LEMMA MarkedSeated ==
  ASSUME NEW d \in Devices, PresenceInv, scene' = scene, Marked(groups, groups', d),
         Seats(rooms, rooms', {})
  PROVE  ServerInv'
<1>1. GroupsRight(groups)' /\ Registered(groups') = Registered(groups) BY DEF Marked
<1>2. RoomsRight(rooms)' BY DEF Seats
<1>3. Seated' BY <1>1 DEF PresenceInv, Seated, Seats, Unique
<1>4. QED BY <1>1, <1>2, <1>3 DEF ServerInv

LEMMA SeatsStay ==
  ASSUME NEW new, RoomsRight(rooms), rooms' = rooms
  PROVE  Seats(rooms, rooms', new)
  BY DEF Seats

LEMMA Assembled ==
  ASSUME PlacesTyped', Players', ServerInv', GraceAlone', Newer'
  PROVE  PresenceInv'
  BY DEF PresenceInv, ServerInv

\* The connection of a message
Sound(d) ==
  /\ conns' \in [Devices -> Links] /\ unwatched' \in [Devices -> BOOLEAN]
  /\ \A o \in Devices \ {d} : conns'[o] = conns[o]

LEMMA Contacts ==
  ASSUME NEW d \in Devices, PlacesTyped, NEW c \in Links, Contact(d, c)
  PROVE  Sound(d) /\ conns'[d] = c
  BY DEF PlacesTyped, Contact, RegisterConnection, Sound

LEMMA PostContacts ==
  ASSUME NEW d \in Devices, PlacesTyped, Post(d)
  PROVE  Sound(d) /\ (conns[d] # NoConn => conns'[d] = conns[d])
<1>1. CASE conns[d] = NoConn
  <2>1. Poll(place[d]) \in Links BY Transports DEF PlacesTyped
  <2>2. QED BY <1>1, <2>1, Contacts DEF Post
<1>2. CASE conns[d] # NoConn BY <1>2 DEF Post, Sound, PlacesTyped
<1>3. QED BY <1>1, <1>2

LEMMA Usual ==
  ASSUME NEW d \in Devices, PresenceInv, UsualContact(d)
  PROVE  /\ Sound(d) /\ d \in scene.active
         /\ stray = 0 /\ link[d] \in open[d] => SameConn(conns'[d], link[d])
<1>1. PlacesTyped /\ Online(d) /\ link[d] \in Links BY DEF PresenceInv, PlacesTyped, UsualContact
<1>2. d \in scene.active BY <1>1 DEF PresenceInv, Players
<1>3. CASE link[d].transport # "ws"
  <2>1. Sound(d) /\ (conns[d] # NoConn => conns'[d] = conns[d])
    BY <1>1, <1>3, PostContacts DEF UsualContact
  <2>2. ASSUME stray = 0, link[d] \in open[d] PROVE SameConn(conns'[d], link[d])
    <3>1. SameConn(conns[d], link[d]) BY <2>2 DEF PresenceInv, Newer
    <3>2. link[d].transport # "none" BY <1>1, <2>2, Transports DEF PlacesTyped
    <3>3. conns[d] # NoConn BY <3>1, <3>2, Transports DEF SameConn
    <3>4. QED BY <2>1, <3>1, <3>3
  <2>3. QED BY <1>2, <2>1, <2>2
<1>4. CASE link[d].transport = "ws"
  <2>1. Sound(d) /\ conns'[d] = link[d] BY <1>1, <1>4, Contacts DEF UsualContact
  <2>2. QED BY <1>2, <2>1 DEF SameConn
<1>5. QED BY <1>3, <1>4

LEMMA UsualKeeps ==
  ASSUME NEW d \in Devices, PresenceInv, UsualContact(d), UNCHANGED <<open, link, stray, scene>>,
         place' = place, probed' \in [Devices -> DOMAIN Places \cup {Nowhere}]
  PROVE  PlacesTyped' /\ Players' /\ Newer'
<1>1. /\ Sound(d) /\ (stray = 0 /\ link[d] \in open[d] => SameConn(conns'[d], link[d])) BY Usual
<1>2. PlacesTyped' BY <1>1 DEF PresenceInv, PlacesTyped, Sound
<1>3. Players' BY DEF PresenceInv, Players, Online
<1>4. Newer' BY <1>1 DEF PresenceInv, Newer, Sound
<1>5. QED BY <1>2, <1>3, <1>4

\* A message of a page over its usual connection
LEMMA MessageKeeps ==
  ASSUME NEW d \in Devices, PresenceInv, UsualContact(d), UNCHANGED <<open, link, stray, scene>>,
         place' = place, probed' \in [Devices -> DOMAIN Places \cup {Nowhere}],
         Renewed(groups, groups', d), Seats(rooms, rooms', {d})
  PROVE  PresenceInv'
<1>1. PlacesTyped' /\ Players' /\ Newer' BY UsualKeeps
<1>2. Sound(d) /\ d \in scene.active BY Usual
<1>3. ServerInv' BY <1>2, StillSeated
<1>4. GraceAlone' BY <1>2, StillGrace DEF Sound
<1>5. QED BY <1>1, <1>3, <1>4, Assembled

\* The keys and the address of a message
LEMMA Addresses ==
  ASSUME NEW d \in Devices, PresenceInv
  PROVE  /\ \A p \in DOMAIN Places : Ip[p] \in Ips /\ KeysFrom[p] \in SUBSET Keys /\ KeysFrom[p] # {}
         /\ place[d] \in DOMAIN Places
         /\ KeysWith[place[d]][probed[d]] \in SUBSET Keys /\ KeysWith[place[d]][probed[d]] # {}
         /\ KeysWith[place[d]][place[d]] \in SUBSET Keys /\ KeysWith[place[d]][place[d]] # {}
<1>1. /\ place[d] \in DOMAIN Places /\ probed[d] \in DOMAIN Places \cup {Nowhere}
      /\ place[d] \in DOMAIN Places \cup {Nowhere}
  BY DEF PresenceInv, PlacesTyped
<1>2. \A p \in DOMAIN Places : Ip[p] \in Ips BY DEF Ips
<1>3. QED BY <1>1, <1>2, SomeKeys

-----------------------------------------------------------------------------
LEMMA ConnectKeeps ==
  ASSUME PresenceInv, NEW d \in Devices, NEW transport \in {"ws", "sse", "poll"}, Connect(d, transport)
  PROVE  PresenceInv'
<1>1. PlacesTyped /\ GroupsRight(groups) /\ RoomsRight(rooms) BY DEF PresenceInv
<1>2. PICK c \in Links : /\ link' = [link EXCEPT ![d] = c]
                         /\ open' = [open EXCEPT ![d] = @ \cup ({c} \cap Conns)]
                         /\ Contact(d, c) \/ (c \notin Conns /\ Post(d))
  BY <1>1, Transports DEF Connect, PlacesTyped
<1>3. d \in scene.active /\ UNCHANGED <<place, probed, stray, scene>> BY DEF Connect
<1>4. Sound(d) /\ (c \in Conns => conns'[d] = c) BY <1>1, <1>2, Contacts, PostContacts
<1>5. Renewed(groups, groups', d)
  <2>1. groups' = JoinGroups(groups, d, Ip[place[d]], KeysWith[place[d]][probed[d]]) BY DEF Connect
  <2>2. QED BY <1>1, <2>1, Addresses, JoinRenews
<1>6. Seats(rooms, rooms', {d})
  <2>1. \/ rooms' = rooms
        \/ \E code : rooms' = JoinRoomRooms(groups', rooms, code, d, FALSE)
    BY DEF Connect
  <2>2. QED BY <1>1, <2>1, Joining, SeatsStay
<1>7. ServerInv' /\ GraceAlone' BY <1>3, <1>4, <1>5, <1>6, StillSeated, StillGrace DEF Sound
<1>8. link' \in [Devices -> Links] /\ open' \in [Devices -> SUBSET Conns] BY <1>1, <1>2 DEF PlacesTyped
<1>9. PlacesTyped' BY <1>1, <1>3, <1>4, <1>8 DEF PlacesTyped, Sound
<1>10. link'[d] = c /\ \A o \in Devices \ {d} : link'[o] = link[o] /\ open'[o] = open[o]
  BY <1>1, <1>2 DEF PlacesTyped
<1>11. Players' BY <1>3, <1>10 DEF PresenceInv, Players, Online
<1>12. Newer'
  <2>1. link'[d] \in open'[d] => SameConn(conns'[d], link'[d]) BY <1>4, <1>8, <1>10 DEF SameConn
  <2>2. QED BY <1>3, <1>4, <1>10, <2>1 DEF PresenceInv, Newer, Sound
<1>13. QED BY <1>7, <1>9, <1>11, <1>12, Assembled

LEMMA LongPollKeeps ==
  ASSUME PresenceInv, NEW d \in Devices, LongPoll(d)
  PROVE  PresenceInv'
<1>1. PlacesTyped /\ GroupsRight(groups) /\ RoomsRight(rooms) BY DEF PresenceInv
<1>2. UNCHANGED <<rooms, open, link, place, probed, stray, scene>> BY DEF LongPoll
<1>3. Sound(d) /\ conns'[d] = link[d] BY <1>1, Contacts DEF LongPoll, PlacesTyped
<1>4. Marked(groups, groups', d) /\ groups'.devices[d].timer = FALSE
  BY <1>1, Timers DEF LongPoll, CancelDisconnect
<1>5. ServerInv' BY <1>1, <1>2, <1>4, MarkedSeated, SeatsStay
<1>6. GraceAlone' BY <1>3, <1>4 DEF PresenceInv, GraceAlone, Marked, Sound
<1>7. PlacesTyped' /\ Players' BY <1>1, <1>2, <1>3 DEF PresenceInv, PlacesTyped, Players, Online, Sound
<1>8. Newer' BY <1>2, <1>3 DEF PresenceInv, Newer, Sound, SameConn
<1>9. QED BY <1>5, <1>6, <1>7, <1>8, Assembled

LEMMA MessagesKeep ==
  ASSUME PresenceInv, NEW d \in Devices,
         Reprobe(d) \/ Ping(d) \/ Rescan(d) \/ \E code \in Codes : StartRoom(d, code) \/ EnterRoom(d, code)
  PROVE  PresenceInv'
<1>1. GroupsRight(groups) /\ RoomsRight(rooms) /\ scene \in Scenes BY DEF PresenceInv, PlacesTyped
<1>2. /\ probed \in [Devices -> DOMAIN Places \cup {Nowhere}] /\ place \in [Devices -> DOMAIN Places]
  BY DEF PresenceInv, PlacesTyped
<1>3. CASE Reprobe(d)
  <2>1. Renewed(groups, groups', d) BY <1>1, <1>3, Addresses, JoinRenews DEF Reprobe
  <2>2. Seats(rooms, rooms', {d}) BY <1>1, <1>3, SeatsStay DEF Reprobe
  <2>3. probed' \in [Devices -> DOMAIN Places \cup {Nowhere}] BY <1>2, <1>3 DEF Reprobe
  <2>4. QED BY <1>3, <2>1, <2>2, <2>3, MessageKeeps DEF Reprobe
<1>4. CASE Ping(d)
  <2>1. Renewed(groups, groups', d) BY <1>1, <1>4, Addresses, MessagesRenew DEF Ping
  <2>2. Seats(rooms, rooms', {d}) BY <1>1, <1>4, SeatsStay DEF Ping
  <2>3. QED BY <1>2, <1>4, <2>1, <2>2, MessageKeeps DEF Ping
<1>5. CASE Rescan(d)
  <2>1. Renewed(groups, groups', d) BY <1>1, <1>5, Addresses, MessagesRenew DEF Rescan
  <2>2. Seats(rooms, rooms', {d}) BY <1>1, <1>5, SeatsStay DEF Rescan
  <2>3. QED BY <1>2, <1>5, <2>1, <2>2, MessageKeeps DEF Rescan
<1>6. ASSUME NEW code \in Codes, StartRoom(d, code) PROVE PresenceInv'
  <2>1. Renewed(groups, groups', d) BY <1>1, <1>6, Addresses, MessagesRenew DEF StartRoom
  <2>2. PICK locked \in BOOLEAN : rooms' = CreateRoom(rooms, code, d, locked)
    BY <1>1, <1>6, PresenceAssumption DEF StartRoom, PresenceAssumption
  <2>3. Seats(rooms, rooms', {d}) BY <1>1, <2>2, Creating
  <2>4. QED BY <1>2, <1>6, <2>1, <2>3, MessageKeeps DEF StartRoom
<1>7. ASSUME NEW code \in Codes, EnterRoom(d, code) PROVE PresenceInv'
  <2>1. Renewed(groups, groups', d) BY <1>1, <1>7, Addresses, MessagesRenew DEF EnterRoom
  <2>2. \/ rooms' = rooms
        \/ \E knows \in BOOLEAN : rooms' = JoinRoomRooms(groups', rooms, code, d, knows)
    BY <1>7 DEF EnterRoom
  <2>3. Seats(rooms, rooms', {d}) BY <1>1, <2>2, Joining, SeatsStay
  <2>4. QED BY <1>2, <1>7, <2>1, <2>3, MessageKeeps DEF EnterRoom
<1>8. QED BY <1>3, <1>4, <1>5, <1>6, <1>7

\* The rooms alone change.
LEMMA RoomsKeep ==
  ASSUME PresenceInv, Seats(rooms, rooms', {}),
         UNCHANGED <<groups, conns, open, link, place, probed, unwatched, stray, scene>>
  PROVE  PresenceInv'
<1>1. PlacesTyped' /\ Players' /\ GraceAlone' /\ Newer'
  BY DEF PresenceInv, PlacesTyped, Players, Online, GraceAlone, Newer
<1>2. GroupsRight(groups)' /\ RoomsRight(rooms)' BY DEF PresenceInv, Seats
<1>3. Seated' BY DEF PresenceInv, Seated, Seats, Unique
<1>4. QED BY <1>1, <1>2, <1>3 DEF PresenceInv

LEMMA ExpiryKeeps ==
  ASSUME PresenceInv, PruneRooms \/ \E code \in Codes : AgeRoom(code)
  PROVE  PresenceInv'
<1>1. RoomsRight(rooms) BY DEF PresenceInv
<1>2. CASE PruneRooms
  <2>1. Seats(rooms, rooms', {}) BY <1>1, <1>2, Dropping DEF PruneRooms, PruneExpiredRooms
  <2>2. QED BY <1>2, <2>1, RoomsKeep DEF PruneRooms
<1>3. ASSUME NEW code \in Codes, AgeRoom(code) PROVE PresenceInv'
  <2>1. PICK life \in {"idle", "old"} : rooms' = [rooms EXCEPT ![code].life = life] BY <1>3 DEF AgeRoom
  <2>2. code \in DOMAIN rooms /\ rooms[code] \in RoomType BY <1>1, <1>3 DEF AgeRoom, RoomsRight
  <2> DEFINE room == [rooms[code] EXCEPT !.life = life]
  <2>3. room \in RoomType /\ room.peers = rooms[code].peers BY <2>2 DEF RoomType
  <2>4. rooms' = [rooms EXCEPT ![code] = room] BY <2>1
  <2> HIDE DEF room
  <2>5. DOMAIN rooms' = DOMAIN rooms /\ \A c \in DOMAIN rooms' : rooms'[c] = IF c = code THEN room ELSE rooms[c]
    BY <2>4
  <2>6. Seats(rooms, rooms', {}) BY <1>1, <2>3, <2>5 DEF Seats, RoomsRight
  <2>7. QED BY <1>3, <2>6, RoomsKeep DEF AgeRoom
<1>4. QED BY <1>2, <1>3

LEMMA ExitRoomKeeps ==
  ASSUME PresenceInv, NEW d \in Devices, ExitRoom(d)
  PROVE  PresenceInv'
<1>1. GroupsRight(groups) /\ RoomsRight(rooms) BY DEF PresenceInv
<1>2. UNCHANGED <<open, link, place, probed, stray, scene>> BY DEF ExitRoom
<1>3. CASE UNCHANGED <<groups, rooms, conns, unwatched>> BY <1>1, <1>2, <1>3, RoomsKeep, SeatsStay
<1>4. CASE /\ UsualContact(d) /\ groups' = CancelDisconnect(groups, d)
           /\ rooms' = LeaveRoom(rooms, view[d].room, d)
  <2>1. Marked(groups, groups', d) /\ groups'.devices[d].timer = FALSE
    BY <1>1, <1>4, Timers DEF CancelDisconnect
  <2>2. Seats(rooms, rooms', {}) BY <1>1, <1>4, Leaving
  <2>3. ServerInv' BY <1>2, <2>1, <2>2, MarkedSeated
  <2>4. probed' \in [Devices -> DOMAIN Places \cup {Nowhere}] BY <1>2 DEF PresenceInv, PlacesTyped
  <2>5. PlacesTyped' /\ Players' /\ Newer' /\ Sound(d) BY <1>2, <1>4, <2>4, UsualKeeps, Usual
  <2>6. GraceAlone' BY <2>1, <2>5 DEF PresenceInv, GraceAlone, Marked, Sound
  <2>7. QED BY <2>3, <2>5, <2>6, Assembled
<1>5. QED BY <1>3, <1>4 DEF ExitRoom

LEMMA DropKeeps ==
  ASSUME PresenceInv, NEW d \in Devices, Drop(d)
  PROVE  PresenceInv'
<1>1. /\ UNCHANGED <<groups, rooms, conns, open, place, probed, unwatched, stray, scene>>
      /\ link' = [link EXCEPT ![d] = NoConn]
  BY DEF Drop, serverVars
<1>2. link' \in [Devices -> Links] /\ link'[d] = NoConn /\ \A o \in Devices \ {d} : link'[o] = link[o]
  BY <1>1, Transports DEF PresenceInv, PlacesTyped
<1>3. PlacesTyped' BY <1>1, <1>2 DEF PresenceInv, PlacesTyped
<1>4. Players' BY <1>1, <1>2 DEF PresenceInv, Players, Online
<1>5. Newer'
  <2>1. link'[d] \notin open'[d] BY <1>1, <1>2, Transports DEF PresenceInv, PlacesTyped
  <2>2. QED BY <1>1, <1>2, <2>1 DEF PresenceInv, Newer
<1>6. GroupsRight(groups)' /\ RoomsRight(rooms)' /\ GraceAlone' /\ Seated'
  BY <1>1 DEF PresenceInv, GraceAlone, Seated, Unique
<1>7. QED BY <1>3, <1>4, <1>5, <1>6 DEF PresenceInv

LEMMA MoveKeeps ==
  ASSUME PresenceInv, NEW d \in Devices, NEW p \in DOMAIN Places, Move(d, p)
  PROVE  PresenceInv'
<1>1. /\ UNCHANGED <<groups, rooms, conns, open, probed, unwatched, stray, scene>>
      /\ place' = [place EXCEPT ![d] = p]
  BY DEF Move, serverVars
<1>2. PICK c \in {link[d], Poll(p), NoConn} :
        link' = [link EXCEPT ![d] = c] /\ (c = Poll(p) => link[d].transport = "poll" \/ c = link[d])
  <2>1. link \in [Devices -> Links] BY DEF PresenceInv, PlacesTyped
  <2>2. link = [link EXCEPT ![d] = link[d]] BY <2>1
  <2>3. CASE Ip[p] = Ip[place[d]] BY <2>2, <2>3 DEF Move
  <2>4. CASE Ip[p] # Ip[place[d]] /\ link[d].transport = "poll" BY <2>4 DEF Move
  <2>5. CASE Ip[p] # Ip[place[d]] /\ link[d].transport # "poll" BY <2>5, Transports DEF Move
  <2>6. QED BY <2>3, <2>4, <2>5
<1>3. c \in Links /\ (c \in Conns => c = link[d]) /\ (c # NoConn => link[d] # NoConn)
  <2>1. link[d] \in Links BY DEF PresenceInv, PlacesTyped
  <2>2. QED BY <1>2, <2>1, Transports
<1>4. link' \in [Devices -> Links] /\ link'[d] = c /\ \A o \in Devices \ {d} : link'[o] = link[o]
  BY <1>2, <1>3 DEF PresenceInv, PlacesTyped
<1>5. PlacesTyped' BY <1>1, <1>4 DEF PresenceInv, PlacesTyped
<1>6. Players' BY <1>1, <1>3, <1>4 DEF PresenceInv, Players, Online
<1>7. Newer'
  <2>1. link'[d] \in open'[d] => link'[d] = link[d] BY <1>1, <1>3, <1>4 DEF PresenceInv, PlacesTyped
  <2>2. QED BY <1>1, <1>4, <2>1 DEF PresenceInv, Newer
<1>8. GroupsRight(groups)' /\ RoomsRight(rooms)' /\ GraceAlone' /\ Seated'
  BY <1>1 DEF PresenceInv, GraceAlone, Seated, Unique
<1>9. QED BY <1>5, <1>6, <1>7, <1>8 DEF PresenceInv

LEMMA CloseKeeps ==
  ASSUME PresenceInv, NEW d \in Devices, NEW c \in open[d], Close(d, c)
  PROVE  PresenceInv'
<1>1. /\ UNCHANGED <<rooms, link, place, probed, unwatched, stray, scene>> /\ ~SameConn(c, link[d])
      /\ open' = [open EXCEPT ![d] = @ \ {c}]
  BY DEF Close
<1>2. PlacesTyped /\ GroupsRight(groups) /\ RoomsRight(rooms) /\ c \in Conns
  BY DEF PresenceInv, PlacesTyped
<1>3. open' \in [Devices -> SUBSET Conns] /\ \A o \in Devices : open'[o] \subseteq open[o]
  BY <1>1, <1>2 DEF PlacesTyped
<1>4. Players' BY <1>1 DEF PresenceInv, Players, Online
<1>5. Seats(rooms, rooms', {}) BY <1>1, <1>2, SeatsStay
<1>6. CASE UNCHANGED <<conns, groups>>
  <2>1. PlacesTyped' BY <1>1, <1>2, <1>3, <1>6 DEF PlacesTyped
  <2>2. Newer' BY <1>1, <1>3, <1>6 DEF PresenceInv, Newer
  <2>3. GroupsRight(groups)' /\ RoomsRight(rooms)' /\ GraceAlone' /\ Seated'
    BY <1>1, <1>6 DEF PresenceInv, GraceAlone, Seated, Unique
  <2>4. QED BY <1>4, <2>1, <2>2, <2>3 DEF PresenceInv
<1>7. CASE /\ ClosesSession(conns, d, c) /\ conns' = RemoveConnection(conns, d)
           /\ groups' = ScheduleDisconnect(groups, d)
  <2>1. conns' \in [Devices -> Links] /\ conns'[d] = NoConn /\ \A o \in Devices \ {d} : conns'[o] = conns[o]
    BY <1>2, <1>7, Transports DEF PlacesTyped, RemoveConnection
  <2>2. PlacesTyped' BY <1>1, <1>2, <1>3, <2>1 DEF PlacesTyped
  <2>3. Marked(groups, groups', d)
    <3>1. CASE d \in Registered(groups)
      <4>1. groups' = [groups EXCEPT !.devices[d].timer = TRUE] BY <1>7, <3>1 DEF ScheduleDisconnect
      <4>2. TRUE \in BOOLEAN OBVIOUS
      <4>3. QED BY <1>2, <3>1, <4>1, <4>2, Timers
    <3>2. CASE d \notin Registered(groups)
      BY <1>2, <1>7, <3>2 DEF ScheduleDisconnect, Marked
    <3>3. QED BY <3>1, <3>2
  <2>4. ServerInv' BY <1>1, <1>5, <2>3, MarkedSeated
  <2>5. GraceAlone' BY <2>1, <2>3 DEF PresenceInv, GraceAlone, Marked
  <2>6. ~(stray = 0 /\ link[d] \in open[d])
    <3>1. SUFFICES ASSUME stray = 0, link[d] \in open[d] PROVE FALSE OBVIOUS
    <3>2. SameConn(conns[d], link[d]) /\ link[d] \in Conns
      BY <1>2, <3>1 DEF PresenceInv, Newer, PlacesTyped
    <3>3. conns[d] # NoConn BY <3>2, Transports DEF SameConn
    <3>4. SameConn(conns[d], c) BY <1>7, <3>3 DEF ClosesSession
    <3>5. QED BY <1>1, <3>2, <3>4 DEF SameConn
  <2>7. Newer' BY <1>1, <1>3, <2>1, <2>6 DEF PresenceInv, Newer
  <2>8. QED BY <1>4, <2>2, <2>4, <2>5, <2>7, Assembled
<1>8. QED BY <1>6, <1>7 DEF Close

LEMMA DepartKeeps ==
  ASSUME PresenceInv, NEW d \in Devices, Depart(d)
  PROVE  PresenceInv'
<1>1. /\ UNCHANGED <<conns, open, link, place, probed, unwatched, stray, scene>>
      /\ groups' = RemoveDevice(groups, d) /\ rooms' = LeaveAll(rooms, RoomsOf(rooms, d), d)
  BY DEF Depart
<1>2. GroupsRight(groups) /\ RoomsRight(rooms) BY DEF PresenceInv
<1>3. /\ GroupsRight(groups') /\ groups'.devices[d] = NoSession
      /\ \A o \in Devices \ {d} : groups'.devices[o] = groups.devices[o]
  BY <1>1, <1>2, Removing
<1>4. Seats(rooms, rooms', {}) /\ \A c \in DOMAIN rooms' : d \notin rooms'[c].peers
  BY <1>1, <1>2, LeavingAll
<1>5. PlacesTyped' /\ Players' /\ Newer' BY <1>1 DEF PresenceInv, PlacesTyped, Players, Online, Newer
<1>6. GraceAlone' BY <1>1, <1>3, Nobody DEF PresenceInv, GraceAlone
<1>7. Seated'
  <2>1. SUFFICES ASSUME NEW c \in DOMAIN rooms', NEW o \in rooms'[c].peers, Unique(o)
                 PROVE  o \in Registered(groups')
    BY <1>1 DEF Seated, Unique
  <2>2. o # d /\ c \in DOMAIN rooms /\ o \in rooms[c].peers BY <1>4, <2>1 DEF Seats
  <2>3. o \in Registered(groups) BY <2>1, <2>2 DEF PresenceInv, Seated
  <2>4. QED BY <1>3, <2>2, <2>3 DEF Registered
<1>8. RoomsRight(rooms)' BY <1>4 DEF Seats
<1>9. QED BY <1>3, <1>5, <1>6, <1>7, <1>8 DEF PresenceInv

LEMMA GrowStaleKeeps ==
  ASSUME PresenceInv, NEW d \in Devices, GrowStale(d)
  PROVE  PresenceInv'
<1> DEFINE s == [groups.devices[d] EXCEPT !.stale = TRUE]
<1>1. /\ UNCHANGED <<rooms, conns, open, link, place, probed, unwatched, stray, scene>>
      /\ groups' = Update(groups, d, s) /\ d \in Registered(groups)
  BY DEF GrowStale
<1>2. GroupsRight(groups) /\ RoomsRight(rooms) BY DEF PresenceInv
<1>3. groups.devices[d] \in Sessions /\ Fit(groups.devices[d], d)
  BY <1>1, <1>2 DEF GroupsRight, GroupsTyped, Registered
<1>4. /\ s \in Sessions /\ s.keys = groups.devices[d].keys /\ s.sig = groups.devices[d].sig
      /\ s.ip = groups.devices[d].ip /\ s.timer = groups.devices[d].timer
  BY <1>3 DEF Sessions
<1> HIDE DEF s
<1>5. Fit(s, d) BY <1>3, <1>4 DEF Fit
<1>6. Marked(groups, groups', d) /\ groups'.devices[d] = s BY <1>1, <1>2, <1>4, <1>5, Marking
<1>7. ServerInv' BY <1>1, <1>2, <1>6, MarkedSeated, SeatsStay
<1>8. GraceAlone' BY <1>1, <1>4, <1>6 DEF PresenceInv, GraceAlone, Marked
<1>9. PlacesTyped' /\ Players' /\ Newer' BY <1>1 DEF PresenceInv, PlacesTyped, Players, Online, Newer
<1>10. QED BY <1>7, <1>8, <1>9, Assembled

LEMMA StrayKeeps ==
  ASSUME PresenceInv, NEW d \in Devices, Stray(d), Sound(d), ServerInv', GraceAlone',
         UNCHANGED <<open, link, place, probed, scene>>
  PROVE  PresenceInv'
<1>1. stray' \in 0 .. MaxStray /\ stray' # 0
  BY PresenceAssumption DEF Stray, PresenceInv, PlacesTyped, PresenceAssumption
<1>2. PlacesTyped' /\ Players' /\ Newer'
  BY <1>1 DEF PresenceInv, PlacesTyped, Players, Online, Newer, Sound
<1>3. QED BY <1>2, Assembled

LEMMA StraysKeep ==
  ASSUME PresenceInv, NEW d \in Devices,
         LaneTraffic(d) \/ LatePoll(d) \/ \E c \in open[d] \cup {Poll(place[d])} : LatePing(d, c)
  PROVE  PresenceInv'
<1>1. PlacesTyped /\ GroupsRight(groups) /\ RoomsRight(rooms) BY DEF PresenceInv
<1>2. CASE LaneTraffic(d)
  <2>1. Marked(groups, groups', d) /\ groups'.devices[d].timer = FALSE
    BY <1>1, <1>2, Timers DEF LaneTraffic, CancelDisconnect
  <2>2. UNCHANGED <<rooms, conns, open, link, place, probed, scene>> /\ Stray(d) BY <1>2 DEF LaneTraffic
  <2>3. ServerInv' BY <1>1, <2>1, <2>2, MarkedSeated, SeatsStay
  <2>4. GraceAlone' BY <2>1, <2>2 DEF PresenceInv, GraceAlone, Marked
  <2>5. unwatched' \in [Devices -> BOOLEAN] BY <1>1, <1>2 DEF LaneTraffic, PlacesTyped
  <2>6. Sound(d) BY <1>1, <2>2, <2>5 DEF Sound, PlacesTyped
  <2>7. QED BY <2>2, <2>3, <2>4, <2>6, StrayKeeps
<1>3. ASSUME NEW c \in open[d] \cup {Poll(place[d])}, LatePing(d, c) PROVE PresenceInv'
  <2>1. c \in Links /\ c.at \in DOMAIN Places
    <3>1. place[d] \in DOMAIN Places /\ open[d] \subseteq Conns BY <1>1 DEF PlacesTyped
    <3>2. CASE c \in open[d] BY <3>1, <3>2, Transports DEF Conns
    <3>3. CASE c = Poll(place[d]) BY <3>1, <3>3, Transports DEF Poll
    <3>4. QED BY <3>2, <3>3
  <2>2. Sound(d)
    <3>1. Contact(d, c) \/ Post(d) BY <1>3 DEF LatePing
    <3>2. QED BY <1>1, <2>1, <3>1, Contacts, PostContacts
  <2>3. /\ UNCHANGED <<rooms, open, link, place, probed, scene>> /\ Stray(d)
        /\ groups' = PingGroups(groups, d, Ip[c.at], KeysFrom[c.at])
    BY <1>3 DEF LatePing
  <2>4. d \in scene.active
    BY <1>1, <2>3, PresenceAssumption DEF Stray, PlacesTyped, PresenceAssumption
  <2>5. Renewed(groups, groups', d) BY <1>1, <2>1, <2>3, Addresses, MessagesRenew
  <2>6. ServerInv' BY <1>1, <2>3, <2>4, <2>5, StillSeated, SeatsStay
  <2>7. GraceAlone' BY <2>2, <2>5, StillGrace DEF Sound
  <2>8. QED BY <2>2, <2>3, <2>6, <2>7, StrayKeeps
<1>4. CASE LatePoll(d)
  <2>1. UNCHANGED <<rooms, open, link, place, probed, scene>> /\ Stray(d) BY <1>4 DEF LatePoll
  <2>2. Poll(place[d]) \in Links BY <1>1, Transports DEF PlacesTyped
  <2>3. Sound(d) BY <1>1, <1>4, <2>2, Contacts DEF LatePoll
  <2>4. Marked(groups, groups', d) /\ groups'.devices[d].timer = FALSE
    BY <1>1, <1>4, Timers DEF LatePoll, CancelDisconnect
  <2>5. ServerInv' BY <1>1, <2>1, <2>4, MarkedSeated, SeatsStay
  <2>6. GraceAlone' BY <2>3, <2>4 DEF PresenceInv, GraceAlone, Marked, Sound
  <2>7. QED BY <2>1, <2>3, <2>5, <2>6, StrayKeeps
<1>5. QED BY <1>2, <1>3, <1>4

-----------------------------------------------------------------------------
LEMMA PresenceStarts == Init => PresenceInv
<1>1. SUFFICES ASSUME Init PROVE PresenceInv OBVIOUS
<1>2. MaxStray \in Nat /\ Home \in [Devices -> DOMAIN Places]
  BY PresenceAssumption DEF PresenceAssumption
<1>3. PlacesTyped
  <2>1. conns \in [Devices -> Links] /\ link \in [Devices -> Links] BY <1>1, Transports DEF Init
  <2>2. open \in [Devices -> SUBSET Conns] /\ unwatched \in [Devices -> BOOLEAN] BY <1>1 DEF Init
  <2>3. probed \in [Devices -> DOMAIN Places \cup {Nowhere}] /\ place \in [Devices -> DOMAIN Places]
    BY <1>1, <1>2 DEF Init
  <2>4. stray \in 0 .. MaxStray /\ scene \in Scenes BY <1>1, <1>2 DEF Init
  <2>5. QED BY <2>1, <2>2, <2>3, <2>4 DEF PlacesTyped
<1>4. \A d \in Devices : link[d] = NoConn /\ open[d] = {} BY <1>1 DEF Init
<1>5. Players /\ Newer BY <1>4 DEF Players, Online, Newer
<1>6. \A d \in Devices : groups.devices[d] = NoSession BY <1>1 DEF Init, NoGroups
<1>7. GroupsRight(groups)
  <2>1. groups \in [devices : [Devices -> Sessions], keyToDevices : SUBSET (Keys \X Devices)]
    BY <1>1, Nobody DEF Init, NoGroups
  <2>2. QED BY <1>6, <2>1, Nobody DEF GroupsRight, GroupsTyped, Indexed
<1>8. DOMAIN rooms = {} BY <1>1 DEF Init
<1>9. RoomsRight(rooms) /\ Seated BY <1>8 DEF RoomsRight, Seated
<1>10. GraceAlone BY <1>6, Nobody DEF GraceAlone
<1>11. QED BY <1>3, <1>5, <1>7, <1>9, <1>10 DEF PresenceInv

LEMMA PresenceSteps == PresenceInv /\ [Next]_vars => PresenceInv'
<1>1. SUFFICES ASSUME PresenceInv, [Next]_vars PROVE PresenceInv' OBVIOUS
<1>2. CASE UNCHANGED vars
  BY <1>1, <1>2 DEF vars, PresenceInv, PlacesTyped, Players, Online, GraceAlone, Newer, Seated, Unique
<1>3. CASE Next
  <2>1. ASSUME NEW d \in Devices, NEW transport \in {"ws", "sse", "poll"}, Connect(d, transport)
        PROVE  PresenceInv'
    BY <1>1, <2>1, ConnectKeeps
  <2>2. ASSUME NEW d \in Devices,
               Reprobe(d) \/ Ping(d) \/ Rescan(d) \/ \E code \in Codes : StartRoom(d, code) \/ EnterRoom(d, code)
        PROVE  PresenceInv'
    BY <1>1, <2>2, MessagesKeep
  <2>3. ASSUME PruneRooms \/ \E code \in Codes : AgeRoom(code) PROVE PresenceInv'
    BY <1>1, <2>3, ExpiryKeeps
  <2>4. ASSUME NEW d \in Devices, NEW p \in DOMAIN Places, Move(d, p) PROVE PresenceInv'
    BY <1>1, <2>4, MoveKeeps
  <2>5. ASSUME NEW d \in Devices, NEW c \in open[d], Close(d, c) PROVE PresenceInv'
    BY <1>1, <2>5, CloseKeeps
  <2>6. ASSUME NEW d \in Devices, ExitRoom(d) \/ Drop(d) \/ Depart(d) \/ GrowStale(d) PROVE PresenceInv'
    BY <1>1, <2>6, ExitRoomKeeps, DropKeeps, DepartKeeps, GrowStaleKeeps
  <2>7. ASSUME NEW d \in Devices, LongPoll(d) \/ LaneTraffic(d) \/ LatePoll(d)
                                  \/ \E c \in open[d] \cup {Poll(place[d])} : LatePing(d, c)
        PROVE  PresenceInv'
    BY <1>1, <2>7, LongPollKeeps, StraysKeep
  <2>8. QED BY <1>3, <2>1, <2>2, <2>3, <2>4, <2>5, <2>6, <2>7 DEF Next
<1>4. QED BY <1>1, <1>2, <1>3

LEMMA PresenceAlways == Spec => []PresenceInv
  BY PresenceStarts, PresenceSteps, PTL DEF Spec

\* What the pages have missed
Missing == missed \in [Devices -> BOOLEAN]

LEMMA DeliverMisses ==
  ASSUME Missing, NEW links, NEW out, Deliver(links, out)
  PROVE  Missing'
<1>1. \A d \in Devices : missed[d] \in BOOLEAN BY DEF Missing
<1>2. \A d : (~Reaches(conns', links, d)) \in BOOLEAN OBVIOUS
<1>3. \A d \in Devices : (IF ListSent(d, out) THEN ~Reaches(conns', links, d) ELSE missed[d]) \in BOOLEAN
  BY <1>1, <1>2
<1>4. QED BY <1>3 DEF Deliver, Missing

LEMMA MissingSteps == Missing /\ [Next]_vars => Missing'
<1>1. SUFFICES ASSUME Missing, [Next]_vars PROVE Missing' OBVIOUS
<1>2. ASSUME NEW d \in Devices, NEW transport \in {"ws", "sse", "poll"}, Connect(d, transport) PROVE Missing'
  BY <1>1, <1>2, DeliverMisses DEF Connect
<1>3. ASSUME NEW d \in Devices, Reprobe(d) \/ Ping(d) \/ Rescan(d) \/ Depart(d) PROVE Missing'
  BY <1>1, <1>3, DeliverMisses DEF Reprobe, Ping, Rescan, Depart
<1>4. ASSUME NEW d \in Devices, NEW code \in Codes, StartRoom(d, code) \/ EnterRoom(d, code) PROVE Missing'
  BY <1>1, <1>4, DeliverMisses DEF StartRoom, EnterRoom
<1>5. ASSUME NEW d \in Devices, NEW c \in open[d] \cup {Poll(place[d])}, LatePing(d, c) PROVE Missing'
  BY <1>1, <1>5, DeliverMisses DEF LatePing
<1>6. ASSUME NEW d \in Devices, LatePoll(d) PROVE Missing'
  BY <1>1, <1>6 DEF Missing, LatePoll
<1>7. CASE missed' = missed BY <1>1, <1>7 DEF Missing
<1>8. CASE UNCHANGED vars BY <1>7, <1>8 DEF vars
<1>9. CASE Next
  BY <1>2, <1>3, <1>4, <1>5, <1>6, <1>7, <1>9
     DEF Next, LongPoll, ExitRoom, AgeRoom, PruneRooms, Drop, Move, Close, GrowStale, LaneTraffic
<1>10. QED BY <1>1, <1>8, <1>9

LEMMA MissingAlways == Spec => []Missing
<1>1. Init => Missing BY DEF Init, Missing
<1>2. QED BY <1>1, MissingSteps, PTL DEF Spec

\* Every variable has its type.
THEOREM PresenceTypeOKAlways == Spec => []TypeOK
<1>1. ASSUME PresenceInv, Missing PROVE TypeOK
  <2>1. PlacesTyped /\ GroupsRight(groups) /\ RoomsRight(rooms) BY <1>1 DEF PresenceInv
  <2>2. Registered(groups) \subseteq Devices BY DEF Registered
  <2>3. \A d \in Registered(groups) : SessionOK(groups.devices[d])
    <3>1. TAKE d \in Registered(groups)
    <3>2. groups.devices[d] \in Sessions /\ Fit(groups.devices[d], d)
      BY <2>1 DEF Registered, GroupsRight, GroupsTyped
    <3>3. QED BY <3>2 DEF SessionOK, Sessions, Fit, Ips
  <2>4. groups.keyToDevices \subseteq Keys \X Devices BY <2>1 DEF GroupsRight, GroupsTyped
  <2>5. DOMAIN rooms \subseteq Codes /\ \A c \in DOMAIN rooms : rooms[c].peers \subseteq Devices
    BY <2>1 DEF RoomsRight, RoomType
  <2>6. QED BY <1>1, <2>1, <2>2, <2>3, <2>4, <2>5 DEF TypeOK, PlacesTyped, Missing
<1>2. QED BY <1>1, PresenceAlways, MissingAlways, PTL

\* The server's index lists a device under every key of its session, however messages
\* and moves changed the keys, so that devices with a common key find each other.
THEOREM IndexCompleteAlways == Spec => []IndexComplete
<1>1. ASSUME PresenceInv PROVE IndexComplete
  BY <1>1 DEF PresenceInv, GroupsRight, Indexed, IndexComplete, Registered
<1>2. QED BY <1>1, PresenceAlways, PTL

\* A page that is connected stays so: no grace period runs against it, and the late
\* close of a connection that was replaced does not cut off the newer one.
THEOREM StaysReachableAlways == Spec => []StaysReachable
<1>1. ASSUME PresenceInv PROVE StaysReachable
  <2>1. \A d \in Registered(groups) : groups.devices[d].timer => conns[d] = NoConn
    BY <1>1 DEF PresenceInv, GraceAlone, Registered
  <2>2. ASSUME NEW d \in Devices, stray = 0, link[d] \in open[d] PROVE Reaches(conns, link, d)
    <3>1. link[d] # NoConn BY <1>1, <2>2, Transports DEF PresenceInv, PlacesTyped
    <3>2. QED BY <1>1, <2>2, <3>1 DEF PresenceInv, Newer, Reaches
  <2>3. QED BY <2>1, <2>2 DEF StaysReachable
<1>2. QED BY <1>1, PresenceAlways, PTL

\* No room is empty or over its limit, and a device that looks like no other has a
\* seat only while it has a session: for any devices, rooms and limit.
THEOREM SeatsTakenAlways == Spec => []SeatsTaken
<1>1. ASSUME PresenceInv PROVE SeatsTaken
  BY <1>1 DEF PresenceInv, Seated, SeatsTaken, RoomsRight, Peopled
<1>2. QED BY <1>1, PresenceAlways, PTL
-----------------------------------------------------------------------------
\* What a page makes of a sequence of messages

\* A set of numbers has a least one; what holds at 0 and passes on to the next holds of
\* them all.
LEMMA Least ==
  ASSUME NEW T \in SUBSET Nat, T # {}
  PROVE  \E n \in T : \A m \in T : n <= m
<1> DEFINE Less == OpToRel(<, Nat)
<1>1. \A m, n \in Nat : m < n => <<m, n>> \in Less BY DEF OpToRel
<1>2. IsWellFoundedOn(Less, Nat) BY NatLessThanWellFounded
<1> HIDE DEF Less
<1>3. \E n \in T : \A m \in T : ~(<<m, n>> \in Less) BY <1>2, WFMin
<1>4. \E n \in T : \A m \in T : ~(m < n) BY <1>1, <1>3
<1>5. \A m, n \in T : ~(m < n) => n <= m OBVIOUS
<1>6. QED BY <1>4, <1>5

LEMMA Induction ==
  ASSUME NEW S, 0 \in S, \A n \in Nat : n \in S => n + 1 \in S
  PROVE  Nat \subseteq S
<1>1. SUFFICES ASSUME Nat \ S # {} PROVE FALSE OBVIOUS
<1>2. PICK n \in Nat \ S : \A m \in Nat \ S : n <= m BY <1>1, Least
<1>3. n # 0 OBVIOUS
<1>4. n - 1 \in Nat /\ n - 1 \in S BY <1>2, <1>3
<1>5. QED BY <1>4, <1>2

\* The handling of n messages, one after the other
Handles(h, v, d, posts, n) ==
  h = [i \in 0 .. n |->
         IF i = 0 THEN v
         ELSE IF d \in posts[i].to THEN HandleEnvelope(h[i - 1], posts[i].msg) ELSE h[i - 1]]

\* HandleAll follows such a sequence of views.
LEMMA HandlingExists ==
  ASSUME NEW v, NEW d, NEW posts
  PROVE  \A n \in Nat : \E h : Handles(h, v, d, posts, n)
<1> DEFINE S == {n \in Nat : \E h : Handles(h, v, d, posts, n)}
<1>1. 0 \in S
  <2>1. Handles([i \in 0 .. 0 |-> v], v, d, posts, 0) BY DEF Handles
  <2>2. QED BY <2>1
<1>2. ASSUME NEW n \in Nat, n \in S PROVE n + 1 \in S
  <2>1. PICK h : Handles(h, v, d, posts, n) BY <1>2
  <2> DEFINE next == IF d \in posts[n + 1].to THEN HandleEnvelope(h[n], posts[n + 1].msg) ELSE h[n]
             g == [i \in 0 .. n + 1 |-> IF i = n + 1 THEN next ELSE h[i]]
  <2>2. \A i \in 0 .. n : g[i] = h[i] OBVIOUS
  <2>3. g[n + 1] = next OBVIOUS
  <2>4. \A i \in 0 .. n : h[i] = IF i = 0 THEN v
           ELSE IF d \in posts[i].to THEN HandleEnvelope(h[i - 1], posts[i].msg) ELSE h[i - 1]
    BY <2>1 DEF Handles
  <2>5. g = [i \in 0 .. n + 1 |-> g[i]] OBVIOUS
  <2> HIDE DEF g
  <2>6. \A i \in 0 .. n + 1 : g[i] = IF i = 0 THEN v
           ELSE IF d \in posts[i].to THEN HandleEnvelope(g[i - 1], posts[i].msg) ELSE g[i - 1]
    <3>1. TAKE i \in 0 .. n + 1
    <3>2. CASE i = n + 1 BY <2>2, <2>3, <3>2
    <3>3. CASE i # n + 1
      <4>1. i \in 0 .. n /\ (i # 0 => i - 1 \in 0 .. n) BY <3>3
      <4>2. QED BY <2>2, <2>4, <4>1
    <3>4. QED BY <3>2, <3>3
  <2>7. Handles(g, v, d, posts, n + 1) BY <2>5, <2>6 DEF Handles
  <2>8. QED BY <2>7
<1> HIDE DEF S
<1>3. Nat \subseteq S BY <1>1, <1>2, Induction
<1>4. QED BY <1>3 DEF S

\* Of the views in Base, each message to d leaves the ones in Good there; and some
\* message makes them so.
Keep(posts, d, Base, Good) ==
  \A i \in 1 .. Len(posts) : d \in posts[i].to =>
    \A w \in Base \cap Good : HandleEnvelope(w, posts[i].msg) \in Good
Make(posts, d, Base, Good) ==
  \E k \in 1 .. Len(posts) : d \in posts[k].to /\ \A w \in Base : HandleEnvelope(w, posts[k].msg) \in Good

\* What every message that reaches d leaves true, all of them do; what one of them
\* makes true, and the others leave true, is true at the end.
LEMMA HandlingReaches ==
  ASSUME NEW d, NEW posts, Len(posts) \in Nat, NEW Base, NEW Good, NEW v \in Base,
         Keep(posts, d, Base, Base), Keep(posts, d, Base, Good)
  PROVE  /\ HandleAll(v, d, posts) \in Base
         /\ v \in Good \/ Make(posts, d, Base, Good) => HandleAll(v, d, posts) \in Good
<1> DEFINE n == Len(posts)
           after == CHOOSE h : Handles(h, v, d, posts, n)
<1>1. Handles(after, v, d, posts, n) BY HandlingExists
<1>2. HandleAll(v, d, posts) = after[n] BY DEF HandleAll, Handles
<1> HIDE DEF after
<1>3. \A i \in 0 .. n : after[i] = IF i = 0 THEN v
        ELSE IF d \in posts[i].to THEN HandleEnvelope(after[i - 1], posts[i].msg) ELSE after[i - 1]
  BY <1>1 DEF Handles
<1>4. ASSUME NEW k \in 0 .. n,
             k = 0 => v \in Good,
             k # 0 => d \in posts[k].to /\ \A w \in Base : HandleEnvelope(w, posts[k].msg) \in Good
      PROVE  after[n] \in Base /\ after[n] \in Good
  <2> DEFINE Right(i) == after[i] \in Base /\ (i >= k => after[i] \in Good)
             S == {i \in Nat : i \in 0 .. n => Right(i)}
  <2>1. 0 \in S BY <1>3, <1>4
  <2>2. ASSUME NEW i \in Nat, i \in S PROVE i + 1 \in S
    <3>1. SUFFICES ASSUME i + 1 \in 0 .. n PROVE Right(i + 1) OBVIOUS
    <3>2. i \in 0 .. n /\ i + 1 \in 1 .. n /\ (i + 1) - 1 = i /\ i + 1 # 0 BY <3>1
    <3>3. Right(i) BY <2>2, <3>2
    <3> HIDE DEF S
    <3>4. after[i + 1] = IF d \in posts[i + 1].to THEN HandleEnvelope(after[i], posts[i + 1].msg) ELSE after[i]
      BY <1>3, <3>1, <3>2
    <3>5. CASE d \notin posts[i + 1].to
      <4>1. after[i + 1] = after[i] /\ i + 1 # k BY <1>4, <3>2, <3>4, <3>5
      <4>2. i + 1 >= k => i >= k BY <4>1
      <4>3. QED BY <3>3, <4>1, <4>2
    <3>6. CASE d \in posts[i + 1].to
      <4>1. after[i + 1] = HandleEnvelope(after[i], posts[i + 1].msg) BY <3>4, <3>6
      <4>2. after[i + 1] \in Base BY <3>2, <3>3, <3>6, <4>1 DEF Keep
      <4>3. CASE i + 1 = k
        <5>1. after[i + 1] \in Good BY <1>4, <3>2, <3>3, <4>1, <4>3
        <5>2. QED BY <4>2, <5>1
      <4>4. CASE i + 1 # k
        <5>1. i + 1 >= k => i >= k BY <4>4
        <5>2. i + 1 >= k => after[i + 1] \in Good BY <3>2, <3>3, <3>6, <4>1, <5>1 DEF Keep
        <5>3. QED BY <4>2, <5>2
      <4>5. QED BY <4>3, <4>4
    <3>7. QED BY <3>5, <3>6
  <2> HIDE DEF S
  <2>3. Nat \subseteq S BY <2>1, <2>2, Induction
  <2>4. n \in S /\ n \in 0 .. n /\ n >= k BY <2>3
  <2>5. QED BY <2>4 DEF S
<1>5. ASSUME NEW k \in 1 .. n, d \in posts[k].to, \A w \in Base : HandleEnvelope(w, posts[k].msg) \in Good
      PROVE  after[n] \in Base /\ after[n] \in Good
  BY <1>4, <1>5
<1>6. v \in Good => after[n] \in Base /\ after[n] \in Good
  <2>1. 0 \in 0 .. n OBVIOUS
  <2>2. QED BY <1>4, <2>1
<1>7. after[n] \in Base
  <2> DEFINE S == {i \in Nat : i \in 0 .. n => after[i] \in Base}
  <2>1. 0 \in S BY <1>3
  <2>2. ASSUME NEW i \in Nat, i \in S PROVE i + 1 \in S
    <3>1. SUFFICES ASSUME i + 1 \in 0 .. n PROVE after[i + 1] \in Base OBVIOUS
    <3>2. i \in 0 .. n /\ i + 1 \in 1 .. n /\ (i + 1) - 1 = i /\ i + 1 # 0 BY <3>1
    <3>3. after[i] \in Base BY <2>2, <3>2
    <3> HIDE DEF S
    <3>4. QED BY <1>3, <3>1, <3>2, <3>3 DEF Keep
  <2> HIDE DEF S
  <2>3. Nat \subseteq S BY <2>1, <2>2, Induction
  <2>4. n \in S /\ n \in 0 .. n BY <2>3
  <2>5. QED BY <2>4 DEF S
<1>8. QED BY <1>2, <1>5, <1>6, <1>7 DEF Make

-----------------------------------------------------------------------------
\* The elements of a finite set, in some order
LEMMA SetInOrder ==
  ASSUME NEW S, IsFiniteSet(S)
  PROVE  SetToSeq(S) \in Seq(S)
<1>1. PICK n \in Nat : ExistsBijection(1 .. n, S) BY FS_NatBijection
<1>2. Cardinality(S) = n BY <1>1, FS_CountingElements
<1>3. PICK f \in [1 .. n -> S] : IsInjective(f) BY <1>1 DEF ExistsBijection, Bijection, Injection
<1>4. SetToSeq(S) \in [1 .. n -> S] BY <1>2, <1>3 DEF SetToSeq
<1>5. QED BY <1>1, <1>4, SeqDef

\* The concatenation of a sequence of sequences
Flattens(f, seqs, n) ==
  f = [i \in 1 .. n |-> IF i = 1 THEN seqs[i] ELSE f[i - 1] \o seqs[i]]

LEMMA FlattenTyped ==
  ASSUME NEW S, NEW seqs \in Seq(Seq(S))
  PROVE  FlattenSeq(seqs) \in Seq(S)
<1> DEFINE n == Len(seqs)
<1>1. n \in Nat /\ \A i \in 1 .. n : seqs[i] \in Seq(S) BY LenProperties, ElementOfSeq
<1>2. CASE n = 0
  <2>1. seqs = <<>> BY <1>2, EmptySeq
  <2>2. FlattenSeq(seqs) = <<>> BY <1>2, <2>1 DEF FlattenSeq
  <2>3. QED BY <2>2, EmptySeq
<1>3. CASE n # 0
  <2> HIDE DEF n
  <2> DEFINE Initials == {k \in Nat : k \in 1 .. n => \E f : Flattens(f, seqs, k) /\ \A i \in 1 .. k : f[i] \in Seq(S)}
  <2>1. 0 \in Initials OBVIOUS
  <2>2. ASSUME NEW k \in Nat, k \in Initials PROVE k + 1 \in Initials
    <3>1. SUFFICES ASSUME k + 1 \in 1 .. n
                   PROVE  \E f : Flattens(f, seqs, k + 1) /\ \A i \in 1 .. k + 1 : f[i] \in Seq(S)
      OBVIOUS
    <3>2. CASE k = 0
      <4> DEFINE f == [i \in 1 .. 1 |-> seqs[1]]
      <4>1. f = [i \in 1 .. 1 |-> IF i = 1 THEN seqs[i] ELSE f[i - 1] \o seqs[i]] OBVIOUS
      <4>2. f[1] \in Seq(S) BY <1>1, <3>1, <3>2
      <4> HIDE DEF f
      <4>3. Flattens(f, seqs, 1) BY <4>1 DEF Flattens
      <4>4. k + 1 = 1 /\ \A i \in 1 .. 1 : i = 1 BY <3>2
      <4>5. QED BY <4>2, <4>3, <4>4
    <3>3. CASE k # 0
      <4>1. k \in 1 .. n BY <1>1, <3>1, <3>3
      <4>2. PICK f : Flattens(f, seqs, k) /\ \A i \in 1 .. k : f[i] \in Seq(S) BY <2>2, <4>1
      <4> HIDE DEF Initials
      <4> DEFINE next == f[k] \o seqs[k + 1]
                 g == [i \in 1 .. k + 1 |-> IF i = k + 1 THEN next ELSE f[i]]
      <4>3. k \in 1 .. k /\ f[k] \in Seq(S) /\ seqs[k + 1] \in Seq(S) BY <1>1, <3>1, <3>3, <4>2
      <4>4. next \in Seq(S) BY <4>3, ConcatProperties
      <4> HIDE DEF next
      <4>5. g[k + 1] = next /\ \A i \in 1 .. k : g[i] = f[i] OBVIOUS
      <4>6. g = [i \in 1 .. k + 1 |-> g[i]] OBVIOUS
      <4>7. \A i \in 1 .. k : f[i] = IF i = 1 THEN seqs[i] ELSE f[i - 1] \o seqs[i]
        BY <4>2 DEF Flattens
      <4> HIDE DEF g
      <4>8. \A i \in 1 .. k + 1 : g[i] = IF i = 1 THEN seqs[i] ELSE g[i - 1] \o seqs[i]
        <5>1. TAKE i \in 1 .. k + 1
        <5>2. CASE i = k + 1
          <6>1. i # 1 /\ i - 1 = k /\ k \in 1 .. k BY <3>3, <5>2
          <6>2. g[i] = f[k] \o seqs[i] BY <4>5, <5>2 DEF next
          <6>3. QED BY <4>5, <6>1, <6>2
        <5>3. CASE i # k + 1
          <6>1. i \in 1 .. k /\ (i # 1 => i - 1 \in 1 .. k) BY <5>3
          <6>2. QED BY <4>5, <4>7, <6>1
        <5>4. QED BY <5>2, <5>3
      <4>9. Flattens(g, seqs, k + 1) BY <4>6, <4>8 DEF Flattens
      <4>10. \A i \in 1 .. k + 1 : g[i] \in Seq(S)
        <5>1. \A i \in 1 .. k + 1 : i = k + 1 \/ i \in 1 .. k OBVIOUS
        <5>2. QED BY <4>2, <4>4, <4>5, <5>1
      <4>11. QED BY <4>9, <4>10
    <3>4. QED BY <3>2, <3>3
  <2> HIDE DEF Initials
  <2>3. Nat \subseteq Initials BY <2>1, <2>2, Induction
  <2>4. n \in Initials /\ n \in 1 .. n BY <1>1, <1>3, <2>3
  <2>5. PICK f : Flattens(f, seqs, n) /\ \A i \in 1 .. n : f[i] \in Seq(S) BY <2>4 DEF Initials
  <2> DEFINE flat == CHOOSE h : Flattens(h, seqs, n)
  <2>6. Flattens(flat, seqs, n) BY <2>5
  <2>7. FlattenSeq(seqs) = flat[n]
    <3>1. Len(seqs) # 0 BY <1>3 DEF n
    <3>2. QED BY <3>1 DEF FlattenSeq, Flattens, n
  <2> HIDE DEF flat
  <2>8. \A i \in 1 .. n : flat[i] = IF i = 1 THEN seqs[i] ELSE flat[i - 1] \o seqs[i]
    BY <2>6 DEF Flattens
  <2> DEFINE T == {k \in Nat : k \in 1 .. n => flat[k] \in Seq(S)}
  <2>9. 0 \in T OBVIOUS
  <2>10. ASSUME NEW k \in Nat, k \in T PROVE k + 1 \in T
    <3>1. SUFFICES ASSUME k + 1 \in 1 .. n PROVE flat[k + 1] \in Seq(S) OBVIOUS
    <3>2. CASE k = 0 BY <1>1, <2>8, <3>1, <3>2
    <3>3. CASE k # 0
      <4>1. k \in 1 .. n /\ (k + 1) - 1 = k /\ k + 1 # 1 BY <1>1, <3>1, <3>3
      <4>2. flat[k] \in Seq(S) /\ seqs[k + 1] \in Seq(S) BY <1>1, <2>10, <3>1, <4>1
      <4> HIDE DEF T
      <4>3. flat[k + 1] = flat[k] \o seqs[k + 1] BY <2>8, <3>1, <4>1
      <4>4. flat[k] \o seqs[k + 1] \in Seq(S) BY <4>2, ConcatProperties
      <4>5. QED BY <4>3, <4>4
    <3>4. QED BY <3>2, <3>3
  <2> HIDE DEF T
  <2>11. Nat \subseteq T BY <2>9, <2>10, Induction
  <2>12. n \in T BY <2>4, <2>11
  <2>13. QED BY <2>4, <2>7, <2>12 DEF T
<1>4. QED BY <1>2, <1>3
-----------------------------------------------------------------------------
\* What each message does to the lists of a page

Sigs == UNION {SigsOf(d) : d \in Devices}

\* The lists of devices that a page keeps and is sent
Lists == {l \in UNION {[ds -> Sigs] : ds \in SUBSET Devices} : \A o \in DOMAIN l : l[o] \in SigsOf(o)}

Views == [nearby : Lists, room : Codes \cup {NoRoom}, mates : Lists]

\* The messages about rooms
RoomMsgs ==
  [type : {"room-created"}, room : Codes]
  \cup [type : {"room-joined"}, room : Codes, list : Lists]
  \cup {m \in [type : {"peer-joined-room"}, about : Devices, sig : Sigs] : m.sig \in SigsOf(m.about)}
  \cup [type : {"peer-left-room"}, about : Devices]
  \cup [type : {"room-left"}]

Quiet == [to : SUBSET Devices, msg : RoomMsgs]

\* A list of devices, and what becomes of it
LEMMA ListType ==
  ASSUME NEW l
  PROVE  l \in Lists <=> /\ l = [o \in DOMAIN l |-> l[o]] /\ DOMAIN l \subseteq Devices
                         /\ \A o \in DOMAIN l : l[o] \in SigsOf(o)
<1>1. ASSUME l \in Lists PROVE l = [o \in DOMAIN l |-> l[o]] /\ DOMAIN l \subseteq Devices
  <2>1. PICK ds \in SUBSET Devices : l \in [ds -> Sigs] BY <1>1 DEF Lists
  <2>2. QED BY <2>1
<1>2. ASSUME l = [o \in DOMAIN l |-> l[o]], DOMAIN l \subseteq Devices, \A o \in DOMAIN l : l[o] \in SigsOf(o)
      PROVE  l \in Lists
  <2>1. \A o \in DOMAIN l : l[o] \in Sigs BY <1>2 DEF Sigs
  <2>2. l \in [DOMAIN l -> Sigs] BY <1>2, <2>1
  <2>3. QED BY <1>2, <2>2 DEF Lists
<1>3. \A o \in DOMAIN l : l \in Lists => l[o] \in SigsOf(o) BY DEF Lists
<1>4. QED BY <1>1, <1>2, <1>3

LEMMA EmptyList == <<>> \in Lists /\ DOMAIN <<>> = {}
<1>1. <<>> \in Seq(Sigs) /\ Len(<<>>) = 0 BY EmptySeq
<1>2. <<>> \in [1 .. 0 -> Sigs] BY <1>1, LenProperties
<1>3. DOMAIN <<>> = {} BY <1>2
<1>4. <<>> = [o \in DOMAIN <<>> |-> <<>>[o]] BY <1>2
<1>5. QED BY <1>3, <1>4, ListType

LEMMA WithoutOne ==
  ASSUME NEW l \in Lists, NEW x
  PROVE  /\ Without(l, x) \in Lists /\ DOMAIN Without(l, x) = DOMAIN l \ {x}
<1> DEFINE k == Without(l, x)
<1>1. DOMAIN k = DOMAIN l \ {x} /\ k = [o \in DOMAIN k |-> k[o]] /\ \A o \in DOMAIN k : k[o] = l[o]
  BY DEF Without
<1> HIDE DEF k
<1>2. \A o \in DOMAIN k : k[o] \in SigsOf(o) BY <1>1, ListType
<1>3. DOMAIN k \subseteq Devices BY <1>1, ListType
<1>4. k \in Lists BY <1>1, <1>2, <1>3, ListType
<1>5. QED BY <1>1, <1>4 DEF k

\* A device is put on a list in place of those that look like it.
LEMMA ReplacingAlike ==
  ASSUME NEW l \in Lists, NEW d \in Devices, NEW m, m.about = d, m.sig \in SigsOf(d), NEW alike
  PROVE  /\ Replacing(l, m, alike) \in Lists
         /\ \A o : o \in DOMAIN Replacing(l, m, alike) <=> o = d \/ (o \in DOMAIN l /\ o \notin alike)
<1> DEFINE left == [o \in {o \in DOMAIN l : o = m.about \/ o \notin alike} |-> l[o]]
           k == Replacing(l, m, alike)
<1>1. DOMAIN left = {o \in DOMAIN l : o = d \/ o \notin alike} /\ \A o \in DOMAIN left : left[o] = l[o]
  OBVIOUS
<1>2. k = [y \in DOMAIN left \cup {d} |-> IF y = d THEN m.sig ELSE left[y]]
  BY DEF Replacing, With
<1> HIDE DEF left, k
<1>3. /\ DOMAIN k = DOMAIN left \cup {d} /\ k = [o \in DOMAIN k |-> k[o]]
      /\ \A o \in DOMAIN k : k[o] = IF o = d THEN m.sig ELSE left[o]
  BY <1>2
<1>4. \A o \in DOMAIN k : k[o] \in SigsOf(o) /\ o \in Devices BY <1>1, <1>3, ListType
<1>5. k \in Lists BY <1>3, <1>4, ListType
<1>6. QED BY <1>1, <1>3, <1>5 DEF k

\* How the devices are announced
LEMMA AnnouncedType ==
  ASSUME NEW g, GroupsRight(g), NEW ds \in SUBSET Devices
  PROVE  /\ Announced(g, ds) \in Lists /\ DOMAIN Announced(g, ds) = ds
         /\ \A o \in ds : Announced(g, ds)[o] \in SigsOf(o)
<1> DEFINE l == Announced(g, ds)
<1>1. DOMAIN l = ds /\ l = [o \in DOMAIN l |-> l[o]]
      /\ \A o \in ds : l[o] = IF o \in Registered(g) THEN g.devices[o].sig ELSE RoomPeerSig[o]
  BY DEF Announced
<1> HIDE DEF l
<1>2. \A o \in Registered(g) : g.devices[o].sig \in SigsOf(o)
  BY DEF GroupsRight, GroupsTyped, Registered, Fit
<1>3. \A o \in ds : l[o] \in SigsOf(o) BY <1>1, <1>2 DEF SigsOf
<1>4. l \in Lists BY <1>1, <1>3, ListType
<1>5. QED BY <1>1, <1>3, <1>4 DEF l

\* What each message does to what a page knows
LEMMA RoomMsgHandled ==
  ASSUME NEW v \in Views, NEW m \in RoomMsgs
  PROVE  HandleEnvelope(v, m) \in Views /\ HandleEnvelope(v, m).nearby = v.nearby
<1>1. v.nearby \in Lists /\ v.mates \in Lists BY DEF Views
<1>2. CASE m \in [type : {"room-created"}, room : Codes]
  <2>1. m.type = "room-created" /\ m.room \in Codes BY <1>2
  <2>2. HandleEnvelope(v, m) = [v EXCEPT !.room = m.room] BY <2>1 DEF HandleEnvelope
  <2>3. QED BY <2>1, <2>2 DEF Views
<1>3. CASE m \in [type : {"room-joined"}, room : Codes, list : Lists]
  <2>1. m.type = "room-joined" /\ m.room \in Codes /\ m.list \in Lists BY <1>3
  <2>2. HandleEnvelope(v, m) = [v EXCEPT !.room = m.room, !.mates = m.list] BY <2>1 DEF HandleEnvelope
  <2>3. QED BY <2>1, <2>2 DEF Views
<1>4. CASE m \in {n \in [type : {"peer-joined-room"}, about : Devices, sig : Sigs] : n.sig \in SigsOf(n.about)}
  <2>1. m.type = "peer-joined-room" /\ m.about \in Devices /\ m.sig \in SigsOf(m.about) BY <1>4
  <2> DEFINE mates == Replacing(v.mates, m, {o \in DOMAIN v.mates : v.mates[o].name = m.sig.name})
  <2>2. mates \in Lists BY <1>1, <2>1, ReplacingAlike
  <2>3. HandleEnvelope(v, m) = [v EXCEPT !.mates = mates] BY <2>1 DEF HandleEnvelope
  <2> HIDE DEF mates
  <2>4. QED BY <2>2, <2>3 DEF Views
<1>5. CASE m \in [type : {"peer-left-room"}, about : Devices]
  <2>1. m.type = "peer-left-room" BY <1>5
  <2> DEFINE mates == Without(v.mates, m.about)
  <2>2. mates \in Lists BY <1>1, WithoutOne
  <2>3. HandleEnvelope(v, m) = [v EXCEPT !.mates = mates] BY <2>1 DEF HandleEnvelope
  <2> HIDE DEF mates
  <2>4. QED BY <2>2, <2>3 DEF Views
<1>6. CASE m \in [type : {"room-left"}]
  <2>1. m.type = "room-left" BY <1>6
  <2>2. HandleEnvelope(v, m) = [v EXCEPT !.room = NoRoom, !.mates = <<>>] BY <2>1 DEF HandleEnvelope
  <2> DEFINE none == <<>>
  <2>3. none \in Lists BY EmptyList
  <2>4. HandleEnvelope(v, m) = [v EXCEPT !.room = NoRoom, !.mates = none] BY <2>2
  <2> HIDE DEF none
  <2>5. QED BY <2>3, <2>4 DEF Views
<1>7. QED BY <1>2, <1>3, <1>4, <1>5, <1>6 DEF RoomMsgs

LEMMA GroupPresenceHandled ==
  ASSUME NEW v \in Views, NEW l \in Lists
  PROVE  /\ HandleEnvelope(v, GroupPresence(l)) \in Views
         /\ HandleEnvelope(v, GroupPresence(l)).nearby = l
<1>1. HandleEnvelope(v, GroupPresence(l)) = [v EXCEPT !.nearby = l] BY DEF HandleEnvelope, GroupPresence
<1>2. QED BY <1>1 DEF Views

LEMMA PeerLeftHandled ==
  ASSUME NEW v \in Views, NEW x
  PROVE  /\ HandleEnvelope(v, PeerLeft(x)) \in Views
         /\ DOMAIN HandleEnvelope(v, PeerLeft(x)).nearby = DOMAIN v.nearby \ {x}
<1> DEFINE l == Without(v.nearby, x)
<1>1. HandleEnvelope(v, PeerLeft(x)) = [v EXCEPT !.nearby = l] BY DEF HandleEnvelope, PeerLeft
<1>2. l \in Lists /\ DOMAIN l = DOMAIN v.nearby \ {x} BY WithoutOne DEF Views
<1> HIDE DEF l
<1>3. QED BY <1>1, <1>2 DEF Views

\* A device that is announced replaces no other of another name.
LEMMA PeerDiscoveredHandled ==
  ASSUME NEW v \in Views, NEW d \in Devices, NEW sig \in SigsOf(d)
  PROVE  /\ HandleEnvelope(v, PeerDiscovered(d, sig)) \in Views
         /\ d \in DOMAIN HandleEnvelope(v, PeerDiscovered(d, sig)).nearby
         /\ \A o \in Devices \ {d} :
              /\ o \in DOMAIN HandleEnvelope(v, PeerDiscovered(d, sig)).nearby => o \in DOMAIN v.nearby
              /\ o \in DOMAIN v.nearby /\ ~Alike(o, d)
                   => o \in DOMAIN HandleEnvelope(v, PeerDiscovered(d, sig)).nearby
<1> DEFINE m == PeerDiscovered(d, sig)
           alike == {o \in DOMAIN v.nearby : v.nearby[o] = m.sig}
           l == Replacing(v.nearby, m, alike)
<1>1. m.type = "peer-discovered" /\ m.about = d /\ m.sig = sig BY DEF PeerDiscovered
<1>2. HandleEnvelope(v, m) = [v EXCEPT !.nearby = l] BY <1>1 DEF HandleEnvelope
<1>3. v.nearby \in Lists BY DEF Views
<1>4. \A o \in Devices : o \in alike => Alike(o, d)
  <2>1. TAKE o \in Devices
  <2>2. HAVE o \in alike
  <2>3. v.nearby[o] = sig /\ v.nearby[o] \in SigsOf(o) BY <1>1, <1>3, <2>2, ListType
  <2>4. sig.name \in NamesOf(o) /\ sig.name \in NamesOf(d) BY <2>3, SigNames
  <2>5. QED BY <2>4 DEF Alike
<1> HIDE DEF m, alike
<1>5. l \in Lists /\ \A o : o \in DOMAIN l <=> o = d \/ (o \in DOMAIN v.nearby /\ o \notin alike)
  BY <1>1, <1>3, ReplacingAlike
<1> HIDE DEF l
<1>6. HandleEnvelope(v, m) \in Views /\ HandleEnvelope(v, m).nearby = l BY <1>2, <1>5 DEF Views
<1>7. QED BY <1>4, <1>5, <1>6 DEF m
-----------------------------------------------------------------------------
\* What a presentation and a departure do to the lists of a page

\* What is sent of d when it presents itself: the ghosts it has replaced leave, it is
\* told who is nearby, those are told of it.
Farewells(d) ==
  [to : SUBSET (Devices \ {d}), msg : {PeerLeft(x) : x \in {y \in Devices \ {d} : Alike(y, d)}}]
Presentation(g, d, vis) ==
  {To({d}, GroupPresence(Announced(g, vis))), To(vis, PeerDiscovered(d, g.devices[d].sig))}
Presents(out, g, d, vis) ==
  /\ out \in Seq(Quiet \cup Farewells(d) \cup Presentation(g, d, vis))
  /\ \A post \in Presentation(g, d, vis) : \E k \in 1 .. Len(out) : out[k] = post

\* The last word about d
Departs(out, d, vis) ==
  /\ out \in Seq(Quiet \cup {To(vis, PeerLeft(d))})
  /\ \E k \in 1 .. Len(out) : out[k] = To(vis, PeerLeft(d))

\* Messages about rooms leave the list of devices nearby as it is.
LEMMA QuietHeard ==
  ASSUME NEW v \in Views, NEW p, NEW out \in Seq(Quiet)
  PROVE  HandleAll(v, p, out) \in Views /\ HandleAll(v, p, out).nearby = v.nearby
<1> DEFINE Same == {w \in Views : w.nearby = v.nearby}
<1>1. Len(out) \in Nat /\ \A i \in 1 .. Len(out) : out[i].msg \in RoomMsgs
  <2>1. Len(out) \in Nat /\ \A i \in 1 .. Len(out) : out[i] \in Quiet BY LenProperties, ElementOfSeq
  <2>2. QED BY <2>1 DEF Quiet
<1>2. Keep(out, p, Same, Same) BY <1>1, RoomMsgHandled DEF Keep
<1>3. v \in Same OBVIOUS
<1> HIDE DEF Same
<1>4. HandleAll(v, p, out) \in Same BY <1>1, <1>2, <1>3, HandlingReaches
<1>5. QED BY <1>4 DEF Same

\* One of the messages of a presentation
LEMMA PresentationHandled ==
  ASSUME NEW g, GroupsRight(g), NEW d \in Registered(g), NEW vis \in SUBSET (Devices \ {d}),
         NEW post \in Quiet \cup Farewells(d) \cup Presentation(g, d, vis),
         NEW p \in post.to, NEW w \in Views
  PROVE  LET e == HandleEnvelope(w, post.msg) IN
         /\ e \in Views
         /\ p = d => DOMAIN e.nearby = DOMAIN w.nearby \/ DOMAIN e.nearby = vis
         /\ p # d => /\ d \in DOMAIN w.nearby => d \in DOMAIN e.nearby
                     /\ p \notin vis /\ d \in DOMAIN e.nearby => d \in DOMAIN w.nearby
                     /\ \A o \in Devices \ {d} :
                          /\ o \in DOMAIN e.nearby => o \in DOMAIN w.nearby
                          /\ o \in DOMAIN w.nearby /\ ~Alike(o, d) => o \in DOMAIN e.nearby
<1> DEFINE e == HandleEnvelope(w, post.msg)
<1>1. CASE post \in Quiet
  <2>1. post.msg \in RoomMsgs BY <1>1 DEF Quiet
  <2>2. e \in Views /\ e.nearby = w.nearby BY <2>1, RoomMsgHandled
  <2> HIDE DEF e
  <2>3. QED BY <2>2 DEF e
<1>2. CASE post \in Farewells(d)
  <2>1. p # d BY <1>2 DEF Farewells
  <2>2. PICK x \in Devices \ {d} : Alike(x, d) /\ post.msg = PeerLeft(x) BY <1>2 DEF Farewells
  <2>3. e \in Views /\ DOMAIN e.nearby = DOMAIN w.nearby \ {x} BY <2>2, PeerLeftHandled
  <2> HIDE DEF e
  <2>4. QED BY <2>1, <2>2, <2>3 DEF e
<1>3. CASE post = To({d}, GroupPresence(Announced(g, vis)))
  <2>1. p = d /\ post.msg = GroupPresence(Announced(g, vis)) BY <1>3 DEF To
  <2>2. vis \in SUBSET Devices OBVIOUS
  <2>3. Announced(g, vis) \in Lists /\ DOMAIN Announced(g, vis) = vis BY <2>2, AnnouncedType
  <2>4. e \in Views /\ e.nearby = Announced(g, vis) BY <2>1, <2>3, GroupPresenceHandled
  <2> HIDE DEF e
  <2>5. QED BY <2>1, <2>3, <2>4 DEF e
<1>4. CASE post = To(vis, PeerDiscovered(d, g.devices[d].sig))
  <2>1. p \in vis /\ p # d /\ post.msg = PeerDiscovered(d, g.devices[d].sig) BY <1>4 DEF To
  <2>2. d \in Devices /\ g.devices[d].sig \in SigsOf(d)
    BY DEF GroupsRight, GroupsTyped, Registered, Fit
  <2>3. /\ e \in Views /\ d \in DOMAIN e.nearby
        /\ \A o \in Devices \ {d} : /\ o \in DOMAIN e.nearby => o \in DOMAIN w.nearby
                                    /\ o \in DOMAIN w.nearby /\ ~Alike(o, d) => o \in DOMAIN e.nearby
    BY <2>1, <2>2, PeerDiscoveredHandled
  <2> HIDE DEF e
  <2>4. QED BY <2>1, <2>3 DEF e
<1>5. QED BY <1>1, <1>2, <1>3, <1>4 DEF Presentation

\* A device that presents itself knows who is nearby, and those know it; nobody else
\* is listed anew, or forgotten, but for ghosts.
LEMMA PresentationHeard ==
  ASSUME NEW g, GroupsRight(g), NEW d \in Registered(g), NEW vis \in SUBSET (Devices \ {d}),
         NEW out, Presents(out, g, d, vis), NEW v \in Views, NEW p \in Devices
  PROVE  LET w == HandleAll(v, p, out) IN
         /\ w \in Views
         /\ p = d => DOMAIN w.nearby = vis
         /\ p \in vis => d \in DOMAIN w.nearby
         /\ p # d => /\ p \notin vis /\ d \in DOMAIN w.nearby => d \in DOMAIN v.nearby
                     /\ d \in DOMAIN v.nearby => d \in DOMAIN w.nearby
                     /\ \A o \in Devices \ {d} :
                          /\ o \in DOMAIN w.nearby => o \in DOMAIN v.nearby
                          /\ o \in DOMAIN v.nearby /\ ~Alike(o, d) => o \in DOMAIN w.nearby
<1> DEFINE posts == Quiet \cup Farewells(d) \cup Presentation(g, d, vis)
           w == HandleAll(v, p, out)
           Exactly == {u \in Views : DOMAIN u.nearby = vis}
           Holds(o) == {u \in Views : o \in DOMAIN u.nearby}
           Omits(o) == {u \in Views : o \notin DOMAIN u.nearby}
           first == To({d}, GroupPresence(Announced(g, vis)))
           second == To(vis, PeerDiscovered(d, g.devices[d].sig))
<1>1. Len(out) \in Nat /\ \A i \in 1 .. Len(out) : out[i] \in posts
  BY LenProperties, ElementOfSeq DEF Presents
<1>2. \A i \in 1 .. Len(out) : p \in out[i].to => \A u \in Views :
        LET e == HandleEnvelope(u, out[i].msg) IN
        /\ e \in Views
        /\ p = d => DOMAIN e.nearby = DOMAIN u.nearby \/ DOMAIN e.nearby = vis
        /\ p # d => /\ d \in DOMAIN u.nearby => d \in DOMAIN e.nearby
                    /\ p \notin vis /\ d \in DOMAIN e.nearby => d \in DOMAIN u.nearby
                    /\ \A o \in Devices \ {d} :
                         /\ o \in DOMAIN e.nearby => o \in DOMAIN u.nearby
                         /\ o \in DOMAIN u.nearby /\ ~Alike(o, d) => o \in DOMAIN e.nearby
  BY <1>1, PresentationHandled
<1>3. w \in Views /\ \A Good : Keep(out, p, Views, Good) /\ (v \in Good \/ Make(out, p, Views, Good)) => w \in Good
  <2>1. Keep(out, p, Views, Views) BY <1>2 DEF Keep
  <2>2. QED BY <1>1, <2>1, HandlingReaches
<1> HIDE DEF w
<1>4. CASE p = d
  <2>1. Keep(out, p, Views, Exactly) BY <1>2, <1>4 DEF Keep
  <2>2. Make(out, p, Views, Exactly)
    <3>1. PICK k \in 1 .. Len(out) : out[k] = first BY DEF Presents, Presentation
    <3>2. p \in out[k].to /\ out[k].msg = GroupPresence(Announced(g, vis)) BY <1>4, <3>1 DEF To
    <3>3. vis \in SUBSET Devices OBVIOUS
    <3>4. Announced(g, vis) \in Lists /\ DOMAIN Announced(g, vis) = vis BY <3>3, AnnouncedType
    <3>5. \A u \in Views : HandleEnvelope(u, out[k].msg) \in Exactly
      BY <3>2, <3>4, GroupPresenceHandled
    <3>6. QED BY <3>2, <3>5 DEF Make
  <2> HIDE DEF Exactly
  <2>3. w \in Exactly BY <1>3, <2>1, <2>2
  <2>4. p \notin vis BY <1>4
  <2>5. QED BY <1>3, <1>4, <2>3, <2>4 DEF Exactly, w
<1>5. CASE p # d
  <2>1. d \in DOMAIN v.nearby \/ p \in vis => d \in DOMAIN w.nearby
    <3>1. Keep(out, p, Views, Holds(d)) BY <1>2, <1>5 DEF Keep
    <3>2. CASE d \in DOMAIN v.nearby
      <4>1. v \in Holds(d) BY <3>2
      <4>2. w \in Holds(d) BY <1>3, <3>1, <4>1
      <4>3. QED BY <4>2
    <3>3. CASE p \in vis
      <4>1. PICK k \in 1 .. Len(out) : out[k] = second BY DEF Presents, Presentation
      <4>2. p \in out[k].to /\ out[k].msg = PeerDiscovered(d, g.devices[d].sig) BY <3>3, <4>1 DEF To
      <4>3. d \in Devices /\ g.devices[d].sig \in SigsOf(d)
        BY DEF GroupsRight, GroupsTyped, Registered, Fit
      <4>4. \A u \in Views : HandleEnvelope(u, out[k].msg) \in Holds(d)
        BY <4>2, <4>3, PeerDiscoveredHandled
      <4>5. Make(out, p, Views, Holds(d)) BY <4>2, <4>4 DEF Make
      <4>6. w \in Holds(d) BY <1>3, <3>1, <4>5
      <4>7. QED BY <4>6
    <3>4. QED BY <3>2, <3>3
  <2>2. p \notin vis /\ d \notin DOMAIN v.nearby => d \notin DOMAIN w.nearby
    <3>1. SUFFICES ASSUME p \notin vis, d \notin DOMAIN v.nearby PROVE d \notin DOMAIN w.nearby OBVIOUS
    <3>2. Keep(out, p, Views, Omits(d)) BY <1>2, <1>5, <3>1 DEF Keep
    <3>3. v \in Omits(d) BY <3>1
    <3>4. w \in Omits(d) BY <1>3, <3>2, <3>3
    <3>5. QED BY <3>4
  <2>3. ASSUME NEW o \in Devices \ {d}
        PROVE  /\ o \in DOMAIN w.nearby => o \in DOMAIN v.nearby
               /\ o \in DOMAIN v.nearby /\ ~Alike(o, d) => o \in DOMAIN w.nearby
    <3>1. ASSUME o \notin DOMAIN v.nearby PROVE o \notin DOMAIN w.nearby
      <4>1. Keep(out, p, Views, Omits(o)) BY <1>2, <1>5 DEF Keep
      <4>2. v \in Omits(o) BY <3>1
      <4>3. w \in Omits(o) BY <1>3, <4>1, <4>2
      <4>4. QED BY <4>3
    <3>2. ASSUME o \in DOMAIN v.nearby, ~Alike(o, d) PROVE o \in DOMAIN w.nearby
      <4>1. Keep(out, p, Views, Holds(o)) BY <1>2, <1>5, <3>2 DEF Keep
      <4>2. v \in Holds(o) BY <3>2
      <4>3. w \in Holds(o) BY <1>3, <4>1, <4>2
      <4>4. QED BY <4>3
    <3>3. QED BY <3>1, <3>2
  <2>4. QED BY <1>3, <1>5, <2>1, <2>2, <2>3 DEF w
<1>6. QED BY <1>4, <1>5

\* Those who hear that a device has left forget it, and no other.
LEMMA DepartureHeard ==
  ASSUME NEW d \in Devices, NEW vis \in SUBSET Devices, NEW out, Departs(out, d, vis),
         NEW v \in Views, NEW p \in Devices
  PROVE  LET w == HandleAll(v, p, out) IN
         /\ w \in Views
         /\ p \in vis \/ d \notin DOMAIN v.nearby => d \notin DOMAIN w.nearby
         /\ \A o \in Devices \ {d} : o \in DOMAIN w.nearby <=> o \in DOMAIN v.nearby
<1> DEFINE post == To(vis, PeerLeft(d))
           w == HandleAll(v, p, out)
           Holds(o) == {u \in Views : o \in DOMAIN u.nearby}
           Omits(o) == {u \in Views : o \notin DOMAIN u.nearby}
<1>1. Len(out) \in Nat /\ \A i \in 1 .. Len(out) : out[i] \in Quiet \cup {post}
  BY LenProperties, ElementOfSeq DEF Departs
<1>2. ASSUME NEW i \in 1 .. Len(out), NEW u \in Views
      PROVE  /\ HandleEnvelope(u, out[i].msg) \in Views
             /\ DOMAIN HandleEnvelope(u, out[i].msg).nearby \in {DOMAIN u.nearby, DOMAIN u.nearby \ {d}}
  <2>1. CASE out[i] \in Quiet
    <3>1. out[i].msg \in RoomMsgs BY <2>1 DEF Quiet
    <3>2. QED BY <3>1, RoomMsgHandled
  <2>2. CASE out[i] = post
    <3>1. out[i].msg = PeerLeft(d) BY <2>2 DEF To
    <3>2. QED BY <3>1, PeerLeftHandled
  <2>3. QED BY <1>1, <2>1, <2>2
<1>3. w \in Views /\ \A Good : Keep(out, p, Views, Good) /\ (v \in Good \/ Make(out, p, Views, Good)) => w \in Good
  <2>1. Keep(out, p, Views, Views) BY <1>2 DEF Keep
  <2>2. QED BY <1>1, <2>1, HandlingReaches
<1> HIDE DEF w
<1>4. ASSUME p \in vis \/ d \notin DOMAIN v.nearby PROVE d \notin DOMAIN w.nearby
  <2>1. Keep(out, p, Views, Omits(d)) BY <1>2 DEF Keep
  <2>2. v \in Omits(d) \/ Make(out, p, Views, Omits(d))
    <3>1. CASE d \notin DOMAIN v.nearby BY <3>1
    <3>2. CASE p \in vis
      <4>1. PICK k \in 1 .. Len(out) : out[k] = post BY DEF Departs
      <4>2. p \in out[k].to /\ out[k].msg = PeerLeft(d) BY <3>2, <4>1 DEF To
      <4>3. \A u \in Views : HandleEnvelope(u, out[k].msg) \in Omits(d) BY <4>2, PeerLeftHandled
      <4>4. QED BY <4>2, <4>3 DEF Make
    <3>3. QED BY <1>4, <3>1, <3>2
  <2>3. w \in Omits(d) BY <1>3, <2>1, <2>2
  <2>4. QED BY <2>3
<1>5. ASSUME NEW o \in Devices \ {d} PROVE o \in DOMAIN w.nearby <=> o \in DOMAIN v.nearby
  <2>1. Keep(out, p, Views, Omits(o)) /\ Keep(out, p, Views, Holds(o)) BY <1>2 DEF Keep
  <2>2. v \in Omits(o) => w \in Omits(o) BY <1>3, <2>1
  <2>3. v \in Holds(o) => w \in Holds(o) BY <1>3, <2>1
  <2>4. QED BY <1>3, <2>2, <2>3
<1>6. QED BY <1>3, <1>4, <1>5 DEF w
-----------------------------------------------------------------------------
\* What the handlers send

\* Two sessions have a key in common; the index lists d under no other keys than its own.
Meet(g, d, o) == g.devices[d].keys \cap g.devices[o].keys # {}
Exact(g, d) == \A e \in g.keyToDevices : e[2] = d => e[1] \in g.devices[d].keys

\* getVisiblePeers hides no device that looks like no other one.
LEMMA Visible ==
  ASSUME NEW g, GroupsRight(g), NEW d \in Devices, NEW newest
  PROVE  /\ VisiblePeers(g, d, newest) \subseteq Listed(g, d)
         /\ Listed(g, d) \subseteq Registered(g) \ {d}
         /\ \A o \in Listed(g, d) : (\A x \in Registered(g) \ {o} : ~Alike(x, o)) => o \in VisiblePeers(g, d, newest)
         /\ \A o \in Devices \ {d} : Meet(g, d, o) => o \in Listed(g, d)
         /\ \A o \in Listed(g, d) : Exact(g, o) => Meet(g, d, o)
<1> DEFINE listed == Listed(g, d)
           same(o) == {p \in listed : Hardware(g, p) = Hardware(g, o)}
           shown(o) == LastSeen(Steady(g, same(o)), newest)
<1>1. listed \subseteq Registered(g) \ {d} BY DEF Listed
<1>2. VisiblePeers(g, d, newest) = {shown(o) : o \in listed} BY DEF VisiblePeers
<1>3. \A o \in listed : o \in same(o) /\ same(o) \subseteq listed OBVIOUS
<1>4. \A ds : ds # {} => Steady(g, ds) # {} /\ Steady(g, ds) \subseteq ds BY DEF Steady
<1>5. \A ds : ds # {} => LastSeen(ds, newest) \in ds BY DEF LastSeen
<1>6. \A o \in listed : shown(o) \in same(o)
  <2>1. TAKE o \in listed
  <2>2. same(o) # {} BY <1>3
  <2> HIDE DEF same
  <2>3. Steady(g, same(o)) # {} /\ Steady(g, same(o)) \subseteq same(o) BY <1>4, <2>2
  <2>4. LastSeen(Steady(g, same(o)), newest) \in Steady(g, same(o)) BY <1>5, <2>3
  <2>5. QED BY <2>3, <2>4
<1>7. ASSUME NEW o \in listed, \A x \in Registered(g) \ {o} : ~Alike(x, o)
      PROVE  o \in VisiblePeers(g, d, newest)
  <2>1. \A x \in same(o) : x = o
    <3>1. SUFFICES ASSUME NEW x \in same(o), x # o PROVE FALSE OBVIOUS
    <3>2. x \in Registered(g) /\ o \in Registered(g) /\ g.devices[x].sig = g.devices[o].sig
      BY <1>1, <3>1 DEF Hardware
    <3>3. g.devices[x].sig \in SigsOf(x) /\ g.devices[o].sig \in SigsOf(o)
      BY <3>2 DEF GroupsRight, GroupsTyped, Registered, Fit
    <3>4. x \in Devices /\ o \in Devices BY <3>2 DEF Registered
    <3>5. g.devices[x].sig.name \in NamesOf(x) /\ g.devices[o].sig.name \in NamesOf(o)
      BY <3>3, <3>4, SigNames
    <3>6. Alike(x, o) BY <3>2, <3>5 DEF Alike
    <3>7. QED BY <1>7, <3>1, <3>2, <3>6
  <2>2. shown(o) \in same(o) BY <1>6
  <2> HIDE DEF same, shown
  <2>3. shown(o) = o BY <2>1, <2>2
  <2>4. QED BY <1>2, <2>3
<1>8. VisiblePeers(g, d, newest) \subseteq listed
  <2> HIDE DEF shown
  <2>1. \A o \in listed : shown(o) \in listed BY <1>3, <1>6
  <2>2. QED BY <1>2, <2>1
<1>9. ASSUME NEW o \in Devices \ {d}, Meet(g, d, o) PROVE o \in listed
  <2>1. PICK k : k \in g.devices[d].keys /\ k \in g.devices[o].keys BY <1>9 DEF Meet
  <2>2. <<k, o>> \in g.keyToDevices BY <2>1 DEF GroupsRight, Indexed
  <2>3. o \in Registered(g) BY <2>1, Nobody DEF Registered
  <2>4. QED BY <2>1, <2>2, <2>3 DEF Listed
<1>10. ASSUME NEW o \in listed, Exact(g, o) PROVE Meet(g, d, o)
  <2>1. PICK e \in g.keyToDevices : e[2] = o /\ e[1] \in g.devices[d].keys BY DEF Listed
  <2>2. e[1] \in g.devices[o].keys BY <1>10, <2>1 DEF Exact
  <2>3. QED BY <2>1, <2>2 DEF Meet
<1> HIDE DEF listed
<1>11. QED BY <1>1, <1>7, <1>8, <1>9, <1>10 DEF listed

-----------------------------------------------------------------------------
LEMMA ImageFinite ==
  ASSUME NEW S, IsFiniteSet(S), NEW f, DOMAIN f = S
  PROVE  IsFiniteSet({f[x] : x \in S})
<1> DEFINE T == {f[x] : x \in S}
           h == [x \in S |-> f[x]]
<1>1. h \in Surjection(S, T) BY DEF Surjection
<1>2. QED BY <1>1, FS_Surjection

\* A sequence of messages, one for each element of a finite set
LEMMA Sequenced ==
  ASSUME NEW S, IsFiniteSet(S), NEW f, DOMAIN f = S, NEW T, \A x \in S : f[x] \in T
  PROVE  SetToSeq({f[x] : x \in S}) \in Seq(T)
<1> DEFINE img == {f[x] : x \in S}
<1>1. IsFiniteSet(img) BY ImageFinite
<1>2. img \subseteq T OBVIOUS
<1> HIDE DEF img
<1>3. SetToSeq(img) \in Seq(T) BY <1>1, <1>2, SetInOrder, SeqMonotonic
<1>4. QED BY <1>3 DEF img

LEMMA PairTyped ==
  ASSUME NEW T, NEW x \in T, NEW y \in T
  PROVE  /\ <<x, y>> \in Seq(T) /\ Len(<<x, y>>) = 2 /\ <<x, y>>[1] = x /\ <<x, y>>[2] = y
         /\ <<x>> \in Seq(T) /\ Len(<<x>>) = 1 /\ <<x>>[1] = x
  OBVIOUS

\* The messages about rooms are of those that leave the lists of devices nearby alone.
LEMMA PeerLeftRoomQuiet ==
  ASSUME NEW ds \in SUBSET Devices, NEW d \in Devices
  PROVE  To(ds, PeerLeftRoom(d)) \in Quiet
<1>1. PeerLeftRoom(d) \in RoomMsgs BY DEF PeerLeftRoom, RoomMsgs
<1>2. QED BY <1>1 DEF To, Quiet

LEMMA RoomOutQuiet ==
  ASSUME NEW g, GroupsRight(g), NEW r, RoomsRight(r), NEW code \in DOMAIN r, NEW d \in Devices
  PROVE  RoomOut(g, r, code, d) \in Seq(Quiet)
<1> DEFINE others == r[code].peers \ {d}
           x == To({d}, RoomJoined(code, Announced(g, others)))
           y == To(others, PeerJoinedRoom(d, Announced(g, {d})[d]))
<1>1. others \in SUBSET Devices /\ code \in Codes BY DEF RoomsRight, RoomType
<1>2. RoomOut(g, r, code, d) = <<x, y>> BY DEF RoomOut
<1> HIDE DEF others
<1>3. Announced(g, others) \in Lists BY <1>1, AnnouncedType
<1>4. RoomJoined(code, Announced(g, others)) \in RoomMsgs
  <2>1. RoomJoined(code, Announced(g, others)) \in [type : {"room-joined"}, room : Codes, list : Lists]
    BY <1>1, <1>3 DEF RoomJoined
  <2>2. QED BY <2>1 DEF RoomMsgs
<1>5. Announced(g, {d})[d] \in SigsOf(d)
  <2>1. {d} \in SUBSET Devices /\ d \in {d} OBVIOUS
  <2>2. QED BY <2>1, AnnouncedType
<1>6. PeerJoinedRoom(d, Announced(g, {d})[d]) \in RoomMsgs
  <2> DEFINE sig == Announced(g, {d})[d]
             m == PeerJoinedRoom(d, sig)
  <2>1. sig \in SigsOf(d) /\ sig \in Sigs BY <1>5 DEF Sigs
  <2> HIDE DEF sig
  <2>2. m \in [type : {"peer-joined-room"}, about : Devices, sig : Sigs] /\ m.sig = sig /\ m.about = d
    BY <2>1 DEF PeerJoinedRoom
  <2> HIDE DEF m
  <2>3. m \in RoomMsgs BY <2>1, <2>2 DEF RoomMsgs
  <2>4. QED BY <2>3 DEF m, sig
<1>7. x \in Quiet /\ y \in Quiet BY <1>1, <1>4, <1>6 DEF To, Quiet
<1> HIDE DEF x, y
<1>8. QED BY <1>2, <1>7, PairTyped

LEMMA RoomsOutQuiet ==
  ASSUME NEW g, GroupsRight(g), NEW r, RoomsRight(r), IsFiniteSet(DOMAIN r), NEW d \in Devices
  PROVE  RoomsOut(g, r, d) \in Seq(Quiet)
<1>1. CASE d \notin Registered(g) \/ RoomsOf(r, d) = {}
  <2>1. RoomsOut(g, r, d) = <<>> BY <1>1 DEF RoomsOut
  <2>2. QED BY <2>1, EmptySeq
<1>2. CASE ~(d \notin Registered(g) \/ RoomsOf(r, d) = {})
  <2> DEFINE codes == RoomsOf(r, d)
             f == [c \in codes |-> RoomOut(g, r, c, d)]
  <2>1. codes \in SUBSET DOMAIN r BY DEF RoomsOf
  <2>2. IsFiniteSet(codes) BY <2>1, FS_Subset
  <2>3. DOMAIN f = codes /\ \A c \in codes : f[c] = RoomOut(g, r, c, d) /\ f[c] \in Seq(Quiet)
    BY <2>1, RoomOutQuiet
  <2>4. RoomsOut(g, r, d) = FlattenSeq(SetToSeq({RoomOut(g, r, c, d) : c \in codes})) BY <1>2 DEF RoomsOut
  <2> HIDE DEF codes, f
  <2>5. {RoomOut(g, r, c, d) : c \in codes} = {f[c] : c \in codes} BY <2>3
  <2>6. SetToSeq({f[c] : c \in codes}) \in Seq(Seq(Quiet)) BY <2>2, <2>3, Sequenced
  <2>7. QED BY <2>4, <2>5, <2>6, FlattenTyped
<1>3. QED BY <1>1, <1>2

LEMMA LeaveOutQuiet ==
  ASSUME NEW r, RoomsRight(r), NEW codes \in SUBSET DOMAIN r, IsFiniteSet(codes), NEW d \in Devices
  PROVE  LeaveOut(r, codes, d) \in Seq(Quiet)
<1> DEFINE f == [c \in codes |-> To(r[c].peers \ {d}, PeerLeftRoom(d))]
<1>1. \A c \in codes : r[c].peers \ {d} \in SUBSET Devices BY DEF RoomsRight, RoomType
<1>2. DOMAIN f = codes /\ \A c \in codes : f[c] = To(r[c].peers \ {d}, PeerLeftRoom(d)) /\ f[c] \in Quiet
  BY <1>1, PeerLeftRoomQuiet
<1>3. LeaveOut(r, codes, d) = SetToSeq({To(r[c].peers \ {d}, PeerLeftRoom(d)) : c \in codes}) BY DEF LeaveOut
<1> HIDE DEF f
<1>4. {To(r[c].peers \ {d}, PeerLeftRoom(d)) : c \in codes} = {f[c] : c \in codes} BY <1>2
<1>5. SetToSeq({f[c] : c \in codes}) \in Seq(Quiet) BY <1>2, Sequenced
<1>6. QED BY <1>3, <1>4, <1>5

LEMMA JoinRoomOutQuiet ==
  ASSUME NEW g, GroupsRight(g), NEW r, RoomsRight(r), NEW code, NEW d \in Devices, NEW knows \in BOOLEAN
  PROVE  JoinRoomOut(g, r, JoinRoomRooms(g, r, code, d, knows), code, d, knows) \in Seq(Quiet)
<1> DEFINE q == JoinRoomRooms(g, r, code, d, knows)
<1>1. CASE ~CanJoin(r, code, d, knows)
  <2>1. JoinRoomOut(g, r, q, code, d, knows) = <<>> BY <1>1 DEF JoinRoomOut
  <2>2. QED BY <2>1, EmptySeq
<1>2. CASE CanJoin(r, code, d, knows)
  <2>1. RoomsRight(q) BY Joining DEF Seats
  <2>2. code \in DOMAIN r BY <1>2 DEF CanJoin
  <2>3. code \in DOMAIN q BY <1>2, <2>2 DEF JoinRoomRooms, JoinRoom
  <2> HIDE DEF q
  <2> DEFINE lost == r[code].peers \ q[code].peers
             f == [o \in lost |-> To(q[code].peers, PeerLeftRoom(o))]
  <2>4. q[code].peers \in SUBSET Devices /\ r[code].peers \in SUBSET Devices /\ IsFiniteSet(r[code].peers)
    BY <2>1, <2>2, <2>3 DEF RoomsRight, RoomType, Peopled
  <2>5. IsFiniteSet(lost) /\ lost \in SUBSET Devices
    <3>1. lost \in SUBSET r[code].peers OBVIOUS
    <3>2. QED BY <2>4, <3>1, FS_Subset
  <2>6. DOMAIN f = lost /\ \A o \in lost : f[o] = To(q[code].peers, PeerLeftRoom(o)) /\ f[o] \in Quiet
    BY <2>4, <2>5, PeerLeftRoomQuiet
  <2>7. JoinRoomOut(g, r, q, code, d, knows) =
          SetToSeq({To(q[code].peers, PeerLeftRoom(o)) : o \in lost}) \o RoomOut(g, q, code, d)
    BY <1>2 DEF JoinRoomOut
  <2> HIDE DEF f, lost
  <2>8. {To(q[code].peers, PeerLeftRoom(o)) : o \in lost} = {f[o] : o \in lost} BY <2>6
  <2>9. SetToSeq({f[o] : o \in lost}) \in Seq(Quiet) BY <2>5, <2>6, Sequenced
  <2>10. RoomOut(g, q, code, d) \in Seq(Quiet) BY <2>1, <2>3, RoomOutQuiet
  <2>11. JoinRoomOut(g, r, q, code, d, knows) \in Seq(Quiet)
    BY <2>7, <2>8, <2>9, <2>10, ConcatProperties
  <2>12. QED BY <2>11 DEF q
<1>3. QED BY <1>1, <1>2

-----------------------------------------------------------------------------
\* A presentation remains one with messages about rooms before or after it.
LEMMA PresentsMore ==
  ASSUME NEW g, NEW d, NEW vis, NEW out, Presents(out, g, d, vis)
  PROVE  /\ \A q \in Seq(Quiet) : Presents(out \o q, g, d, vis)
         /\ \A f \in Seq(Farewells(d)) : Presents(f \o out, g, d, vis)
<1> DEFINE T == Quiet \cup Farewells(d) \cup Presentation(g, d, vis)
<1>1. out \in Seq(T) /\ \A post \in Presentation(g, d, vis) : \E k \in 1 .. Len(out) : out[k] = post
  BY DEF Presents
<1>2. Presents(out, g, d, vis) <=> /\ out \in Seq(T)
        /\ \A post \in Presentation(g, d, vis) : \E k \in 1 .. Len(out) : out[k] = post
  BY DEF Presents
<1>3. Quiet \subseteq T /\ Farewells(d) \subseteq T OBVIOUS
<1>4. \A seq : Presents(seq, g, d, vis) <=> /\ seq \in Seq(T)
        /\ \A post \in Presentation(g, d, vis) : \E k \in 1 .. Len(seq) : seq[k] = post
  BY DEF Presents
<1> HIDE DEF T
<1>5. ASSUME NEW q \in Seq(Quiet) PROVE Presents(out \o q, g, d, vis)
  <2>1. q \in Seq(T) BY <1>3, SeqMonotonic
  <2>2. /\ out \o q \in Seq(T) /\ Len(out \o q) = Len(out) + Len(q) /\ Len(out) \in Nat /\ Len(q) \in Nat
        /\ \A i \in 1 .. Len(out) + Len(q) : (out \o q)[i] = IF i <= Len(out) THEN out[i] ELSE q[i - Len(out)]
    BY <1>1, <2>1, ConcatProperties, LenProperties
  <2>3. \A k \in 1 .. Len(out) : k \in 1 .. Len(out \o q) /\ (out \o q)[k] = out[k] BY <2>2
  <2>4. QED BY <1>1, <1>4, <2>2, <2>3
<1>6. ASSUME NEW f \in Seq(Farewells(d)) PROVE Presents(f \o out, g, d, vis)
  <2>1. f \in Seq(T) BY <1>3, SeqMonotonic
  <2>2. /\ f \o out \in Seq(T) /\ Len(f \o out) = Len(f) + Len(out) /\ Len(out) \in Nat /\ Len(f) \in Nat
        /\ \A i \in 1 .. Len(f) + Len(out) : (f \o out)[i] = IF i <= Len(f) THEN f[i] ELSE out[i - Len(f)]
    BY <1>1, <2>1, ConcatProperties, LenProperties
  <2>3. \A k \in 1 .. Len(out) : k + Len(f) \in 1 .. Len(f \o out) /\ (f \o out)[k + Len(f)] = out[k]
    <3>1. TAKE k \in 1 .. Len(out)
    <3>2. k + Len(f) \in 1 .. Len(f) + Len(out) /\ ~(k + Len(f) <= Len(f)) /\ (k + Len(f)) - Len(f) = k
      BY <2>2
    <3>3. QED BY <2>2, <3>2
  <2>4. QED BY <1>1, <1>4, <2>2, <2>3
<1>7. QED BY <1>5, <1>6

LEMMA PresenceOutPresents ==
  ASSUME NEW g, GroupsRight(g), NEW d \in Registered(g), NEW newest
  PROVE  Presents(PresenceOut(g, d, newest), g, d, VisiblePeers(g, d, newest))
<1> DEFINE vis == VisiblePeers(g, d, newest)
           first == To({d}, GroupPresence(Announced(g, vis)))
           second == To(vis, PeerDiscovered(d, g.devices[d].sig))
<1>1. {o \in vis : d \in Registered(g)} = vis /\ Announced(g, {d})[d] = g.devices[d].sig
  BY DEF Announced
<1>2. PresenceOut(g, d, newest) = <<first, second>> BY <1>1 DEF PresenceOut
<1>3. Presentation(g, d, vis) = {first, second} BY DEF Presentation
<1> HIDE DEF vis, first, second
<1> DEFINE T == Quiet \cup Farewells(d) \cup {first, second}
<1>4. first \in T /\ second \in T OBVIOUS
<1> HIDE DEF T
<1>5. /\ <<first, second>> \in Seq(T) /\ Len(<<first, second>>) = 2
      /\ <<first, second>>[1] = first /\ <<first, second>>[2] = second
  BY <1>4, PairTyped
<1> DEFINE pair == <<first, second>>
<1> HIDE DEF pair
<1>6. pair \in Seq(T) /\ Len(pair) = 2 /\ pair[1] = first /\ pair[2] = second BY <1>5 DEF pair
<1>7. \A post \in {first, second} : \E k \in 1 .. Len(pair) : pair[k] = post
  <2>1. 1 \in 1 .. Len(pair) /\ 2 \in 1 .. Len(pair) BY <1>6
  <2>2. QED BY <1>6, <2>1
<1>8. Presents(pair, g, d, vis) BY <1>3, <1>6, <1>7 DEF Presents, T
<1>9. QED BY <1>2, <1>8 DEF pair, vis

\* Whoever is no longer registered has been replaced, and the others are told.
LEMMA JoinOutPresents ==
  ASSUME NEW g, NEW h, NEW d \in Devices, Renewed(g, h, d), IsFiniteSet(Registered(g)),
         NEW r, RoomsRight(r), IsFiniteSet(DOMAIN r), NEW newest
  PROVE  Presents(JoinOut(g, h, r, d, newest), h, d, VisiblePeers(h, d, newest))
<1> DEFINE vis == VisiblePeers(h, d, newest)
           lost == Registered(g) \ Registered(h)
           f == [o \in lost |-> To(vis, PeerLeft(o))]
           farewells == SetToSeq({To(vis, PeerLeft(o)) : o \in lost})
<1>1. GroupsRight(h) /\ d \in Registered(h) BY Nobody DEF Renewed, Registered
<1>2. vis \subseteq Registered(h) \ {d} BY <1>1, Visible
<1>3. vis \in SUBSET (Devices \ {d}) BY <1>2 DEF Registered
<1>4. \A o \in lost : o \in Devices \ {d} /\ Alike(o, d)
  BY <1>1 DEF Renewed, Registered
<1>5. IsFiniteSet(lost)
  <2>1. lost \in SUBSET Registered(g) OBVIOUS
  <2>2. QED BY <2>1, FS_Subset
<1>6. JoinOut(g, h, r, d, newest) = farewells \o PresenceOut(h, d, newest) \o RoomsOut(h, r, d)
  BY DEF JoinOut
<1> HIDE DEF vis, lost
<1>7. DOMAIN f = lost /\ \A o \in lost : f[o] = To(vis, PeerLeft(o)) /\ f[o] \in Farewells(d)
  BY <1>3, <1>4 DEF To, Farewells
<1> HIDE DEF f
<1>8. {To(vis, PeerLeft(o)) : o \in lost} = {f[o] : o \in lost} BY <1>7
<1>9. farewells \in Seq(Farewells(d)) BY <1>5, <1>7, <1>8, Sequenced
<1> HIDE DEF farewells
<1>10. Presents(PresenceOut(h, d, newest), h, d, vis) BY <1>1, PresenceOutPresents DEF vis
<1>11. RoomsOut(h, r, d) \in Seq(Quiet) BY <1>1, RoomsOutQuiet
<1>12. Presents(farewells \o PresenceOut(h, d, newest), h, d, vis) BY <1>9, <1>10, PresentsMore
<1>13. Presents((farewells \o PresenceOut(h, d, newest)) \o RoomsOut(h, r, d), h, d, vis)
  BY <1>11, <1>12, PresentsMore
<1>14. QED BY <1>6, <1>13 DEF vis

LEMMA DepartOutDeparts ==
  ASSUME NEW g, GroupsRight(g), NEW r, RoomsRight(r), IsFiniteSet(DOMAIN r), NEW d \in Devices, NEW newest
  PROVE  Departs(DepartOut(g, r, d, newest), d, VisiblePeers(g, d, newest))
<1> DEFINE vis == VisiblePeers(g, d, newest)
           post == To(vis, PeerLeft(d))
           T == Quiet \cup {post}
           rest == LeaveOut(r, RoomsOf(r, d), d)
<1>1. DepartOut(g, r, d, newest) = <<post>> \o rest BY DEF DepartOut
<1>2. rest \in Seq(Quiet)
  <2>1. RoomsOf(r, d) \in SUBSET DOMAIN r BY DEF RoomsOf
  <2>2. IsFiniteSet(RoomsOf(r, d)) BY <2>1, FS_Subset
  <2>3. QED BY <2>1, <2>2, LeaveOutQuiet
<1>3. \A seq : Departs(seq, d, vis) <=> seq \in Seq(T) /\ \E k \in 1 .. Len(seq) : seq[k] = post
  BY DEF Departs
<1>4. Quiet \subseteq T /\ post \in T OBVIOUS
<1> HIDE DEF T, post, rest, vis
<1>5. rest \in Seq(T) BY <1>2, <1>4, SeqMonotonic
<1>6. <<post>> \in Seq(T) /\ Len(<<post>>) = 1 /\ <<post>>[1] = post BY <1>4, PairTyped
<1>7. /\ <<post>> \o rest \in Seq(T) /\ Len(<<post>> \o rest) = 1 + Len(rest) /\ Len(rest) \in Nat
      /\ \A i \in 1 .. 1 + Len(rest) : (<<post>> \o rest)[i] = IF i <= 1 THEN <<post>>[i] ELSE rest[i - 1]
  BY <1>5, <1>6, ConcatProperties, LenProperties
<1>8. 1 \in 1 .. Len(<<post>> \o rest) /\ (<<post>> \o rest)[1] = post BY <1>6, <1>7
<1>9. QED BY <1>1, <1>3, <1>7, <1>8 DEF vis
-----------------------------------------------------------------------------
\* The keys that the handlers leave

\* What a message of d that reports keys, and one that reports none, make of its session
Reported(g, h, d, ip, keys) ==
  /\ h.devices[d].ip = ip /\ h.devices[d].keys = keys
  /\ \A o \in Devices : Exact(g, o) /\ (o = d => g.devices[d].keys \subseteq keys) => Exact(h, o)
Silent(g, h, d, ip, keys) ==
  /\ h.devices[d].ip = ip
  /\ d \notin Registered(g) => h.devices[d].keys = keys
  /\ d \in Registered(g) /\ g.devices[d].ip = ip => h.devices[d].keys = g.devices[d].keys
  /\ \A o \in Devices : Exact(g, o) => Exact(h, o)

\* The index lists a device under the keys of its session alone, after an update and
\* after a registration from keys that the session still has.
LEMMA UpdatingExact ==
  ASSUME NEW g, GroupsTyped(g), NEW d \in Devices, NEW s
  PROVE  \A o \in Devices : Exact(g, o) /\ (o = d => g.devices[d].keys \subseteq s.keys) => Exact(Update(g, d, s), o)
<1> DEFINE h == Update(g, d, s)
<1>1. /\ h.keyToDevices = g.keyToDevices /\ h.devices[d] = s
      /\ \A o \in Devices \ {d} : h.devices[o] = g.devices[o]
  BY DEF Update, GroupsTyped
<1> HIDE DEF h
<1>2. QED BY <1>1 DEF Exact, h

LEMMA RegisteringExact ==
  ASSUME NEW g, NEW d \in Devices, NEW s
  PROVE  /\ RegisterDevice(g, d, s).devices[d] = s
         /\ \A o \in Devices : Exact(g, o) => Exact(RegisterDevice(g, d, s), o)
<1> DEFINE gone == Evicted(g, d, s)
           h == RegisterDevice(g, d, s)
<1>1. /\ \A o \in Devices : h.devices[o] = IF o = d THEN s ELSE IF o \in gone THEN NoSession ELSE g.devices[o]
      /\ h.keyToDevices = {e \in g.keyToDevices : ~(e[2] \in gone \cup {d} /\ e[1] \in g.devices[e[2]].keys)}
                          \cup (s.keys \X {d})
  BY DEF RegisterDevice
<1>2. d \notin gone BY DEF Evicted
<1> HIDE DEF h, gone
<1>3. ASSUME NEW o \in Devices, Exact(g, o), NEW e \in h.keyToDevices, e[2] = o
      PROVE  e[1] \in h.devices[o].keys
  <2>1. CASE e \in s.keys \X {d} BY <1>1, <1>3, <2>1
  <2>2. CASE e \in g.keyToDevices /\ ~(e[2] \in gone \cup {d} /\ e[1] \in g.devices[e[2]].keys)
    <3>1. e[1] \in g.devices[o].keys BY <1>3, <2>2 DEF Exact
    <3>2. o \notin gone /\ o # d BY <1>3, <2>2, <3>1
    <3>3. QED BY <1>1, <3>1, <3>2
  <2>3. QED BY <1>1, <1>3, <2>1, <2>2
<1>4. \A o \in Devices : Exact(g, o) => Exact(h, o) BY <1>3 DEF Exact
<1>5. QED BY <1>1, <1>4 DEF h

LEMMA JoinKeys ==
  ASSUME NEW g, GroupsRight(g), NEW d \in Devices, NEW ip, NEW keys
  PROVE  /\ Reported(g, JoinGroups(g, d, ip, keys), d, ip, keys)
         /\ \A o \in Devices : Exact(g, o) => Exact(JoinGroups(g, d, ip, keys), o)
<1> DEFINE u == CancelDisconnect(g, d)
           s == NewSession(ip, keys, Sig[d])
           x == [g.devices[d] EXCEPT !.timer = FALSE]
<1>1. GroupsTyped(u)
  <2>1. Marked(g, u, d) BY Timers DEF CancelDisconnect
  <2>2. QED BY <2>1 DEF Marked, GroupsRight
<1>2. \A o \in Devices : Exact(g, o) => Exact(u, o)
  <2>1. GroupsTyped(g) /\ g.devices[d] \in Sessions BY DEF GroupsRight, GroupsTyped
  <2>2. u = Update(g, d, x) BY <2>1 DEF CancelDisconnect, Update, GroupsTyped
  <2>3. x.keys = g.devices[d].keys BY <2>1 DEF Sessions
  <2> HIDE DEF x, u
  <2>4. QED BY <2>1, <2>2, <2>3, UpdatingExact
<1>3. s.keys = keys /\ s.ip = ip BY DEF NewSession
<1>4. JoinGroups(g, d, ip, keys) = RegisterDevice(u, d, s) BY DEF JoinGroups
<1> HIDE DEF u, s
<1>5. QED BY <1>1, <1>2, <1>3, <1>4, RegisteringExact DEF Reported

LEMMA EnsuredKeys ==
  ASSUME NEW g, GroupsRight(g), NEW d \in Devices, NEW ip, NEW keys, NEW sig
  PROVE  /\ Reported(g, EnsureSession(g, d, ip, keys, TRUE, sig), d, ip, keys)
         /\ Silent(g, EnsureSession(g, d, ip, keys, FALSE, sig), d, ip, keys)
<1>1. GroupsTyped(g) /\ g.devices[d] \in Sessions BY DEF GroupsRight, GroupsTyped
<1>2. CASE d \notin Registered(g)
  <2> DEFINE s == NewSession(ip, keys, sig)
             h == RegisterDevice(g, d, s)
  <2>1. s.keys = keys /\ s.ip = ip BY DEF NewSession
  <2>2. \A reported \in BOOLEAN : EnsureSession(g, d, ip, keys, reported, sig) = h BY <1>2 DEF EnsureSession
  <2> HIDE DEF s
  <2>3. h.devices[d] = s /\ \A o \in Devices : Exact(g, o) => Exact(h, o) BY <1>1, RegisteringExact
  <2> HIDE DEF h
  <2>4. QED BY <1>2, <2>1, <2>2, <2>3 DEF Reported, Silent
<1>3. CASE d \in Registered(g)
  <2> DEFINE t(reported) == Refreshed(g.devices[d], ip, keys, reported)
             u(reported) == Update(g, d, t(reported))
             h(reported) == EnsureSession(g, d, ip, keys, reported, sig)
  <2>1. \A reported \in BOOLEAN :
          /\ t(reported).ip = ip
          /\ t(reported).keys = IF reported THEN keys
                                ELSE IF g.devices[d].ip # ip THEN g.devices[d].keys \cup keys
                                ELSE g.devices[d].keys
    <3>1. TAKE reported \in BOOLEAN
    <3> DEFINE all == IF reported THEN keys
                      ELSE IF g.devices[d].ip # ip THEN g.devices[d].keys \cup keys ELSE g.devices[d].keys
    <3>2. t(reported) = [g.devices[d] EXCEPT !.timer = FALSE, !.stale = FALSE, !.ip = ip, !.keys = all]
      BY <1>1 DEF Refreshed, Sessions
    <3> HIDE DEF all
    <3>3. t(reported).ip = ip /\ t(reported).keys = all BY <1>1, <3>2 DEF Sessions
    <3>4. QED BY <3>3 DEF all
  <2>2. \A reported \in BOOLEAN : h(reported) =
          IF reported \/ g.devices[d].ip # ip THEN RegisterDevice(u(reported), d, t(reported)) ELSE u(reported)
    BY <1>3 DEF EnsureSession
  <2> HIDE DEF t, h
  <2>3. ASSUME NEW reported \in BOOLEAN
        PROVE  /\ h(reported).devices[d] = t(reported)
               /\ \A o \in Devices : Exact(g, o) /\ (o = d => g.devices[d].keys \subseteq t(reported).keys)
                    => Exact(h(reported), o)
    <3>1. \A o \in Devices : Exact(g, o) /\ (o = d => g.devices[d].keys \subseteq t(reported).keys)
            => Exact(u(reported), o)
      BY <1>1, UpdatingExact
    <3>2. u(reported).devices[d] = t(reported) BY <1>1 DEF Update, GroupsTyped
    <3>3. CASE reported \/ g.devices[d].ip # ip
      <4>1. h(reported) = RegisterDevice(u(reported), d, t(reported)) BY <2>2, <3>3
      <4> HIDE DEF u
      <4>2. /\ h(reported).devices[d] = t(reported)
            /\ \A o \in Devices : Exact(u(reported), o) => Exact(h(reported), o)
        BY <4>1, RegisteringExact
      <4>3. QED BY <3>1, <4>2
    <3>4. CASE ~(reported \/ g.devices[d].ip # ip)
      <4>1. h(reported) = u(reported) BY <2>2, <3>4
      <4> HIDE DEF u
      <4>2. QED BY <3>1, <3>2, <4>1
    <3>5. QED BY <3>3, <3>4
  <2>4. QED BY <1>3, <2>1, <2>3 DEF Reported, Silent, h
<1>4. QED BY <1>2, <1>3

LEMMA MessageKeys ==
  ASSUME NEW g, GroupsRight(g), NEW d \in Devices, NEW ip \in Ips, NEW keys \in SUBSET Keys, keys # {}
  PROVE  /\ Silent(g, PingGroups(g, d, ip, keys), d, ip, keys)
         /\ Reported(g, RescanGroups(g, d, ip, keys), d, ip, keys)
         /\ Silent(g, CreateGroups(g, d, ip, keys), d, ip, keys)
         /\ Silent(g, ProfileGroups(g, d, ip, keys), d, ip, keys)
<1>1. Silent(g, PingGroups(g, d, ip, keys), d, ip, keys) BY EnsuredKeys DEF PingGroups
<1>2. Reported(g, RescanGroups(g, d, ip, keys), d, ip, keys) BY EnsuredKeys DEF RescanGroups
<1>3. Silent(g, CreateGroups(g, d, ip, keys), d, ip, keys) BY EnsuredKeys DEF CreateGroups
<1>4. Silent(g, ProfileGroups(g, d, ip, keys), d, ip, keys)
  <2> DEFINE h == CreateGroups(g, d, ip, keys)
             s == [h.devices[d] EXCEPT !.sig = Sig[d]]
             u == Update(h, d, s)
  <2>1. GroupsTyped(h) /\ h.devices[d] \in Sessions BY MessagesRenew DEF Renewed, GroupsRight, GroupsTyped
  <2>2. ProfileGroups(g, d, ip, keys) = u BY DEF ProfileGroups
  <2>3. s.keys = h.devices[d].keys /\ s.ip = h.devices[d].ip BY <2>1 DEF Sessions
  <2>4. Silent(g, h, d, ip, keys) BY <1>3
  <2> HIDE DEF h, s
  <2>5. /\ u.devices[d] = s
        /\ \A o \in Devices : Exact(h, o) /\ (o = d => h.devices[d].keys \subseteq s.keys) => Exact(u, o)
    BY <2>1, UpdatingExact DEF Update, GroupsTyped
  <2> HIDE DEF u
  <2>6. QED BY <2>2, <2>3, <2>4, <2>5 DEF Silent
<1>5. QED BY <1>1, <1>2, <1>3, <1>4

\* A grace period that begins or ends, and a departure
LEMMA TimerKeys ==
  ASSUME NEW g, GroupsRight(g), NEW d \in Devices, NEW timer
  PROVE  LET h == [g EXCEPT !.devices[d].timer = timer] IN
         /\ \A o \in Devices : Exact(g, o) => Exact(h, o)
         /\ \A o \in Devices : h.devices[o].keys = g.devices[o].keys /\ h.devices[o].ip = g.devices[o].ip
<1> DEFINE h == [g EXCEPT !.devices[d].timer = timer]
<1>1. \A o \in Devices : g.devices[o] \in Sessions BY DEF GroupsRight, GroupsTyped
<1>2. /\ h.keyToDevices = g.keyToDevices
      /\ \A o \in Devices : h.devices[o] = IF o = d THEN [g.devices[o] EXCEPT !.timer = timer] ELSE g.devices[o]
  BY DEF GroupsRight, GroupsTyped
<1> HIDE DEF h
<1>3. \A o \in Devices : h.devices[o].keys = g.devices[o].keys /\ h.devices[o].ip = g.devices[o].ip
  BY <1>1, <1>2 DEF Sessions
<1>4. QED BY <1>2, <1>3 DEF Exact, h

LEMMA RemovedKeys ==
  ASSUME NEW g, GroupsRight(g), NEW d \in Devices
  PROVE  \A o \in Devices : Exact(g, o) => Exact(RemoveDevice(g, d), o)
<1> DEFINE h == RemoveDevice(g, d)
<1>1. h.keyToDevices = g.keyToDevices \ (g.devices[d].keys \X {d}) BY DEF RemoveDevice
<1>2. \A o \in Devices \ {d} : h.devices[o] = g.devices[o] BY Removing
<1> HIDE DEF h
<1>3. SUFFICES ASSUME NEW o \in Devices, Exact(g, o), NEW e \in h.keyToDevices, e[2] = o
               PROVE  e[1] \in h.devices[o].keys
  BY DEF Exact, h
<1>4. e[1] \in g.devices[o].keys /\ e \in g.keyToDevices BY <1>1, <1>3 DEF Exact
<1>5. o # d
  <2>1. SUFFICES ASSUME o = d PROVE FALSE OBVIOUS
  <2>2. e = <<e[1], e[2]>> BY <1>4 DEF GroupsRight, GroupsTyped
  <2>3. QED BY <1>1, <1>3, <1>4, <2>1, <2>2
<1>6. QED BY <1>2, <1>4, <1>5

\* A probe's reports add to the keys of the address alone.
LEMMA MoreKeys ==
  ASSUME NEW p \in DOMAIN Places, NEW q \in DOMAIN Places \cup {Nowhere}
  PROVE  KeysFrom[p] \subseteq KeysWith[p][q]
<1> DEFINE from == HierarchyKeys(Ip[p])
<1>1. KeysFrom[p] = NetworkKeySet(Ip[p], {}) BY DEF KeysFrom
<1>2. PICK reports : KeysWith[p][q] = NetworkKeySet(Ip[p], reports) BY DEF KeysWith
<1>3. NetworkKeySet(Ip[p], {}) = from /\ from \subseteq NetworkKeySet(Ip[p], reports) BY DEF NetworkKeySet, HierarchyKeys
<1>4. QED BY <1>1, <1>2, <1>3
-----------------------------------------------------------------------------
\* The invariant of the lists of devices nearby

\* Those with a session take part; they, and the rooms, are finitely many.
Known ==
  /\ Registered(groups) \subseteq scene.active
  /\ IsFiniteSet(Registered(groups)) /\ IsFiniteSet(DOMAIN rooms)

Watching == view \in [Devices -> Views]

\* A page that is connected and has not missed its last list hears the server.
Attached ==
  \A d \in Devices : Online(d) /\ ~missed[d] =>
    SameConn(conns[d], link[d]) /\ (Unique(d) => d \in Registered(groups))

\* A device that does not move is where it was, and the server knows it so,
InPlace ==
  \A d \in Devices \ scene.movers :
    /\ place[d] = Home[d]
    /\ \A c \in open[d] : c.at = Home[d]
    /\ d \in Registered(groups) => groups.devices[d].ip = Ip[Home[d]]

\* under the keys of its address, or those of its last probe.
KeysKnown ==
  \A d \in Devices \ scene.movers :
    /\ d \notin scene.fresh => probed[d] = Home[d]
    /\ d \in Registered(groups) =>
         groups.devices[d].keys \in {KeysFrom[Home[d]], KeysWith[Home[d]][probed[d]]}

Traces == \A d \in Devices : ~Traced(d) => Exact(groups, d)

\* Of each pair, what NeighboursMeet and NoGhosts say of those in Pairs
Meeting ==
  \A p, o \in Devices :
    p # o /\ Plain(p) /\ Plain(o) /\ Hears(p) /\ Unique(o) =>
      /\ ~missed[o] /\ Overlap(p, o) => o \in DOMAIN view[p].nearby
      /\ ~Traced(p) /\ Settled(o) /\ o \in DOMAIN view[p].nearby => Overlap(p, o)

MeetInv ==
  /\ PresenceInv /\ Known /\ Watching
  /\ Attached /\ InPlace /\ KeysKnown /\ Traces /\ Meeting

-----------------------------------------------------------------------------
\* What a message says of the keys of its sender
Joined(d) ==
  /\ Reported(groups, groups', d, Ip[place[d]], KeysWith[place[d]][probed'[d]])
  /\ \A o \in Devices : Exact(groups, o) => Exact(groups', o)
  /\ probed'[d] \in {probed[d], place[d]}
Rescanned(d) ==
  /\ Reported(groups, groups', d, Ip[place[d]], KeysWith[place[d]][probed'[d]])
  /\ probed'[d] = probed[d]
  /\ d \in scene.rescans
Spoken(d) ==
  /\ probed'[d] = probed[d]
  /\ \E p \in DOMAIN Places :
       /\ d \in scene.movers \/ p = Home[d]
       /\ Silent(groups, groups', d, Ip[p], KeysFrom[p])

\* A message of d and the connection it comes over
Message(d) ==
  /\ d \in scene.active
  /\ UNCHANGED <<scene, place>>
  /\ Renewed(groups, groups', d)
  /\ Joined(d) \/ Rescanned(d) \/ Spoken(d)
  /\ \A o \in Devices \ {d} : conns'[o] = conns[o] /\ link'[o] = link[o] /\ probed'[o] = probed[o]
  /\ \A o \in Devices : \A c \in open'[o] : c \in open[o] \/ c.at = place[o]

LEMMA Unlike ==
  ASSUME NEW d \in scene.active, NEW o, o # d, Unique(o)
  PROVE  ~Alike(o, d) /\ ~Alike(d, o)
  BY DEF Unique, Alike

LEMMA OthersStay ==
  ASSUME NEW d \in Devices, Message(d), NEW o \in Devices \ {d}, Unique(o)
  PROVE  groups'.devices[o] = groups.devices[o]
  BY Unlike DEF Message, Renewed

LEMMA KnownAfter ==
  ASSUME NEW d \in Devices, Message(d), Known
  PROVE  Registered(groups') \subseteq scene.active /\ IsFiniteSet(Registered(groups'))
<1>1. Registered(groups') \in SUBSET (Registered(groups) \cup {d}) BY DEF Message, Renewed, Registered
<1>2. IsFiniteSet(Registered(groups) \cup {d}) BY FS_AddElement DEF Known
<1>3. IsFiniteSet(Registered(groups')) BY <1>1, <1>2, FS_Subset
<1>4. QED BY <1>1, <1>3 DEF Known, Message

LEMMA RoomsFinite ==
  ASSUME Known, NEW code, DOMAIN rooms' \subseteq DOMAIN rooms \cup {code}
  PROVE  IsFiniteSet(DOMAIN rooms')
<1>1. IsFiniteSet(DOMAIN rooms \cup {code}) BY FS_AddElement DEF Known
<1>2. DOMAIN rooms' \in SUBSET (DOMAIN rooms \cup {code}) OBVIOUS
<1>3. QED BY <1>1, <1>2, FS_Subset

LEMMA AttachedAfter ==
  ASSUME NEW d \in Devices, Message(d), Attached,
         \A o \in Devices \ {d} : missed'[o] = missed[o],
         link'[d] # NoConn /\ ~missed'[d] => SameConn(conns'[d], link'[d])
  PROVE  Attached'
<1>1. d \in Registered(groups') BY Nobody DEF Message, Renewed, Registered
<1>2. \A o \in Devices \ {d} : Unique(o) /\ o \in Registered(groups) => o \in Registered(groups')
  BY OthersStay DEF Registered
<1>3. \A o \in Devices \ {d} : conns'[o] = conns[o] /\ link'[o] = link[o] BY DEF Message
<1>4. scene' = scene BY DEF Message
<1>5. SUFFICES ASSUME NEW o \in Devices, link'[o] # NoConn, ~missed'[o]
               PROVE  SameConn(conns'[o], link'[o]) /\ (Unique(o) => o \in Registered(groups'))
  BY <1>4 DEF Attached, Unique, Online
<1>6. CASE o = d BY <1>1, <1>5, <1>6
<1>7. CASE o # d BY <1>2, <1>3, <1>5, <1>7 DEF Attached, Online
<1>8. QED BY <1>6, <1>7

\* The keys that a message leaves its sender with
LEMMA KeysAfter ==
  ASSUME NEW d \in Devices, PresenceInv, Message(d), InPlace, KeysKnown
  PROVE  /\ \A o \in Devices \ {d} : Exact(groups, o) => Exact(groups', o)
         /\ ~Traced(d) /\ Exact(groups, d) => Exact(groups', d)
         /\ d \notin scene.movers =>
              /\ groups'.devices[d].ip = Ip[Home[d]]
              /\ groups'.devices[d].keys \in {KeysFrom[Home[d]], KeysWith[Home[d]][probed'[d]]}
              /\ d \notin scene.fresh => probed'[d] = Home[d]
         /\ Settled(d) => groups.devices[d].keys \subseteq groups'.devices[d].keys
<1> DEFINE old == groups.devices[d].keys
           from == KeysFrom[Home[d]]
           with(q) == KeysWith[Home[d]][q]
<1>1. /\ Home[d] \in DOMAIN Places /\ probed[d] \in DOMAIN Places \cup {Nowhere}
      /\ \A q \in DOMAIN Places \cup {Nowhere} : from \subseteq with(q)
  BY MoreKeys, PresenceAssumption DEF PresenceInv, PlacesTyped, PresenceAssumption
<1>2. d \notin Registered(groups) => old = {} BY Nobody DEF Registered
<1>3. d \notin scene.movers => place[d] = Home[d] /\ (d \in Registered(groups) => groups.devices[d].ip = Ip[Home[d]])
  BY DEF InPlace
<1>4. d \notin scene.movers => /\ d \notin scene.fresh => probed[d] = Home[d]
                               /\ d \in Registered(groups) => old \in {from, with(probed[d])}
  BY DEF KeysKnown
<1>5. d \notin scene.movers => old \subseteq with(probed[d]) BY <1>1, <1>2, <1>4
<1>6. CASE Joined(d)
  <2>1. d \notin scene.movers => /\ groups'.devices[d].ip = Ip[Home[d]]
                                 /\ groups'.devices[d].keys = with(probed'[d])
                                 /\ d \notin scene.fresh => probed'[d] = Home[d]
    BY <1>3, <1>4, <1>6 DEF Joined, Reported
  <2>2. \A o \in Devices : Exact(groups, o) => Exact(groups', o) BY <1>6 DEF Joined
  <2>3. Settled(d) => old \subseteq groups'.devices[d].keys BY <1>4, <1>5, <2>1 DEF Settled
  <2>4. QED BY <2>1, <2>2, <2>3
<1>7. CASE Rescanned(d)
  <2>1. d \notin scene.movers => /\ groups'.devices[d].ip = Ip[Home[d]]
                                 /\ groups'.devices[d].keys = with(probed'[d])
                                 /\ d \notin scene.fresh => probed'[d] = Home[d]
    BY <1>3, <1>4, <1>7 DEF Rescanned, Reported
  <2>2. Settled(d) => old \subseteq groups'.devices[d].keys BY <1>5, <1>7, <2>1 DEF Settled, Rescanned
  <2>3. \A o \in Devices \ {d} : Exact(groups, o) => Exact(groups', o) BY <1>7 DEF Rescanned, Reported
  <2>4. ~Traced(d) /\ Exact(groups, d) => Exact(groups', d)
    <3>1. ~Traced(d) => d \notin scene.movers BY <1>7 DEF Traced, Rescanned
    <3>2. d \notin scene.movers => old \subseteq KeysWith[place[d]][probed'[d]] BY <1>3, <1>5, <1>7 DEF Rescanned
    <3>3. QED BY <1>7, <3>1, <3>2 DEF Rescanned, Reported
  <2>5. QED BY <2>1, <2>2, <2>3, <2>4
<1>8. CASE Spoken(d)
  <2>1. PICK p \in DOMAIN Places : /\ d \in scene.movers \/ p = Home[d]
                                   /\ Silent(groups, groups', d, Ip[p], KeysFrom[p])
    BY <1>8 DEF Spoken
  <2>2. \A o \in Devices : Exact(groups, o) => Exact(groups', o) BY <2>1 DEF Silent
  <2>3. d \notin scene.movers => groups'.devices[d].ip = Ip[Home[d]] BY <2>1 DEF Silent
  <2>4. d \notin scene.movers => groups'.devices[d].keys = IF d \in Registered(groups) THEN old ELSE from
    BY <1>3, <2>1 DEF Silent
  <2>5. probed'[d] = probed[d] BY <1>8 DEF Spoken
  <2>6. d \notin scene.movers => groups'.devices[d].keys \in {from, with(probed'[d])} BY <1>4, <2>4, <2>5
  <2>7. Settled(d) => old \subseteq groups'.devices[d].keys BY <1>2, <2>4 DEF Settled
  <2>8. QED BY <1>4, <2>2, <2>3, <2>5, <2>6, <2>7
<1>9. QED BY <1>6, <1>7, <1>8 DEF Message

\* Places, keys and index after a message
LEMMA PlacesAfter ==
  ASSUME NEW d \in Devices, PresenceInv, Message(d), InPlace, KeysKnown, Traces
  PROVE  InPlace' /\ KeysKnown' /\ Traces'
<1>1. /\ scene' = scene /\ place' = place
      /\ \A o \in Devices \ {d} : probed'[o] = probed[o]
      /\ \A o \in Devices \ {d} : o \in Registered(groups') => groups'.devices[o] = groups.devices[o] /\ o \in Registered(groups)
  BY DEF Message, Renewed, Registered
<1>2. ASSUME NEW o \in Devices, o \notin scene.movers
      PROVE  /\ place'[o] = Home[o]
             /\ \A c \in open'[o] : c.at = Home[o]
             /\ o \in Registered(groups') => groups'.devices[o].ip = Ip[Home[o]]
             /\ o \notin scene.fresh => probed'[o] = Home[o]
             /\ o \in Registered(groups') =>
                  groups'.devices[o].keys \in {KeysFrom[Home[o]], KeysWith[Home[o]][probed'[o]]}
  <2>1. place'[o] = Home[o] BY <1>1, <1>2 DEF InPlace
  <2>2. \A c \in open'[o] : c.at = Home[o] BY <1>2 DEF InPlace, Message
  <2>3. CASE o = d BY <1>2, <2>1, <2>2, <2>3, KeysAfter
  <2>4. CASE o # d
    <3>1. /\ o \in Registered(groups) => groups.devices[o].ip = Ip[Home[o]]
          /\ o \notin scene.fresh => probed[o] = Home[o]
          /\ o \in Registered(groups) =>
                  groups.devices[o].keys \in {KeysFrom[Home[o]], KeysWith[Home[o]][probed[o]]}
      BY <1>2 DEF InPlace, KeysKnown
    <3>2. probed'[o] = probed[o] BY <1>1, <2>4
    <3>3. QED BY <1>1, <2>1, <2>2, <2>4, <3>1, <3>2
  <2>5. QED BY <2>3, <2>4
<1>3. InPlace' /\ KeysKnown' BY <1>1, <1>2 DEF InPlace, KeysKnown
<1>4. \A o \in Devices : ~Traced(o) => Exact(groups', o) BY KeysAfter DEF Traces
<1>5. Traces' BY <1>1, <1>4 DEF Traces, Traced
<1>6. QED BY <1>3, <1>5

\* Only a presentation sends a list, and only to the device that presents itself.
LEMMA PresentsList ==
  ASSUME NEW g, NEW d \in Devices, NEW vis, NEW out, Presents(out, g, d, vis)
  PROVE  \A o : ListSent(o, out) <=> o = d
<1> DEFINE first == To({d}, GroupPresence(Announced(g, vis)))
           second == To(vis, PeerDiscovered(d, g.devices[d].sig))
           posts == Quiet \cup Farewells(d) \cup {first, second}
<1>1. /\ DOMAIN out = 1 .. Len(out) /\ \A i \in DOMAIN out : out[i] \in posts
      /\ \E k \in DOMAIN out : out[k] = first
  <2>1. Presentation(g, d, vis) = {first, second} BY DEF Presentation
  <2>2. out \in Seq(posts) /\ \E k \in 1 .. Len(out) : out[k] = first BY <2>1 DEF Presents
  <2> HIDE DEF posts, first
  <2>3. QED BY <2>2, LenProperties, ElementOfSeq
<1>2. first.to = {d} /\ first.msg.type = "group-presence" BY DEF To, GroupPresence
<1>3. second.msg.type # "group-presence" BY DEF To, PeerDiscovered
<1>4. \A post \in Quiet : post.msg.type # "group-presence" BY DEF Quiet, RoomMsgs
<1>5. \A post \in Farewells(d) : post.msg.type # "group-presence" BY DEF Farewells, PeerLeft
<1> HIDE DEF first, second
<1>6. \A i \in DOMAIN out : out[i].msg.type = "group-presence" => out[i].to = {d}
  BY <1>1, <1>2, <1>3, <1>4, <1>5
<1>7. QED BY <1>1, <1>2, <1>6 DEF ListSent

\* Nor is there one in a departure or in what is said of rooms.
LEMMA NoList ==
  ASSUME NEW d, NEW vis, NEW out, out \in Seq(Quiet) \/ Departs(out, d, vis)
  PROVE  \A o : ~ListSent(o, out)
<1> DEFINE post == To(vis, PeerLeft(d))
<1>1. \A x \in Quiet \cup {post} : x.msg.type # "group-presence"
  BY DEF Quiet, RoomMsgs, To, PeerLeft
<1>2. out \in Seq(Quiet) \/ out \in Seq(Quiet \cup {post}) BY DEF Departs
<1> HIDE DEF post
<1>3. DOMAIN out = 1 .. Len(out) /\ \A i \in DOMAIN out : out[i] \in Quiet \cup {post}
  BY <1>2, LenProperties, ElementOfSeq
<1>4. QED BY <1>1, <1>3 DEF ListSent

\* A device whose message makes it present itself
LEMMA PresentedMeets ==
  ASSUME NEW d \in Devices, PresenceInv, Known, Watching, Traces, Meeting,
         Message(d), Registered(groups') \subseteq scene.active, Traces',
         Settled(d) => groups.devices[d].keys \subseteq groups'.devices[d].keys,
         NEW newest, NEW out, Presents(out, groups', d, VisiblePeers(groups', d, newest)),
         Deliver(link', out)
  PROVE  Watching' /\ Meeting'
<1> DEFINE vis == VisiblePeers(groups', d, newest)
<1>1. GroupsRight(groups') /\ d \in Registered(groups') /\ scene' = scene /\ d \in scene.active
  BY Nobody DEF Message, Renewed, Registered
<1>2. /\ vis \subseteq Listed(groups', d)
      /\ Listed(groups', d) \subseteq Registered(groups') \ {d}
      /\ \A o \in Listed(groups', d) : (\A x \in Registered(groups') \ {o} : ~Alike(x, o)) => o \in vis
      /\ \A o \in Devices \ {d} : Meet(groups', d, o) => o \in Listed(groups', d)
      /\ \A o \in Listed(groups', d) : Exact(groups', o) => Meet(groups', d, o)
  BY <1>1, Visible
<1>3. vis \in SUBSET (Devices \ {d}) BY <1>2 DEF Registered
<1>4. \A o \in Listed(groups', d) : Unique(o) => o \in vis
  <2>1. TAKE o \in Listed(groups', d)
  <2>2. HAVE Unique(o)
  <2>3. \A x \in Registered(groups') \ {o} : ~Alike(x, o) BY <2>2, Unlike DEF Alike, Unique
  <2>4. QED BY <1>2, <2>3
<1>5. view \in [Devices -> Views] BY DEF Watching
<1> HIDE DEF vis
<1>6. \A p \in Devices :
        LET w == HandleAll(view[p], p, out) IN
        /\ w \in Views
        /\ p = d => DOMAIN w.nearby = vis
        /\ p \in vis => d \in DOMAIN w.nearby
        /\ p # d => /\ p \notin vis /\ d \in DOMAIN w.nearby => d \in DOMAIN view[p].nearby
                    /\ d \in DOMAIN view[p].nearby => d \in DOMAIN w.nearby
                    /\ \A o \in Devices \ {d} :
                         /\ o \in DOMAIN w.nearby => o \in DOMAIN view[p].nearby
                         /\ o \in DOMAIN view[p].nearby /\ ~Alike(o, d) => o \in DOMAIN w.nearby
  BY <1>1, <1>3, <1>5, PresentationHeard DEF vis
<1>7. Watching' BY <1>5, <1>6 DEF Deliver, Heard, Watching
<1>8. \A o \in Devices \ {d} : Unique(o) => groups'.devices[o] = groups.devices[o] BY OthersStay
<1>9. \A o \in Devices \ {d} : /\ conns'[o] = conns[o] /\ link'[o] = link[o] BY DEF Message
<1>10. \A o \in Devices \ {d} : missed'[o] = missed[o] BY <1>3, PresentsList DEF Deliver, vis
<1>11. SUFFICES ASSUME NEW p \in Devices, NEW o \in Devices, p # o, Plain(p), Plain(o), Unique(p), Unique(o),
                       p \in Registered(groups'), Reaches(conns', link', p), ~missed'[p]
                PROVE  /\ ~missed'[o] /\ Meet(groups', p, o) => o \in DOMAIN view'[p].nearby
                       /\ ~Traced(p) /\ Settled(o) /\ o \in DOMAIN view'[p].nearby => Meet(groups', p, o)
  BY <1>1, <1>7 DEF Meeting, Plain, Hears, Unique, Traced, Settled, Overlap, Meet
<1>12. view'[p] = HandleAll(view[p], p, out) BY <1>11 DEF Deliver, Heard
<1>13. Exact(groups', p) \/ Traced(p) BY <1>1 DEF Traces, Traced
<1>14. Settled(o) => Exact(groups', o)
  <2>1. Settled(o) => ~Traced(o) BY DEF Settled, Traced
  <2>2. QED BY <1>1, <2>1 DEF Traces, Traced
<1>15. CASE p = d
  <2>1. DOMAIN view'[p].nearby = vis BY <1>6, <1>12, <1>15
  <2>2. Meet(groups', p, o) => o \in vis BY <1>2, <1>4, <1>11, <1>15
  <2>3. Settled(o) /\ o \in vis => Meet(groups', p, o) BY <1>2, <1>14, <1>15 DEF vis
  <2>4. QED BY <2>1, <2>2, <2>3
<1>16. p # d => Hears(p)
  <2>1. HAVE p # d
  <2>2. p \in Registered(groups) BY <1>8, <1>11, <2>1 DEF Registered
  <2>3. Reaches(conns, link, p) BY <1>9, <1>11, <2>1 DEF Reaches
  <2>4. ~missed[p] BY <1>11, <1>10, <2>1
  <2>5. QED BY <1>11, <2>2, <2>3, <2>4 DEF Hears
<1>17. p # d => /\ ~missed[o] /\ Meet(groups, p, o) => o \in DOMAIN view[p].nearby
                /\ ~Traced(p) /\ Settled(o) /\ o \in DOMAIN view[p].nearby => Meet(groups, p, o)
  BY <1>11, <1>16 DEF Meeting, Overlap, Meet
<1>18. CASE p # d /\ o = d
  <2>1. groups'.devices[p] = groups.devices[p] BY <1>8, <1>11, <1>18
  <2>2. Meet(groups', p, o) => Meet(groups', d, p) BY <1>18 DEF Meet
  <2>3. Meet(groups', p, o) => p \in vis BY <1>2, <1>4, <1>11, <1>18, <2>2
  <2>4. Meet(groups', p, o) => o \in DOMAIN view'[p].nearby BY <1>6, <1>12, <1>18, <2>3
  <2>5. ASSUME ~Traced(p), Settled(o), o \in DOMAIN view'[p].nearby PROVE Meet(groups', p, o)
    <3>1. CASE p \in vis
      <4>1. Meet(groups', d, p) BY <1>2, <1>13, <2>5, <3>1 DEF vis
      <4>2. QED BY <1>18, <4>1 DEF Meet
    <3>2. CASE p \notin vis
      <4>1. o \in DOMAIN view[p].nearby BY <1>6, <1>12, <1>18, <2>5, <3>2
      <4>2. Meet(groups, p, o) BY <1>17, <1>18, <2>5, <4>1
      <4>3. QED BY <1>18, <2>1, <2>5, <4>2 DEF Meet
    <3>3. QED BY <3>1, <3>2
  <2>6. QED BY <2>4, <2>5
<1>19. CASE p # d /\ o # d
  <2>1. Meet(groups', p, o) <=> Meet(groups, p, o) BY <1>8, <1>11, <1>19 DEF Meet
  <2>2. ~Alike(o, d) BY <1>1, <1>11, <1>19, Unlike
  <2>3. o \in DOMAIN view'[p].nearby <=> o \in DOMAIN view[p].nearby BY <1>6, <1>12, <1>19, <2>2
  <2>4. missed'[o] = missed[o] BY <1>19, <1>10
  <2>5. QED BY <1>17, <1>19, <2>1, <2>3, <2>4
<1>20. QED BY <1>15, <1>18, <1>19

\* Nothing of what a page hears and knows of the devices nearby changes.
LEMMA QuietMeets ==
  ASSUME Meeting, scene' = scene, \A p \in Devices : ~missed'[p] => ~missed[p],
         \A p \in Devices : Plain(p) /\ Unique(p) =>
           /\ groups.devices[p].keys # {} \/ ~missed'[p] => groups'.devices[p].keys = groups.devices[p].keys
           /\ p \in Registered(groups') /\ Reaches(conns', link', p) /\ ~missed'[p] =>
                Hears(p) /\ view'[p].nearby = view[p].nearby
  PROVE  Meeting'
<1>1. SUFFICES ASSUME NEW p \in Devices, NEW o \in Devices, p # o, Plain(p), Plain(o), Unique(p), Unique(o),
                       p \in Registered(groups'), Reaches(conns', link', p), ~missed'[p]
                PROVE  /\ ~missed'[o] /\ Meet(groups', p, o) => o \in DOMAIN view'[p].nearby
                       /\ ~Traced(p) /\ Settled(o) /\ o \in DOMAIN view'[p].nearby => Meet(groups', p, o)
  BY DEF Meeting, Plain, Hears, Unique, Traced, Settled, Overlap, Meet
<1>2. Hears(p) /\ view'[p].nearby = view[p].nearby BY <1>1
<1>3. groups'.devices[p].keys = groups.devices[p].keys BY <1>1
<1>4. ~missed'[o] => ~missed[o] /\ groups'.devices[o].keys = groups.devices[o].keys BY <1>1
<1>5. Meet(groups, p, o) => groups'.devices[o].keys = groups.devices[o].keys BY <1>1 DEF Meet
<1>6. ~missed'[o] /\ Meet(groups', p, o) => o \in DOMAIN view'[p].nearby
  BY <1>1, <1>2, <1>3, <1>4 DEF Meeting, Overlap, Meet
<1>7. ~Traced(p) /\ Settled(o) /\ o \in DOMAIN view'[p].nearby => Meet(groups', p, o)
  BY <1>1, <1>2, <1>3, <1>5 DEF Meeting, Overlap, Meet
<1>8. QED BY <1>6, <1>7

\* A message of a device that presents itself keeps the invariant.
LEMMA PresentedKeeps ==
  ASSUME NEW d \in Devices, MeetInv, PresenceInv', Message(d), IsFiniteSet(DOMAIN rooms'),
         NEW newest, NEW out, Presents(out, groups', d, VisiblePeers(groups', d, newest)), Deliver(link', out)
  PROVE  MeetInv'
<1>1. PresenceInv /\ Known /\ Watching /\ Attached /\ InPlace /\ KeysKnown /\ Traces /\ Meeting
  BY DEF MeetInv
<1>2. Registered(groups') \subseteq scene.active /\ IsFiniteSet(Registered(groups')) BY <1>1, KnownAfter
<1>3. Known' BY <1>2 DEF Known, Message
<1>4. Attached'
  <2>1. \A o : ListSent(o, out) <=> o = d BY PresentsList
  <2>2. /\ \A o \in Devices \ {d} : missed'[o] = missed[o]
        /\ missed'[d] = ~Reaches(conns', link', d)
    BY <2>1 DEF Deliver
  <2>3. link'[d] # NoConn /\ ~missed'[d] => SameConn(conns'[d], link'[d]) BY <2>2 DEF Reaches
  <2>4. QED BY <1>1, <2>2, <2>3, AttachedAfter
<1>5. InPlace' /\ KeysKnown' /\ Traces' BY <1>1, PlacesAfter
<1>6. Settled(d) => groups.devices[d].keys \subseteq groups'.devices[d].keys BY <1>1, KeysAfter
<1>7. Watching' /\ Meeting' BY <1>1, <1>2, <1>5, <1>6, PresentedMeets
<1>8. QED BY <1>3, <1>4, <1>5, <1>7 DEF MeetInv

\* A message about rooms
LEMMA QuietKeeps ==
  ASSUME NEW d \in Devices, MeetInv, PresenceInv', Message(d), Spoken(d), IsFiniteSet(DOMAIN rooms'),
         d \in scene.roomers, Online(d), link' = link, ~missed[d] => SameConn(conns'[d], link[d]),
         NEW out \in Seq(Quiet), Deliver(link, out)
  PROVE  MeetInv'
<1>1. PresenceInv /\ Known /\ Watching /\ Attached /\ InPlace /\ KeysKnown /\ Traces /\ Meeting
  BY DEF MeetInv
<1>2. Registered(groups') \subseteq scene.active /\ IsFiniteSet(Registered(groups')) BY <1>1, KnownAfter
<1>3. Known' BY <1>2 DEF Known, Message
<1>4. \A o \in Devices : missed'[o] = missed[o] BY NoList DEF Deliver
<1>5. Attached' BY <1>1, <1>4, AttachedAfter
<1>6. InPlace' /\ KeysKnown' /\ Traces' BY <1>1, PlacesAfter
<1>7. \A p \in Devices : HandleAll(view[p], p, out) \in Views /\ HandleAll(view[p], p, out).nearby = view[p].nearby
  BY <1>1, QuietHeard DEF Watching
<1>8. Watching' BY <1>1, <1>7 DEF Deliver, Heard, Watching
<1>9. \A p \in Devices : view'[p].nearby = view[p].nearby BY <1>7 DEF Deliver, Heard
<1>10. ASSUME NEW p \in Devices, Plain(p), Unique(p)
       PROVE  /\ groups.devices[p].keys # {} \/ ~missed'[p] => groups'.devices[p].keys = groups.devices[p].keys
              /\ p \in Registered(groups') /\ Reaches(conns', link', p) /\ ~missed'[p] =>
                   Hears(p) /\ view'[p].nearby = view[p].nearby
  <2>1. CASE p # d
    <3>1. groups'.devices[p] = groups.devices[p] /\ conns'[p] = conns[p] BY <1>10, <2>1, OthersStay DEF Message
    <3>2. p \in Registered(groups') => p \in Registered(groups) BY <3>1 DEF Registered
    <3>3. QED BY <1>4, <1>9, <1>10, <3>1, <3>2 DEF Hears, Reaches
  <2>2. CASE p = d
    <3>1. d \notin scene.movers BY <1>10, <2>2 DEF Plain
    <3>2. ~missed'[d] => SameConn(conns[d], link[d]) /\ d \in Registered(groups)
      BY <1>1, <1>4, <1>10, <2>2 DEF Attached
    <3>3. ~missed'[d] => Hears(p) BY <1>4, <1>10, <2>2, <3>2 DEF Hears, Reaches, Online
    <3>4. groups.devices[d].keys # {} => d \in Registered(groups) BY Nobody DEF Registered
    <3>5. d \in Registered(groups) => groups.devices[d].ip = Ip[Home[d]] BY <1>1, <3>1 DEF InPlace
    <3>6. d \in Registered(groups) => groups'.devices[d].keys = groups.devices[d].keys
      BY <3>1, <3>5 DEF Spoken, Silent
    <3>7. QED BY <1>9, <2>2, <3>2, <3>3, <3>4, <3>6
  <2>3. QED BY <2>1, <2>2
<1>11. Meeting' BY <1>1, <1>4, <1>10, QuietMeets DEF Message
<1>12. QED BY <1>3, <1>5, <1>6, <1>8, <1>11 DEF MeetInv

LEMMA UsualAttached ==
  ASSUME NEW d \in Devices, PresenceInv, Attached, UsualContact(d), ~missed[d]
  PROVE  SameConn(conns'[d], link[d])
<1>1. SameConn(conns[d], link[d]) /\ link[d] # NoConn BY DEF Attached, UsualContact, Online
<1>2. PlacesTyped /\ link[d] \in Links BY DEF PresenceInv, PlacesTyped
<1>3. CASE link[d].transport # "ws"
  <2>1. link[d].transport # "none" BY <1>1, <1>2, Transports DEF Links
  <2>2. conns[d] # NoConn BY <1>1, <2>1, Transports DEF SameConn
  <2>3. conns' = conns BY <1>3, <2>2 DEF UsualContact, Post
  <2>4. QED BY <1>1, <2>3
<1>4. CASE link[d].transport = "ws"
  <2>1. conns'[d] = link[d] BY <1>2, <1>4, Contacts DEF UsualContact
  <2>2. QED BY <2>1 DEF SameConn
<1>5. QED BY <1>3, <1>4

\* A message over the usual connection
LEMMA UsualMessage ==
  ASSUME NEW d \in Devices, PresenceInv, UsualContact(d), UNCHANGED <<open, link, scene, place>>,
         Renewed(groups, groups', d), Joined(d) \/ Rescanned(d) \/ Spoken(d),
         \A o \in Devices \ {d} : probed'[o] = probed[o]
  PROVE  Message(d)
<1>1. Sound(d) /\ d \in scene.active BY Usual
<1>2. \A o \in Devices \ {d} : conns'[o] = conns[o] BY <1>1 DEF Sound
<1>3. QED BY <1>1, <1>2 DEF Message

-----------------------------------------------------------------------------
\* The actions of a page that present the device
LEMMA ReprobeMeets ==
  ASSUME MeetInv, NEW d \in Devices, Reprobe(d)
  PROVE  MeetInv'
<1>1. PresenceInv /\ Known /\ Attached BY DEF MeetInv
<1>2. PresenceInv' BY <1>1, MessagesKeep
<1>3. GroupsRight(groups) /\ RoomsRight(rooms) /\ probed \in [Devices -> DOMAIN Places \cup {Nowhere}]
  BY <1>1 DEF PresenceInv, PlacesTyped
<1>4. groups' = JoinGroups(groups, d, Ip[place[d]], KeysWith[place[d]][place[d]]) BY DEF Reprobe
<1>5. Renewed(groups, groups', d) BY <1>1, <1>3, <1>4, Addresses, JoinRenews
<1>6. probed'[d] = place[d] /\ \A o \in Devices \ {d} : probed'[o] = probed[o] BY <1>3 DEF Reprobe
<1>7. Joined(d) BY <1>3, <1>4, <1>6, JoinKeys DEF Joined
<1>8. Message(d) BY <1>1, <1>5, <1>6, <1>7, UsualMessage DEF Reprobe
<1>9. PICK newest \in Newest : Deliver(link, JoinOut(groups, groups', rooms, d, newest))
  BY DEF Reprobe
<1>10. Presents(JoinOut(groups, groups', rooms, d, newest), groups', d, VisiblePeers(groups', d, newest))
  BY <1>1, <1>3, <1>5, JoinOutPresents DEF Known
<1>11. link' = link /\ rooms' = rooms BY DEF Reprobe
<1>12. IsFiniteSet(DOMAIN rooms') BY <1>1, <1>11 DEF Known
<1>13. QED BY <1>2, <1>8, <1>9, <1>10, <1>11, <1>12, PresentedKeeps

LEMMA PingMeets ==
  ASSUME MeetInv, NEW d \in Devices, Ping(d)
  PROVE  MeetInv'
<1>1. PresenceInv /\ Known /\ Attached /\ InPlace BY DEF MeetInv
<1>2. PresenceInv' BY <1>1, MessagesKeep
<1>3. GroupsRight(groups) /\ place[d] \in DOMAIN Places BY <1>1 DEF PresenceInv, PlacesTyped
<1>4. groups' = PingGroups(groups, d, Ip[place[d]], KeysFrom[place[d]]) BY DEF Ping
<1>5. Renewed(groups, groups', d) BY <1>1, <1>3, <1>4, Addresses, MessagesRenew
<1>6. Spoken(d)
  <2>1. Silent(groups, groups', d, Ip[place[d]], KeysFrom[place[d]]) BY <1>1, <1>3, <1>4, Addresses, MessageKeys
  <2>2. d \in scene.movers \/ place[d] = Home[d] BY <1>1 DEF InPlace
  <2>3. QED BY <1>3, <2>1, <2>2 DEF Spoken, Ping
<1>7. Message(d) BY <1>1, <1>5, <1>6, UsualMessage DEF Ping
<1>8. PICK newest \in Newest : Deliver(link, PresenceOut(groups', d, newest)) BY DEF Ping
<1>9. GroupsRight(groups') /\ d \in Registered(groups') BY <1>5, Nobody DEF Renewed, Registered
<1>10. Presents(PresenceOut(groups', d, newest), groups', d, VisiblePeers(groups', d, newest))
  BY <1>9, PresenceOutPresents
<1>11. link' = link /\ rooms' = rooms BY DEF Ping
<1>12. IsFiniteSet(DOMAIN rooms') BY <1>1, <1>11 DEF Known
<1>13. QED BY <1>2, <1>7, <1>8, <1>10, <1>11, <1>12, PresentedKeeps

LEMMA RescanMeets ==
  ASSUME MeetInv, NEW d \in Devices, Rescan(d)
  PROVE  MeetInv'
<1>1. PresenceInv /\ Known /\ Attached /\ InPlace BY DEF MeetInv
<1>2. PresenceInv' BY <1>1, MessagesKeep
<1>3. GroupsRight(groups) /\ RoomsRight(rooms) /\ place[d] \in DOMAIN Places BY <1>1 DEF PresenceInv, PlacesTyped
<1>4. probed' = probed /\ link' = link /\ rooms' = rooms /\ d \in scene.rescans BY DEF Rescan
<1>5. Renewed(groups, groups', d) /\ (Rescanned(d) \/ Spoken(d))
  <2>1. CASE groups' = RescanGroups(groups, d, Ip[place[d]], KeysWith[place[d]][probed[d]])
    <3>1. Renewed(groups, groups', d) BY <1>1, <1>3, <2>1, Addresses, MessagesRenew
    <3>2. Reported(groups, groups', d, Ip[place[d]], KeysWith[place[d]][probed[d]])
      BY <1>1, <1>3, <2>1, Addresses, MessageKeys
    <3>3. QED BY <1>4, <3>1, <3>2 DEF Rescanned
  <2>2. CASE groups' = ProfileGroups(groups, d, Ip[place[d]], KeysFrom[place[d]])
    <3>1. Renewed(groups, groups', d) BY <1>1, <1>3, <2>2, Addresses, MessagesRenew
    <3>2. Silent(groups, groups', d, Ip[place[d]], KeysFrom[place[d]])
      BY <1>1, <1>3, <2>2, Addresses, MessageKeys
    <3>3. d \in scene.movers \/ place[d] = Home[d] BY <1>1 DEF InPlace
    <3>4. QED BY <1>3, <1>4, <3>1, <3>2, <3>3 DEF Spoken
  <2>3. QED BY <2>1, <2>2 DEF Rescan
<1>6. Message(d) BY <1>1, <1>4, <1>5, UsualMessage DEF Rescan
<1>7. PICK newest \in Newest : Deliver(link, PresenceOut(groups', d, newest) \o RoomsOut(groups', rooms, d))
  BY DEF Rescan
<1>8. GroupsRight(groups') /\ d \in Registered(groups') BY <1>5, Nobody DEF Renewed, Registered
<1>9. Presents(PresenceOut(groups', d, newest), groups', d, VisiblePeers(groups', d, newest))
  BY <1>8, PresenceOutPresents
<1>10. RoomsOut(groups', rooms, d) \in Seq(Quiet) BY <1>1, <1>3, <1>8, RoomsOutQuiet DEF Known
<1>11. Presents(PresenceOut(groups', d, newest) \o RoomsOut(groups', rooms, d), groups', d,
                VisiblePeers(groups', d, newest))
  BY <1>9, <1>10, PresentsMore
<1>12. IsFiniteSet(DOMAIN rooms') BY <1>1, <1>4 DEF Known
<1>13. QED BY <1>2, <1>4, <1>6, <1>7, <1>11, <1>12, PresentedKeeps

LEMMA ConnectMeets ==
  ASSUME MeetInv, NEW d \in Devices, NEW transport \in {"ws", "sse", "poll"}, Connect(d, transport)
  PROVE  MeetInv'
<1> DEFINE code == view[d].room
           join(newest) == JoinOut(groups, groups', rooms, d, newest)
           room == JoinRoomOut(groups', rooms, rooms', code, d, FALSE)
<1>1. PresenceInv /\ Known BY DEF MeetInv
<1>2. PresenceInv' BY <1>1, ConnectKeeps
<1>3. GroupsRight(groups) /\ RoomsRight(rooms) /\ PlacesTyped BY <1>1 DEF PresenceInv
<1>4. groups' = JoinGroups(groups, d, Ip[place[d]], KeysWith[place[d]][probed[d]])
      /\ UNCHANGED <<place, probed, scene>> /\ d \in scene.active
  BY DEF Connect
<1>5. Renewed(groups, groups', d) BY <1>1, <1>3, <1>4, Addresses, JoinRenews
<1>6. Joined(d) BY <1>3, <1>4, JoinKeys DEF Joined
<1>7. PICK c \in Links : /\ c.at = place[d]
                         /\ link' = [link EXCEPT ![d] = c]
                         /\ open' = [open EXCEPT ![d] = @ \cup ({c} \cap Conns)]
                         /\ Contact(d, c) \/ Post(d)
  <2>1. Poll(place[d]).at = place[d] BY DEF Poll
  <2>2. Poll(place[d]) \in Links /\ \A e \in Conns : e \in Links BY <1>3, Transports DEF PlacesTyped
  <2>3. QED BY <2>1, <2>2 DEF Connect
<1>8. Sound(d) BY <1>3, <1>7, Contacts, PostContacts
<1>9. Message(d)
  <2>1. \A o \in Devices \ {d} : link'[o] = link[o] BY <1>3, <1>7 DEF PlacesTyped
  <2>2. \A o \in Devices : \A e \in open'[o] : e \in open[o] \/ e.at = place[o] BY <1>3, <1>7 DEF PlacesTyped
  <2>3. QED BY <1>4, <1>5, <1>6, <1>8, <2>1, <2>2 DEF Message, Sound
<1>10. PICK newest \in Newest : Deliver(link', IF code = NoRoom THEN join(newest) ELSE join(newest) \o room)
  <2>1. PICK out \in {join(newest) : newest \in Newest} : Deliver(link', IF code = NoRoom THEN out ELSE out \o room)
    BY DEF Connect
  <2> HIDE DEF join, code, room
  <2>2. PICK newest \in Newest : out = join(newest) BY <2>1
  <2>3. QED BY <2>1, <2>2
<1>11. Presents(join(newest), groups', d, VisiblePeers(groups', d, newest))
  BY <1>1, <1>3, <1>5, JoinOutPresents DEF Known
<1>12. rooms' = IF code = NoRoom THEN rooms ELSE JoinRoomRooms(groups', rooms, code, d, FALSE) BY DEF Connect
<1> HIDE DEF code, join
<1>13. DOMAIN rooms' \subseteq DOMAIN rooms \cup {code}
  BY <1>12 DEF JoinRoomRooms, JoinRoom, DropRooms
<1>14. IsFiniteSet(DOMAIN rooms') BY <1>1, <1>13, RoomsFinite
<1>15. CASE code = NoRoom
  BY <1>2, <1>9, <1>10, <1>11, <1>14, <1>15, PresentedKeeps
<1>16. CASE code # NoRoom
  <2>1. rooms' = JoinRoomRooms(groups', rooms, code, d, FALSE) /\ GroupsRight(groups') BY <1>5, <1>12, <1>16 DEF Renewed
  <2>2. room \in Seq(Quiet) BY <1>3, <2>1, JoinRoomOutQuiet
  <2> HIDE DEF room
  <2>3. Presents(join(newest) \o room, groups', d, VisiblePeers(groups', d, newest))
    BY <1>11, <2>2, PresentsMore
  <2>4. QED BY <1>2, <1>9, <1>10, <1>14, <1>16, <2>3, PresentedKeeps
<1>17. QED BY <1>15, <1>16

LEMMA LatePingMeets ==
  ASSUME MeetInv, NEW d \in Devices, NEW c \in open[d] \cup {Poll(place[d])}, LatePing(d, c)
  PROVE  MeetInv'
<1>1. PresenceInv /\ Known /\ InPlace BY DEF MeetInv
<1>2. PresenceInv' BY <1>1, StraysKeep
<1>3. GroupsRight(groups) /\ PlacesTyped BY <1>1 DEF PresenceInv
<1>4. c \in Links /\ c.at \in DOMAIN Places /\ (d \in scene.movers \/ c.at = Home[d])
  <2>1. place[d] \in DOMAIN Places /\ open[d] \subseteq Conns BY <1>3 DEF PlacesTyped
  <2>2. CASE c \in open[d] BY <1>1, <2>1, <2>2, Transports DEF Conns, InPlace
  <2>3. CASE c = Poll(place[d])
    <3>1. c.at = place[d] BY <2>3 DEF Poll
    <3>2. QED BY <1>1, <2>1, <2>3, <3>1, Transports DEF InPlace
  <2>4. QED BY <2>2, <2>3
<1>5. /\ groups' = PingGroups(groups, d, Ip[c.at], KeysFrom[c.at]) /\ Stray(d)
      /\ UNCHANGED <<rooms, open, link, place, probed, scene>>
  BY DEF LatePing
<1>6. Renewed(groups, groups', d) BY <1>1, <1>3, <1>4, <1>5, Addresses, MessagesRenew
<1>7. Spoken(d)
  <2>1. Silent(groups, groups', d, Ip[c.at], KeysFrom[c.at]) BY <1>1, <1>3, <1>4, <1>5, Addresses, MessageKeys
  <2>2. QED BY <1>4, <1>5, <2>1 DEF Spoken
<1>8. Message(d)
  <2>1. Contact(d, c) \/ Post(d) BY DEF LatePing
  <2>2. Sound(d) BY <1>3, <1>4, <2>1, Contacts, PostContacts
  <2>3. d \in scene.active BY <1>3, <1>5, PresenceAssumption DEF Stray, PlacesTyped, PresenceAssumption
  <2>4. QED BY <1>5, <1>6, <1>7, <2>2, <2>3 DEF Message, Sound
<1>9. PICK newest \in Newest : Deliver(link, PresenceOut(groups', d, newest)) BY DEF LatePing
<1>10. GroupsRight(groups') /\ d \in Registered(groups') BY <1>6, Nobody DEF Renewed, Registered
<1>11. Presents(PresenceOut(groups', d, newest), groups', d, VisiblePeers(groups', d, newest))
  BY <1>10, PresenceOutPresents
<1>12. IsFiniteSet(DOMAIN rooms') BY <1>1, <1>5 DEF Known
<1>13. QED BY <1>2, <1>5, <1>8, <1>9, <1>11, <1>12, PresentedKeeps

\* The messages about rooms, sent from where the device was when it last presented itself
LEMMA RoomMessagesMeet ==
  ASSUME MeetInv, NEW d \in Devices, NEW code \in Codes, StartRoom(d, code) \/ EnterRoom(d, code)
  PROVE  MeetInv'
<1>1. PresenceInv /\ Known /\ Attached /\ InPlace BY DEF MeetInv
<1>2. PresenceInv' BY <1>1, MessagesKeep
<1>3. GroupsRight(groups) /\ RoomsRight(rooms) /\ place[d] \in DOMAIN Places /\ scene \in Scenes
  BY <1>1 DEF PresenceInv, PlacesTyped
<1>4. /\ UsualContact(d) /\ Online(d) /\ d \in scene.roomers
      /\ UNCHANGED <<open, link, place, probed, scene>>
  BY DEF StartRoom, EnterRoom, UsualContact
<1>5. \/ groups' = CreateGroups(groups, d, Ip[place[d]], KeysFrom[place[d]])
      \/ groups' = ProfileGroups(groups, d, Ip[place[d]], KeysFrom[place[d]])
  BY DEF StartRoom, EnterRoom
<1>6. Renewed(groups, groups', d) BY <1>1, <1>3, <1>5, Addresses, MessagesRenew
<1>7. Spoken(d)
  <2>1. Silent(groups, groups', d, Ip[place[d]], KeysFrom[place[d]]) BY <1>1, <1>3, <1>5, Addresses, MessageKeys
  <2>2. d \in scene.movers \/ place[d] = Home[d] BY <1>1 DEF InPlace
  <2>3. QED BY <1>3, <1>4, <2>1, <2>2 DEF Spoken
<1>8. Message(d) BY <1>1, <1>4, <1>6, <1>7, UsualMessage
<1>9. GroupsRight(groups') BY <1>6 DEF Renewed
<1>10. PICK out \in Seq(Quiet) : Deliver(link, out)
  <2>1. CASE StartRoom(d, code)
    <3> DEFINE post == To({d}, RoomCreated(code))
    <3>1. RoomCreated(code) \in RoomMsgs BY DEF RoomCreated, RoomMsgs
    <3>2. post \in Quiet BY <3>1 DEF To, Quiet
    <3>3. Deliver(link, <<post>>) BY <2>1 DEF StartRoom
    <3> HIDE DEF post
    <3>4. <<post>> \in Seq(Quiet) BY <3>2, PairTyped
    <3>5. QED BY <3>3, <3>4
  <2>2. CASE EnterRoom(d, code)
    <3>1. CASE Deliver(link, <<>>)
      <4>1. <<>> \in Seq(Quiet) BY EmptySeq
      <4>2. QED BY <3>1, <4>1
    <3>2. ASSUME NEW knows \in BOOLEAN, rooms' = JoinRoomRooms(groups', rooms, code, d, knows),
                 Deliver(link, JoinRoomOut(groups', rooms, rooms', code, d, knows))
          PROVE  \E out \in Seq(Quiet) : Deliver(link, out)
      <4>1. JoinRoomOut(groups', rooms, rooms', code, d, knows) \in Seq(Quiet)
        BY <1>3, <1>9, <3>2, JoinRoomOutQuiet
      <4>2. QED BY <3>2, <4>1
    <3>3. QED BY <2>2, <3>1, <3>2 DEF EnterRoom
  <2>3. QED BY <2>1, <2>2
<1>11. DOMAIN rooms' \subseteq DOMAIN rooms \cup {code}
  BY DEF StartRoom, EnterRoom, CreateRoom, JoinRoomRooms, JoinRoom, DropRooms
<1>12. IsFiniteSet(DOMAIN rooms') BY <1>1, <1>11, RoomsFinite
<1>13. ~missed[d] => SameConn(conns'[d], link[d]) BY <1>1, <1>4, UsualAttached
<1>14. QED BY <1>2, <1>4, <1>7, <1>8, <1>10, <1>12, <1>13, QuietKeeps

\* A step that changes nobody's keys or address
SameSessions ==
  /\ scene' = scene /\ Registered(groups') = Registered(groups)
  /\ \A o \in Devices : /\ groups'.devices[o].keys = groups.devices[o].keys
                        /\ groups'.devices[o].ip = groups.devices[o].ip
                        /\ Exact(groups, o) => Exact(groups', o)

LEMMA TimerSessions ==
  ASSUME NEW d \in Devices, GroupsRight(groups), scene' = scene, NEW timer \in BOOLEAN,
         d \in Registered(groups) \/ ~timer, groups' = [groups EXCEPT !.devices[d].timer = timer]
  PROVE  SameSessions
<1>1. Registered(groups') = Registered(groups) BY Timers DEF Marked
<1>2. QED BY <1>1, TimerKeys DEF SameSessions

LEMMA CalmKeeps ==
  ASSUME MeetInv, PresenceInv', SameSessions, IsFiniteSet(DOMAIN rooms'), Watching', probed' = probed,
         \A o \in Devices \ scene.movers : place'[o] = place[o] /\ open'[o] \subseteq open[o],
         \A o \in Devices : ~missed'[o] => ~missed[o],
         \A o \in Devices : link'[o] # NoConn /\ ~missed'[o] =>
           /\ link[o] # NoConn /\ SameConn(conns'[o], link'[o])
           /\ view'[o].nearby = view[o].nearby
  PROVE  MeetInv'
<1>1. PresenceInv /\ Known /\ Attached /\ InPlace /\ KeysKnown /\ Traces /\ Meeting BY DEF MeetInv
<1>2. Known' BY <1>1 DEF Known, SameSessions
<1>3. Attached' BY <1>1 DEF Attached, SameSessions, Online, Unique
<1>4. InPlace' BY <1>1 DEF InPlace, SameSessions
<1>5. KeysKnown' BY <1>1 DEF KeysKnown, SameSessions
<1>6. Traces' BY <1>1 DEF Traces, SameSessions, Traced
<1>7. \A p \in Devices : Unique(p) /\ p \in Registered(groups') /\ Reaches(conns', link', p) /\ ~missed'[p] =>
        Hears(p) /\ view'[p].nearby = view[p].nearby
  BY <1>1 DEF Attached, SameSessions, Hears, Reaches, Online
<1>8. Meeting' BY <1>1, <1>7, QuietMeets DEF SameSessions
<1>9. QED BY <1>2, <1>3, <1>4, <1>5, <1>6, <1>8 DEF MeetInv

-----------------------------------------------------------------------------
\* A page that leaves its room, a grace period that ends, a connection that is dropped and
\* a device that moves
LEMMA LeftTyped ==
  ASSUME NEW f \in [Devices -> Views], NEW d \in Devices
  PROVE  /\ LeftTheRoom(f, d) \in [Devices -> Views]
         /\ \A o \in Devices : LeftTheRoom(f, d)[o].nearby = f[o].nearby
<1> DEFINE none == <<>>
           g == [f EXCEPT ![d].room = NoRoom, ![d].mates = none]
           v == [f[d] EXCEPT !.room = NoRoom, !.mates = none]
<1>1. LeftTheRoom(f, d) = g BY DEF LeftTheRoom
<1>2. none \in Lists BY EmptyList
<1> HIDE DEF none
<1>3. f[d] \in Views OBVIOUS
<1>4. v \in Views /\ v.nearby = f[d].nearby BY <1>2, <1>3 DEF Views
<1>5. g = [f EXCEPT ![d] = v] OBVIOUS
<1> HIDE DEF g, v
<1>6. g \in [Devices -> Views] /\ \A o \in Devices : g[o] = IF o = d THEN v ELSE f[o] BY <1>4, <1>5
<1>7. QED BY <1>1, <1>4, <1>6

LEMMA ExitRoomMeets ==
  ASSUME MeetInv, NEW d \in Devices, ExitRoom(d)
  PROVE  MeetInv'
<1>1. PresenceInv /\ Known /\ Watching /\ Attached BY DEF MeetInv
<1>2. PresenceInv' BY <1>1, ExitRoomKeeps
<1>3. GroupsRight(groups) /\ RoomsRight(rooms) /\ PlacesTyped BY <1>1 DEF PresenceInv
<1>4. UNCHANGED <<open, link, place, probed, missed, stray, scene>> BY DEF ExitRoom
<1>5. CASE view' = LeftTheRoom(view, d) /\ UNCHANGED <<groups, rooms, conns, unwatched>>
  <2>1. view' \in [Devices -> Views] /\ \A o \in Devices : view'[o].nearby = view[o].nearby
    BY <1>1, <1>5, LeftTyped DEF Watching
  <2>2. SameSessions /\ IsFiniteSet(DOMAIN rooms') BY <1>1, <1>4, <1>5 DEF SameSessions, Known
  <2>3. Watching' BY <2>1 DEF Watching
  <2>4. QED BY <1>1, <1>2, <1>4, <1>5, <2>1, <2>2, <2>3, CalmKeeps DEF Attached, Online
<1>6. ASSUME UsualContact(d), groups' = CancelDisconnect(groups, d), NEW code, rooms' = LeaveRoom(rooms, code, d),
             NEW out, out = Append(LeaveOut(rooms, {code} \cap DOMAIN rooms, d), To({d}, RoomLeft)),
             NEW heard, heard = Heard(link, out),
             view' = LeftTheRoom(heard, d)
      PROVE  MeetInv'
  <2>1. out \in Seq(Quiet)
    <3> DEFINE codes == {code} \cap DOMAIN rooms
               left == LeaveOut(rooms, codes, d)
               post == To({d}, RoomLeft)
    <3>1. codes \in SUBSET DOMAIN rooms OBVIOUS
    <3>2. IsFiniteSet(codes) BY <1>1, <3>1, FS_Subset DEF Known
    <3> HIDE DEF codes
    <3>3. left \in Seq(Quiet) BY <1>3, <3>1, <3>2, LeaveOutQuiet
    <3>4. post \in Quiet BY DEF To, RoomLeft, RoomMsgs, Quiet
    <3>5. out = Append(left, post) BY <1>6 DEF codes
    <3> HIDE DEF left, post
    <3>6. QED BY <3>3, <3>4, <3>5, AppendProperties
  <2>2. heard \in [Devices -> Views] /\ \A o \in Devices : heard[o].nearby = view[o].nearby
    <3>1. \A o \in Devices : HandleAll(view[o], o, out) \in Views /\ HandleAll(view[o], o, out).nearby = view[o].nearby
      BY <1>1, <2>1, QuietHeard DEF Watching
    <3>2. QED BY <1>1, <1>6, <3>1 DEF Heard, Watching
  <2>3. view' \in [Devices -> Views] /\ \A o \in Devices : view'[o].nearby = view[o].nearby
    BY <1>6, <2>2, LeftTyped
  <2>4. SameSessions BY <1>3, <1>4, <1>6, TimerSessions DEF CancelDisconnect
  <2>5. IsFiniteSet(DOMAIN rooms')
    <3>1. DOMAIN rooms' \subseteq DOMAIN rooms \cup {code} BY <1>6 DEF LeaveRoom, DropRooms
    <3>2. QED BY <1>1, <3>1, RoomsFinite
  <2>6. Sound(d) BY <1>1, <1>6, Usual
  <2>7. ~missed[d] => SameConn(conns'[d], link[d]) BY <1>1, <1>6, UsualAttached
  <2>8. \A o \in Devices : link'[o] # NoConn /\ ~missed'[o] =>
          link[o] # NoConn /\ SameConn(conns'[o], link'[o])
    BY <1>1, <1>4, <2>6, <2>7 DEF Attached, Online, Sound
  <2>9. Watching' BY <2>3 DEF Watching
  <2>10. QED BY <1>2, <1>4, <2>3, <2>4, <2>5, <2>8, <2>9, CalmKeeps
<1>7. QED BY <1>5, <1>6 DEF ExitRoom

LEMMA ExpiryMeets ==
  ASSUME MeetInv, PruneRooms \/ \E code \in Codes : AgeRoom(code)
  PROVE  MeetInv'
<1>1. PresenceInv /\ Known /\ Watching /\ Attached BY DEF MeetInv
<1>2. PresenceInv' BY <1>1, ExpiryKeeps
<1>3. UNCHANGED <<groups, conns, open, link, place, probed, view, missed, unwatched, stray, scene>>
  BY DEF PruneRooms, AgeRoom
<1>4. DOMAIN rooms' \subseteq DOMAIN rooms \cup {NoRoom}
  BY DEF PruneRooms, PruneExpiredRooms, DropRooms, AgeRoom
<1>5. IsFiniteSet(DOMAIN rooms') BY <1>1, <1>4, RoomsFinite
<1>6. SameSessions /\ Watching' BY <1>1, <1>3 DEF SameSessions, Watching, Exact
<1>7. QED BY <1>1, <1>2, <1>3, <1>5, <1>6, CalmKeeps DEF Attached, Online

LEMMA DropMeets ==
  ASSUME MeetInv, NEW d \in Devices, Drop(d)
  PROVE  MeetInv'
<1>1. PresenceInv /\ Known /\ Watching /\ Attached BY DEF MeetInv
<1>2. PresenceInv' BY <1>1, DropKeeps
<1>3. /\ UNCHANGED <<groups, rooms, conns, open, place, probed, missed, scene>>
      /\ link' = [link EXCEPT ![d] = NoConn]
  BY DEF Drop, serverVars
<1>4. link'[d] = NoConn /\ \A o \in Devices \ {d} : link'[o] = link[o]
  BY <1>1, <1>3 DEF PresenceInv, PlacesTyped
<1>5. Lonely \in Views
  <2> DEFINE none == <<>>
  <2>1. none \in Lists BY EmptyList
  <2>2. Lonely = [nearby |-> none, room |-> NoRoom, mates |-> none] BY DEF Lonely
  <2> HIDE DEF none
  <2>3. QED BY <2>1, <2>2 DEF Views
<1>6. PICK v \in {view[d], Lonely} : view' = [view EXCEPT ![d] = v] BY DEF Drop
<1>7. view' \in [Devices -> Views] /\ \A o \in Devices \ {d} : view'[o] = view[o]
  BY <1>1, <1>5, <1>6 DEF Watching
<1>8. SameSessions /\ Watching' /\ IsFiniteSet(DOMAIN rooms') BY <1>1, <1>3, <1>7 DEF SameSessions, Watching, Exact, Known
<1>9. \A o \in Devices : link'[o] # NoConn /\ ~missed'[o] =>
        /\ link[o] # NoConn /\ SameConn(conns'[o], link'[o])
        /\ view'[o].nearby = view[o].nearby
  BY <1>1, <1>3, <1>4, <1>7 DEF Attached, Online
<1>10. QED BY <1>2, <1>3, <1>8, <1>9, CalmKeeps

LEMMA MoveMeets ==
  ASSUME MeetInv, NEW d \in Devices, NEW p \in DOMAIN Places, Move(d, p)
  PROVE  MeetInv'
<1>1. PresenceInv /\ Known /\ Watching /\ Attached /\ PlacesTyped BY DEF MeetInv, PresenceInv
<1>2. PresenceInv' BY <1>1, MoveKeeps
<1>3. /\ UNCHANGED <<groups, rooms, conns, open, probed, view, missed, scene>> /\ d \in scene.movers
      /\ place' = [place EXCEPT ![d] = p]
  BY DEF Move, serverVars
<1>4. \A o \in Devices \ {d} : place'[o] = place[o] /\ link'[o] = link[o] BY <1>1, <1>3 DEF PlacesTyped, Move
<1>5. link'[d] \in {link[d], NoConn} \/ (link[d].transport = "poll" /\ link'[d] = Poll(p))
  BY <1>1 DEF PlacesTyped, Move
<1>6. link'[d] # NoConn /\ SameConn(conns[d], link[d]) => link[d] # NoConn /\ SameConn(conns[d], link'[d])
  <2>1. CASE link'[d] \in {link[d], NoConn} BY <2>1
  <2>2. CASE link[d].transport = "poll" /\ link'[d] = Poll(p)
    <3>1. link[d] \in Links BY <1>1 DEF PlacesTyped
    <3>2. link[d] \notin Conns /\ link[d] # NoConn BY <2>2, Transports
    <3>3. PICK q \in DOMAIN Places : link[d] = Poll(q) BY <3>1, <3>2 DEF Links
    <3>4. QED BY <2>2, <3>2, <3>3 DEF SameConn, Poll
  <2>3. QED BY <1>5, <2>1, <2>2
<1>7. link'[d] # NoConn => link[d] # NoConn
  BY <1>5, Transports
<1>8. SameSessions /\ Watching' /\ IsFiniteSet(DOMAIN rooms') BY <1>1, <1>3 DEF SameSessions, Watching, Exact, Known
<1>9. \A o \in Devices : link'[o] # NoConn /\ ~missed'[o] =>
        link[o] # NoConn /\ SameConn(conns'[o], link'[o])
  BY <1>1, <1>3, <1>4, <1>6, <1>7 DEF Attached, Online
<1>10. QED BY <1>2, <1>3, <1>4, <1>8, <1>9, CalmKeeps

\* A connection that closes, and one that is silent
LEMMA CloseMeets ==
  ASSUME MeetInv, NEW d \in Devices, NEW c \in open[d], Close(d, c)
  PROVE  MeetInv'
<1>1. PresenceInv /\ Known /\ Watching /\ Attached /\ PlacesTyped /\ GroupsRight(groups)
  BY DEF MeetInv, PresenceInv
<1>2. PresenceInv' BY <1>1, CloseKeeps
<1>3. /\ UNCHANGED <<rooms, link, place, probed, view, missed, scene>> /\ ~SameConn(c, link[d])
      /\ open' = [open EXCEPT ![d] = @ \ {c}]
  BY DEF Close
<1>4. \A o \in Devices : open'[o] \subseteq open[o] BY <1>1, <1>3 DEF PlacesTyped
<1>5. /\ SameSessions
      /\ \/ conns' = conns
         \/ ClosesSession(conns, d, c) /\ conns' = RemoveConnection(conns, d)
  <2>1. CASE UNCHANGED <<conns, groups>> BY <1>3, <2>1 DEF SameSessions, Exact
  <2>2. CASE /\ ClosesSession(conns, d, c) /\ conns' = RemoveConnection(conns, d)
             /\ groups' = ScheduleDisconnect(groups, d)
    <3>1. CASE d \in Registered(groups)
      <4>1. groups' = [groups EXCEPT !.devices[d].timer = TRUE] BY <2>2, <3>1 DEF ScheduleDisconnect
      <4>2. TRUE \in BOOLEAN OBVIOUS
      <4>3. QED BY <1>1, <1>3, <2>2, <3>1, <4>1, <4>2, TimerSessions
    <3>2. CASE d \notin Registered(groups)
      BY <1>3, <2>2, <3>2 DEF ScheduleDisconnect, SameSessions, Exact
    <3>3. QED BY <3>1, <3>2
  <2>3. QED BY <2>1, <2>2 DEF Close
<1>6. /\ \A o \in Devices \ {d} : conns'[o] = conns[o]
      /\ conns'[d] = conns[d] \/ (ClosesSession(conns, d, c) /\ conns'[d] = NoConn)
  BY <1>1, <1>5 DEF PlacesTyped, RemoveConnection
<1>7. SameConn(conns[d], link[d]) /\ link[d] # NoConn => conns'[d] = conns[d]
  <2>1. SUFFICES ASSUME SameConn(conns[d], link[d]), link[d] # NoConn, ClosesSession(conns, d, c) PROVE FALSE
    BY <1>6
  <2>2. conns[d] # NoConn
    <3>1. link[d] \in Links BY <1>1 DEF PlacesTyped
    <3>2. link[d].transport # "none" BY <2>1, <3>1, Transports DEF Links
    <3>3. QED BY <2>1, <3>2, Transports DEF SameConn
  <2>3. SameConn(conns[d], c) BY <2>1, <2>2 DEF ClosesSession
  <2>4. QED BY <1>3, <2>1, <2>3 DEF SameConn
<1>8. Watching' /\ IsFiniteSet(DOMAIN rooms') BY <1>1, <1>3 DEF Watching, Known
<1>9. \A o \in Devices : link'[o] # NoConn /\ ~missed'[o] =>
        link[o] # NoConn /\ SameConn(conns'[o], link'[o])
  BY <1>1, <1>3, <1>6, <1>7 DEF Attached, Online
<1>10. QED BY <1>2, <1>3, <1>4, <1>5, <1>8, <1>9, CalmKeeps

\* A request to poll
LEMMA PollsMeet ==
  ASSUME MeetInv, Missing, NEW d \in Devices, LongPoll(d) \/ LatePoll(d)
  PROVE  MeetInv'
<1>1. PresenceInv /\ Known /\ Watching /\ Attached /\ PlacesTyped /\ GroupsRight(groups)
  BY DEF MeetInv, PresenceInv
<1>2. PresenceInv' BY <1>1, LongPollKeeps, StraysKeep
<1>3. /\ UNCHANGED <<rooms, open, link, place, probed, view, scene>>
      /\ groups' = [groups EXCEPT !.devices[d].timer = FALSE]
  BY DEF LongPoll, LatePoll, CancelDisconnect
<1>4. SameSessions
  <2>1. FALSE \in BOOLEAN OBVIOUS
  <2>2. QED BY <1>1, <1>3, <2>1, TimerSessions
<1>5. Watching' /\ IsFiniteSet(DOMAIN rooms') BY <1>1, <1>3 DEF Watching, Known
<1>6. /\ \A o \in Devices \ {d} : conns'[o] = conns[o] /\ missed'[o] = missed[o]
      /\ ~missed'[d] => ~missed[d] /\ conns'[d] = link[d]
  <2>1. CASE LongPoll(d)
    <3>1. link[d] \in Links BY <1>1 DEF PlacesTyped
    <3>2. Sound(d) /\ conns'[d] = link[d] BY <1>1, <2>1, <3>1, Contacts DEF LongPoll
    <3>3. QED BY <2>1, <3>2 DEF LongPoll, Sound
  <2>2. CASE LatePoll(d)
    <3>1. Poll(place[d]) \in Links BY <1>1, Transports DEF PlacesTyped
    <3>2. Sound(d) BY <1>1, <2>2, <3>1, Contacts DEF LatePoll
    <3>3. missed'[d] /\ \A o \in Devices \ {d} : missed'[o] = missed[o] BY <2>2 DEF LatePoll, Missing
    <3>4. QED BY <3>2, <3>3 DEF Sound
  <2>3. QED BY <2>1, <2>2
<1>7. \A o \in Devices : ~missed'[o] => ~missed[o] BY <1>6
<1>8. \A o \in Devices : link'[o] # NoConn /\ ~missed'[o] =>
        link[o] # NoConn /\ SameConn(conns'[o], link'[o])
  BY <1>1, <1>3, <1>6 DEF Attached, Online, SameConn
<1>9. QED BY <1>2, <1>3, <1>4, <1>5, <1>7, <1>8, CalmKeeps

LEMMA SilenceMeets ==
  ASSUME MeetInv, NEW d \in Devices, GrowStale(d) \/ LaneTraffic(d)
  PROVE  MeetInv'
<1>1. PresenceInv /\ Known /\ Watching /\ Attached /\ GroupsRight(groups) BY DEF MeetInv, PresenceInv
<1>2. PresenceInv' BY <1>1, GrowStaleKeeps, StraysKeep
<1>3. UNCHANGED <<rooms, conns, open, link, place, probed, view, missed, scene>> BY DEF GrowStale, LaneTraffic
<1>4. CASE LaneTraffic(d) 
  <2>1. groups' = [groups EXCEPT !.devices[d].timer = FALSE] BY <1>4 DEF LaneTraffic, CancelDisconnect
  <2>2. FALSE \in BOOLEAN OBVIOUS
  <2>3. SameSessions BY <1>1, <1>3, <2>1, <2>2, TimerSessions
  <2>4. QED BY <1>1, <1>2, <1>3, <2>3, CalmKeeps DEF Watching, Known, Attached, Online
<1>5. CASE GrowStale(d)
  <2> DEFINE s == [groups.devices[d] EXCEPT !.stale = TRUE]
  <2>1. groups.devices[d] \in Sessions /\ GroupsTyped(groups) BY <1>1 DEF GroupsRight, GroupsTyped
  <2>2. s.keys = groups.devices[d].keys /\ s.ip = groups.devices[d].ip BY <2>1 DEF Sessions
  <2>3. groups' = Update(groups, d, s) /\ d \in Registered(groups) BY <1>5 DEF GrowStale
  <2>4. s # NoSession
    <3>1. groups.devices[d].keys # {} BY <2>1, <2>3 DEF Registered, GroupsTyped, Fit
    <3>2. QED BY <2>2, <3>1, Nobody
  <2> HIDE DEF s
  <2>5. /\ \A o \in Devices : groups'.devices[o] = IF o = d THEN s ELSE groups.devices[o]
        /\ \A o \in Devices : Exact(groups, o) => Exact(groups', o)
    BY <2>1, <2>2, <2>3, UpdatingExact DEF Update, GroupsTyped
  <2>6. Registered(groups') = Registered(groups) BY <2>3, <2>4, <2>5 DEF Registered
  <2>7. SameSessions BY <1>3, <2>2, <2>5, <2>6 DEF SameSessions
  <2>8. QED BY <1>1, <1>2, <1>3, <2>7, CalmKeeps DEF Watching, Known, Attached, Online
<1>6. QED BY <1>4, <1>5

\* A device whose grace period is over is forgotten by those who listed it.
LEMMA DepartMeets ==
  ASSUME MeetInv, NEW d \in Devices, Depart(d)
  PROVE  MeetInv'
<1>1. /\ PresenceInv /\ Known /\ Watching /\ Attached /\ InPlace /\ KeysKnown /\ Traces /\ Meeting
      /\ GroupsRight(groups) /\ RoomsRight(rooms) /\ PlacesTyped
  BY DEF MeetInv, PresenceInv
<1>2. PresenceInv' BY <1>1, DepartKeeps
<1>3. /\ UNCHANGED <<conns, open, link, place, probed, scene>>
      /\ groups' = RemoveDevice(groups, d) /\ rooms' = LeaveAll(rooms, RoomsOf(rooms, d), d)
      /\ groups.devices[d].timer
  BY DEF Depart
<1>4. /\ GroupsRight(groups') /\ groups'.devices[d] = NoSession
      /\ \A o \in Devices \ {d} : groups'.devices[o] = groups.devices[o]
      /\ \A o \in Devices : Exact(groups, o) => Exact(groups', o)
  BY <1>1, <1>3, Removing, RemovedKeys
<1>5. Registered(groups') \in SUBSET Registered(groups) /\ d \notin Registered(groups') BY <1>4 DEF Registered
<1>6. Known'
  <2>1. IsFiniteSet(Registered(groups')) BY <1>1, <1>5, FS_Subset DEF Known
  <2>2. DOMAIN rooms' \subseteq DOMAIN rooms \cup {NoRoom} BY <1>3 DEF LeaveAll
  <2>3. IsFiniteSet(DOMAIN rooms') BY <1>1, <2>2, RoomsFinite
  <2>4. QED BY <1>1, <1>3, <1>5, <2>1, <2>3 DEF Known
<1>7. InPlace' /\ KeysKnown'
  <2>1. \A o \in Registered(groups') : o \in Registered(groups) /\ groups'.devices[o] = groups.devices[o]
    BY <1>4, <1>5 DEF Registered
  <2>2. QED BY <1>1, <1>3, <2>1 DEF InPlace, KeysKnown
<1>8. Traces' BY <1>1, <1>3, <1>4 DEF Traces, Traced
<1>9. PICK newest \in Newest : Deliver(link, DepartOut(groups, rooms, d, newest)) BY DEF Depart
<1> DEFINE vis == VisiblePeers(groups, d, newest)
           out == DepartOut(groups, rooms, d, newest)
<1>10. Departs(out, d, vis) BY <1>1, DepartOutDeparts DEF Known
<1>11. /\ vis \subseteq Listed(groups, d)
       /\ Listed(groups, d) \subseteq Registered(groups) \ {d}
       /\ \A o \in Listed(groups, d) : (\A x \in Registered(groups) \ {o} : ~Alike(x, o)) => o \in vis
       /\ \A o \in Devices \ {d} : Meet(groups, d, o) => o \in Listed(groups, d)
  BY <1>1, Visible
<1>12. vis \in SUBSET Devices BY <1>11 DEF Registered
<1> HIDE DEF vis, out
<1>13. \A p \in Devices :
         LET w == HandleAll(view[p], p, out) IN
         /\ w \in Views
         /\ p \in vis \/ d \notin DOMAIN view[p].nearby => d \notin DOMAIN w.nearby
         /\ \A o \in Devices \ {d} : o \in DOMAIN w.nearby <=> o \in DOMAIN view[p].nearby
  BY <1>1, <1>10, <1>12, DepartureHeard DEF Watching
<1>14. Deliver(link, out) BY <1>9 DEF out
<1>15. Watching' BY <1>1, <1>13, <1>14 DEF Deliver, Heard, Watching
<1>16. \A o \in Devices : missed'[o] = missed[o] BY <1>10, <1>14, NoList DEF Deliver
<1>17. Attached'
  <2>1. conns[d] = NoConn BY <1>1, <1>3 DEF PresenceInv, GraceAlone
  <2>2. ~(SameConn(conns[d], link[d]) /\ Online(d))
    <3>1. link[d] \in Links BY <1>1 DEF PlacesTyped
    <3>2. QED BY <2>1, <3>1, Transports DEF Online, SameConn, Links
  <2>3. \A o \in Devices \ {d} : o \in Registered(groups) => o \in Registered(groups') BY <1>4 DEF Registered
  <2>4. QED BY <1>1, <1>3, <1>16, <2>2, <2>3 DEF Attached, Online, Unique
<1>18. Meeting'
  <2>1. SUFFICES ASSUME NEW p \in Devices, NEW o \in Devices, p # o, Plain(p), Plain(o), Unique(p), Unique(o),
                        p \in Registered(groups'), Reaches(conns', link', p), ~missed'[p]
                 PROVE  /\ ~missed'[o] /\ Meet(groups', p, o) => o \in DOMAIN view'[p].nearby
                        /\ ~Traced(p) /\ Settled(o) /\ o \in DOMAIN view'[p].nearby => Meet(groups', p, o)
    BY <1>3 DEF Meeting, Plain, Hears, Unique, Traced, Settled, Overlap, Meet
  <2>2. p # d /\ Hears(p) BY <1>3, <1>5, <1>16, <2>1 DEF Hears
  <2>3. view'[p] = HandleAll(view[p], p, out)
    <3>1. link' = link BY <1>3
    <3>2. Reaches(conns', link, p) BY <2>1, <3>1
    <3>3. QED BY <1>14, <2>1, <3>2 DEF Deliver, Heard
  <2>4. /\ ~missed'[o] /\ Meet(groups, p, o) => o \in DOMAIN view[p].nearby
        /\ ~Traced(p) /\ Settled(o) /\ o \in DOMAIN view[p].nearby => Meet(groups, p, o)
    BY <1>1, <1>16, <2>1, <2>2 DEF Meeting, Overlap, Meet
  <2>5. CASE o # d
    <3>1. Meet(groups', p, o) <=> Meet(groups, p, o) BY <1>4, <2>1, <2>2, <2>5 DEF Meet
    <3>2. QED BY <1>13, <2>1, <2>3, <2>4, <2>5, <3>1
  <2>6. CASE o = d
    <3>1. ~Meet(groups', p, o) BY <1>4, <2>6, Nobody DEF Meet
    <3>2. ASSUME ~Traced(p), Settled(o), o \in DOMAIN view'[p].nearby PROVE FALSE
      <4>1. o \in DOMAIN view[p].nearby /\ p \notin vis BY <1>13, <2>3, <2>6, <3>2
      <4>2. Meet(groups, d, p) BY <2>4, <2>6, <3>2, <4>1 DEF Meet
      <4>3. p \in Listed(groups, d) BY <1>11, <2>2, <4>2
      <4>4. \A x \in Registered(groups) \ {p} : ~Alike(x, p) BY <1>1, <2>1, Unlike DEF Known
      <4>5. QED BY <1>11, <4>1, <4>3, <4>4
    <3>3. QED BY <3>1, <3>2
  <2>7. QED BY <2>5, <2>6
<1>19. QED BY <1>2, <1>6, <1>7, <1>8, <1>15, <1>18, <1>17 DEF MeetInv

-----------------------------------------------------------------------------
\* At first no page lists anyone; every action keeps the invariant.
LEMMA MeetStarts == Init => MeetInv
<1>1. SUFFICES ASSUME Init PROVE MeetInv OBVIOUS
<1>2. PresenceInv BY <1>1, PresenceStarts
<1>3. Home \in [Devices -> DOMAIN Places] BY PresenceAssumption DEF PresenceAssumption
<1>4. Registered(groups) = {} /\ groups.keyToDevices = {} BY <1>1 DEF Init, NoGroups, Registered
<1>5. DOMAIN rooms = {}
  <2>1. rooms = <<>> BY <1>1 DEF Init
  <2>2. QED BY <2>1, EmptyList
<1>6. Known BY <1>4, <1>5, FS_EmptySet DEF Known
<1>7. Watching
  <2> DEFINE none == <<>>
             v == [nearby |-> none, room |-> NoRoom, mates |-> none]
  <2>1. none \in Lists BY EmptyList
  <2>2. Lonely = v BY DEF Lonely
  <2> HIDE DEF none
  <2>3. v \in Views BY <2>1 DEF Views
  <2> HIDE DEF v
  <2>4. QED BY <1>1, <2>2, <2>3 DEF Init, Watching
<1>8. \A d \in Devices : link[d] = NoConn /\ open[d] = {} /\ place[d] = Home[d] /\ d \notin Registered(groups)
  BY <1>1, <1>4 DEF Init
<1>9. Attached /\ InPlace BY <1>8 DEF Attached, InPlace, Online
<1>10. KeysKnown BY <1>1, <1>8 DEF KeysKnown, Init
<1>11. Traces BY <1>4 DEF Traces, Exact
<1>12. Meeting BY <1>8 DEF Meeting, Hears
<1>13. QED BY <1>2, <1>6, <1>7, <1>9, <1>10, <1>11, <1>12 DEF MeetInv

LEMMA MeetSteps == MeetInv /\ Missing /\ [Next]_vars => MeetInv'
<1>1. SUFFICES ASSUME MeetInv, Missing, [Next]_vars PROVE MeetInv' OBVIOUS
<1>2. CASE UNCHANGED vars
  <2>1. PresenceInv' /\ UNCHANGED vars BY <1>1, <1>2, PresenceSteps DEF MeetInv
  <2>2. SameSessions /\ Watching' /\ IsFiniteSet(DOMAIN rooms')
    BY <1>1, <1>2 DEF MeetInv, SameSessions, Exact, Watching, Known, vars
  <2>3. QED BY <1>1, <2>1, <2>2, CalmKeeps DEF MeetInv, Attached, Online, vars
<1>3. CASE Next
  <2>1. ASSUME NEW d \in Devices, NEW transport \in {"ws", "sse", "poll"}, Connect(d, transport) PROVE MeetInv'
    BY <1>1, <2>1, ConnectMeets
  <2>2. ASSUME NEW d \in Devices, Reprobe(d) \/ Ping(d) \/ Rescan(d) PROVE MeetInv'
    BY <1>1, <2>2, ReprobeMeets, PingMeets, RescanMeets
  <2>3. ASSUME NEW d \in Devices, NEW code \in Codes, StartRoom(d, code) \/ EnterRoom(d, code) PROVE MeetInv'
    BY <1>1, <2>3, RoomMessagesMeet
  <2>4. ASSUME PruneRooms \/ \E code \in Codes : AgeRoom(code) PROVE MeetInv'
    BY <1>1, <2>4, ExpiryMeets
  <2>5. ASSUME NEW d \in Devices, NEW p \in DOMAIN Places, Move(d, p) PROVE MeetInv'
    BY <1>1, <2>5, MoveMeets
  <2>6. ASSUME NEW d \in Devices, NEW c \in open[d], Close(d, c) PROVE MeetInv'
    BY <1>1, <2>6, CloseMeets
  <2>7. ASSUME NEW d \in Devices, ExitRoom(d) \/ Drop(d) \/ Depart(d) \/ GrowStale(d) \/ LaneTraffic(d)
        PROVE  MeetInv'
    BY <1>1, <2>7, ExitRoomMeets, DropMeets, DepartMeets, SilenceMeets
  <2>8. ASSUME NEW d \in Devices, NEW c \in open[d] \cup {Poll(place[d])}, LatePing(d, c) PROVE MeetInv'
    BY <1>1, <2>8, LatePingMeets
  <2>9. ASSUME NEW d \in Devices, LongPoll(d) \/ LatePoll(d) PROVE MeetInv' BY <1>1, <2>9, PollsMeet
  <2>10. QED BY <1>3, <2>1, <2>2, <2>3, <2>4, <2>5, <2>6, <2>7, <2>8, <2>9 DEF Next
<1>4. QED BY <1>1, <1>2, <1>3

LEMMA MeetAlways == Spec => []MeetInv
  BY MeetStarts, MeetSteps, MissingAlways, PTL DEF Spec

\* Two devices with a network key in common list each other, if both look like no other
\* and neither missed the last list it was sent (a page that begins to poll over a dead
\* connection does), whatever connections, polls, probes, moves, stray messages and grace
\* periods went before: of any number of devices.
THEOREM NeighboursMeetAlways == Spec => []NeighboursMeet
<1>1. ASSUME MeetInv PROVE NeighboursMeet
  <2>1. \A p \in Pairs : p[1] \in Devices /\ p[2] \in Devices /\ p[1] # p[2]
    BY PresenceAssumption DEF PresenceAssumption
  <2>2. QED BY <1>1, <2>1 DEF NeighboursMeet, MeetInv, Meeting
<1>2. QED BY <1>1, MeetAlways, PTL

\* A page that has not missed its last list lists no device that has left or shares no
\* network with it, but for those that have changed their networks.
THEOREM NoGhostsAlways == Spec => []NoGhosts
<1>1. ASSUME MeetInv PROVE NoGhosts
  <2>1. \A p \in Pairs : p[1] \in Devices /\ p[2] \in Devices /\ p[1] # p[2]
    BY PresenceAssumption DEF PresenceAssumption
  <2>2. \A p \in Pairs : Overlap(p[1], p[2]) => p[2] \in Registered(groups)
    BY <2>1, Nobody DEF Overlap, Registered
  <2>3. QED BY <1>1, <2>1, <2>2 DEF NoGhosts, MeetInv, Meeting
<1>2. QED BY <1>1, MeetAlways, PTL
=============================================================================
