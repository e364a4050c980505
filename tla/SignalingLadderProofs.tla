----------------------- MODULE SignalingLadderProofs -----------------------
(***************************************************************************)
(* Proofs about SignalingLadder: a client that was not destroyed is never  *)
(* left without an attempt, a timer or a heartbeat, for any number of      *)
(* sockets, any network and events and timers in any order.                *)
(***************************************************************************)
EXTENDS SignalingLadder, TLAPS

SockType ==
  [kind : {"none", "ws", "upgrade", "sse"}, phase : {"gone", "opening", "open", "closing"},
   settled : BOOLEAN]

ClientType ==
  [rung : Transports, state : {"disconnected", "connecting", "connected"},
   ws : Sockets \cup {0}, sse : Sockets \cup {0}, socks : [Sockets -> SockType],
   tries : Nat, retries : Nat, reconnect : BOOLEAN, heartbeat : BOOLEAN, reattempt : BOOLEAN,
   misses : Nat, pinged : BOOLEAN, destroyed : BOOLEAN, fetching : Nat, sleeping : Nat]

\* The fields have their types, and streams have no close event.
Good(c) ==
  /\ c \in ClientType
  /\ \A i \in Sockets : c.socks[i].phase = "closing" => c.socks[i].kind # "sse"

\* NeverStranded, for any value of the client's fields
AwaitedIn(c, i) ==
  c.socks[i].kind # "upgrade" /\ c.socks[i].phase \in {"opening", "closing"} /\ ~c.socks[i].settled

Stands(c) ==
  \/ c.destroyed
  \/ c.reconnect \/ c.retries > 0
  \/ \E i \in Sockets : AwaitedIn(c, i)
  \/ c.state = "connected" /\ c.heartbeat

LadderInv == Good(client) /\ Stands(client)

\* A socket that is in use, and whose attempt is over, stays so in d.
KeepsSettled(c, d) ==
  \A i \in Sockets :
    c.socks[i].settled /\ c.socks[i].kind # "sse" /\ c.socks[i].phase # "gone" =>
      d.socks[i].settled /\ d.socks[i].kind # "sse" /\ d.socks[i].phase # "gone"

\* Everything but the sockets is the same in d.
SameButSocks(c, d) ==
  /\ d.rung = c.rung /\ d.state = c.state /\ d.ws = c.ws /\ d.sse = c.sse /\ d.tries = c.tries
  /\ d.retries = c.retries /\ d.reconnect = c.reconnect /\ d.heartbeat = c.heartbeat
  /\ d.reattempt = c.reattempt /\ d.misses = c.misses /\ d.pinged = c.pinged
  /\ d.destroyed = c.destroyed /\ d.fetching = c.fetching /\ d.sleeping = c.sleeping

-----------------------------------------------------------------------------
LEMMA SockTypes == Gone \in SockType /\ \A kind \in {"ws", "sse", "upgrade"} : Opening(kind) \in SockType
<1>1. Gone \in SockType BY DEF Gone, SockType
<1>2. ASSUME NEW kind \in {"ws", "sse", "upgrade"} PROVE Opening(kind) \in SockType
  <2>1. CASE kind = "upgrade" BY <2>1 DEF Opening, SockType
  <2>2. CASE kind # "upgrade"
    <3>1. Opening(kind) = [kind |-> kind, phase |-> "opening", settled |-> FALSE] BY <2>2 DEF Opening
    <3>2. QED BY <2>2, <3>1 DEF SockType
  <2>3. QED BY <2>1, <2>2
<1>3. QED BY <1>1, <1>2

\* A change of one socket
LEMMA SocketSet ==
  ASSUME NEW c, Good(c), NEW i \in Sockets, NEW s \in SockType, s.phase = "closing" => s.kind # "sse"
  PROVE  /\ Good([c EXCEPT !.socks[i] = s])
         /\ SameButSocks(c, [c EXCEPT !.socks[i] = s])
         /\ \A j \in Sockets : [c EXCEPT !.socks[i] = s].socks[j] = IF j = i THEN s ELSE c.socks[j]
<1> DEFINE socks == [c.socks EXCEPT ![i] = s]
<1>1. c \in ClientType /\ c.socks \in [Sockets -> SockType] BY DEF Good, ClientType
<1>2. socks \in [Sockets -> SockType] /\ \A j \in Sockets : socks[j] = IF j = i THEN s ELSE c.socks[j]
  BY <1>1
<1>3. [c EXCEPT !.socks[i] = s] = [c EXCEPT !.socks = socks] BY <1>1 DEF ClientType
<1> HIDE DEF socks
<1>4. [c EXCEPT !.socks = socks] \in ClientType /\ [c EXCEPT !.socks = socks].socks = socks
      /\ SameButSocks(c, [c EXCEPT !.socks = socks])
  BY <1>1, <1>2 DEF ClientType, SameButSocks
<1>5. QED BY <1>2, <1>3, <1>4 DEF Good

LEMMA ShutKeeps ==
  ASSUME NEW c, Good(c), NEW i \in Sockets \cup {0}
  PROVE  Good(Shut(c, i)) /\ SameButSocks(c, Shut(c, i)) /\ KeepsSettled(c, Shut(c, i))
<1>1. CASE i = 0 BY <1>1 DEF Shut, SameButSocks, KeepsSettled
<1>2. CASE i # 0
  <2>1. i \in Sockets BY <1>2
  <2>2. c.socks[i] \in SockType /\ c.socks \in [Sockets -> SockType] /\ c \in ClientType
    BY <2>1 DEF Good, ClientType
  <2> DEFINE s == IF c.socks[i].kind = "sse" THEN Gone
                  ELSE IF c.socks[i].phase = "gone" THEN Gone
                  ELSE [c.socks[i] EXCEPT !.phase = "closing"]
  <2>3. Shut(c, i) = [c EXCEPT !.socks[i] = s] BY <1>2, <2>2 DEF Shut, ClientType
  <2>4. /\ s \in SockType /\ (s.phase = "closing" => s.kind # "sse")
        /\ c.socks[i].settled /\ c.socks[i].kind # "sse" /\ c.socks[i].phase # "gone" =>
             s.settled /\ s.kind # "sse" /\ s.phase # "gone"
    <3>1. CASE c.socks[i].kind = "sse" \/ c.socks[i].phase = "gone"
      BY <3>1, SockTypes DEF Gone
    <3>2. CASE c.socks[i].kind # "sse" /\ c.socks[i].phase # "gone"
      BY <2>2, <3>2 DEF SockType
    <3>3. QED BY <3>1, <3>2
  <2> HIDE DEF s
  <2>5. QED BY <2>1, <2>3, <2>4, SocketSet DEF KeepsSettled
<1>3. QED BY <1>1, <1>2

LEMMA CleanupKeeps ==
  ASSUME NEW c, Good(c)
  PROVE  LET d == CleanupTransports(c) IN
         /\ Good(d) /\ KeepsSettled(c, d)
         /\ d.rung = c.rung /\ d.state = c.state /\ d.tries = c.tries /\ d.retries = c.retries
         /\ d.reconnect = c.reconnect /\ d.destroyed = c.destroyed
<1> DEFINE a == Shut(c, c.ws)
           b == Shut(a, c.sse)
           d == CleanupTransports(c)
<1>1. c.ws \in Sockets \cup {0} /\ c.sse \in Sockets \cup {0} BY DEF Good, ClientType
<1>2. Good(a) /\ SameButSocks(c, a) /\ KeepsSettled(c, a) BY <1>1, ShutKeeps
<1> HIDE DEF a
<1>3. Good(b) /\ SameButSocks(a, b) /\ KeepsSettled(a, b) BY <1>1, <1>2, ShutKeeps
<1>4. d = [b EXCEPT !.ws = 0, !.sse = 0, !.heartbeat = FALSE, !.pinged = FALSE, !.fetching = 0]
  BY DEF CleanupTransports, a
<1> HIDE DEF b, d
<1>5. /\ d \in ClientType /\ d.socks = b.socks /\ d.rung = b.rung /\ d.state = b.state
      /\ d.tries = b.tries /\ d.retries = b.retries /\ d.reconnect = b.reconnect
      /\ d.destroyed = b.destroyed
  BY <1>3, <1>4 DEF Good, ClientType
<1>6. Good(d) /\ KeepsSettled(c, d) BY <1>2, <1>3, <1>5 DEF Good, KeepsSettled
<1>7. QED BY <1>2, <1>3, <1>5, <1>6 DEF SameButSocks, d

LEMMA ReconnectStands ==
  ASSUME NEW c, Good(c)
  PROVE  /\ Good(ScheduleReconnect(c)) /\ Stands(ScheduleReconnect(c))
         /\ ScheduleReconnect(c).socks = c.socks
<1>1. (c.reconnect \/ ~c.destroyed) \in BOOLEAN OBVIOUS
<1>2. PICK reconnect \in BOOLEAN : reconnect <=> (c.reconnect \/ ~c.destroyed) BY <1>1
<1>3. c \in ClientType /\ c.reconnect \in BOOLEAN /\ c.destroyed \in BOOLEAN BY DEF Good, ClientType
<1>4. ScheduleReconnect(c) = [c EXCEPT !.reconnect = reconnect] BY <1>2, <1>3 DEF ScheduleReconnect, ClientType
<1>5. /\ [c EXCEPT !.reconnect = reconnect] \in ClientType
      /\ [c EXCEPT !.reconnect = reconnect].reconnect = reconnect
      /\ [c EXCEPT !.reconnect = reconnect].destroyed = c.destroyed
      /\ [c EXCEPT !.reconnect = reconnect].socks = c.socks
  BY <1>2, <1>3 DEF ClientType
<1>6. QED BY <1>2, <1>3, <1>4, <1>5 DEF Good, Stands

LEMMA LostStands ==
  ASSUME NEW c, Good(c)
  PROVE  Good(OnConnectionLost(c)) /\ Stands(OnConnectionLost(c))
<1>1. Good([c EXCEPT !.state = "disconnected"]) BY DEF Good, ClientType
<1>2. Good(CleanupTransports([c EXCEPT !.state = "disconnected"])) BY <1>1, CleanupKeeps
<1>3. QED BY <1>2, ReconnectStands DEF OnConnectionLost

LEMMA ConnectedStands ==
  ASSUME NEW c, Good(c), NEW rung \in Transports
  PROVE  /\ Good(OnConnected(c, rung)) /\ Stands(OnConnected(c, rung))
         /\ OnConnected(c, rung).socks = c.socks
<1>1. /\ OnConnected(c, rung) \in ClientType
      /\ OnConnected(c, rung).socks = c.socks
      /\ OnConnected(c, rung).state = "connected" /\ OnConnected(c, rung).heartbeat = TRUE
  BY DEF Good, ClientType, OnConnected
<1>2. QED BY <1>1 DEF Good, Stands

-----------------------------------------------------------------------------
LEMMA DialsStand ==
  ASSUME NEW c, Good(c), NEW d \in Dials(c)
  PROVE  Good(d) /\ Stands(d) /\ KeepsSettled(c, d)
<1>0. c \in ClientType BY DEF Good
<1>1. CASE c.destroyed BY <1>1 DEF Dials, Stands, KeepsSettled
<1>2. ASSUME NEW i \in Free(c), NEW kind \in {"ws", "sse"}, NEW e, e.socks = Attempt(c, kind, i).socks,
             e \in {[Attempt(c, kind, i) EXCEPT !.state = "connecting", !.ws = i],
                    [Attempt(c, kind, i) EXCEPT !.state = "connecting", !.sse = i]}
      PROVE  Good(e) /\ Stands(e) /\ KeepsSettled(c, e)
  <2> DEFINE a == Attempt(c, kind, i)
  <2>1. i \in Sockets /\ c.socks[i] = Gone BY DEF Free
  <2>2. Opening(kind) \in SockType /\ Opening(kind).phase = "opening" /\ Opening(kind).kind = kind
        /\ Opening(kind).settled = FALSE
    BY SockTypes DEF Opening
  <2>3. Good(a) /\ \A j \in Sockets : a.socks[j] = IF j = i THEN Opening(kind) ELSE c.socks[j]
    BY <2>1, <2>2, SocketSet DEF Attempt
  <2> HIDE DEF a
  <2>4. e \in ClientType BY <1>2, <2>1, <2>3 DEF Good, ClientType, a
  <2>5. Good(e) BY <1>2, <2>3, <2>4 DEF Good, a
  <2>6. AwaitedIn(e, i) BY <1>2, <2>1, <2>2, <2>3 DEF AwaitedIn, a
  <2>7. KeepsSettled(c, e) BY <1>2, <2>1, <2>3 DEF KeepsSettled, Gone, a
  <2>8. QED BY <2>1, <2>5, <2>6, <2>7 DEF Stands
<1>3. CASE ~c.destroyed /\ c.rung = "ws"
  <2>1. PICK i \in Free(c) : d = [Attempt(c, "ws", i) EXCEPT !.state = "connecting", !.ws = i]
    BY <1>3 DEF Dials
  <2>2. d.socks = Attempt(c, "ws", i).socks BY <1>0, <2>1 DEF Attempt, ClientType
  <2>3. QED BY <1>2, <2>1, <2>2
<1>4. CASE ~c.destroyed /\ c.rung = "sse"
  <2>1. PICK i \in Free(c) : d = [Attempt(c, "sse", i) EXCEPT !.state = "connecting", !.sse = i]
    BY <1>4 DEF Dials
  <2>2. d.socks = Attempt(c, "sse", i).socks BY <1>0, <2>1 DEF Attempt, ClientType
  <2>3. QED BY <1>2, <2>1, <2>2
<1>5. CASE ~c.destroyed /\ c.rung = "poll"
  <2> DEFINE e == OnConnected(c, "poll")
  <2>1. d = [e EXCEPT !.fetching = @ + 1] BY <1>5 DEF Dials
  <2>2. Good(e) /\ e.socks = c.socks BY ConnectedStands DEF Transports
  <2>3. e.state = "connected" /\ e.heartbeat = TRUE BY <1>0 DEF OnConnected, ClientType
  <2> HIDE DEF e
  <2>4. d \in ClientType /\ d.socks = e.socks /\ d.state = e.state /\ d.heartbeat = e.heartbeat
    BY <2>1, <2>2 DEF Good, ClientType
  <2>5. QED BY <2>2, <2>3, <2>4 DEF Good, Stands, KeepsSettled
<1>6. QED BY <1>0, <1>1, <1>3, <1>4, <1>5 DEF ClientType, Transports

LEMMA FailureStands ==
  ASSUME NEW c, Good(c), NEW d \in RungFailures(c)
  PROVE  Good(d) /\ Stands(d) /\ KeepsSettled(c, d)
<1> DEFINE idle == CleanupTransports(c)
<1>1. Good(idle) /\ KeepsSettled(c, idle) BY CleanupKeeps
<1>2. c.rung \in Transports BY DEF Good, ClientType
<1>3. ASSUME NEW e, Good(e), e.socks = idle.socks, d \in Dials(e)
      PROVE  Good(d) /\ Stands(d) /\ KeepsSettled(c, d)
  <2>1. Good(d) /\ Stands(d) /\ KeepsSettled(e, d) BY <1>3, DialsStand
  <2>2. QED BY <1>1, <1>3, <2>1 DEF KeepsSettled
<1>4. CASE c.rung = "ws" /\ c.tries = 0
  <2>1. d = [idle EXCEPT !.tries = 1, !.retries = @ + 1] BY <1>4 DEF RungFailures
  <2> HIDE DEF idle
  <2>2. idle \in ClientType /\ idle.retries \in Nat BY <1>1 DEF Good, ClientType
  <2> DEFINE more == idle.retries + 1
  <2>3. d = [idle EXCEPT !.tries = 1, !.retries = more] BY <2>1, <2>2 DEF ClientType
  <2>4. more \in Nat /\ more > 0 /\ 1 \in Nat BY <2>2
  <2> HIDE DEF more
  <2>5. d \in ClientType /\ d.socks = idle.socks /\ d.retries = more
    BY <2>2, <2>3, <2>4 DEF ClientType
  <2>6. QED BY <1>1, <2>4, <2>5 DEF Good, Stands, KeepsSettled
<1>5. CASE c.rung = "ws" /\ c.tries # 0
  <2> DEFINE e == [idle EXCEPT !.tries = 0, !.rung = "sse"]
  <2>1. d \in Dials(e) BY <1>5 DEF RungFailures
  <2> HIDE DEF idle
  <2>2. e \in ClientType /\ e.socks = idle.socks BY <1>1 DEF Good, ClientType, Transports
  <2>3. QED BY <1>1, <1>3, <2>1, <2>2 DEF Good
<1>6. CASE c.rung = "sse"
  <2> DEFINE e == [idle EXCEPT !.rung = "poll"]
  <2>1. d \in Dials(e) BY <1>6 DEF RungFailures
  <2> HIDE DEF idle
  <2>2. e \in ClientType /\ e.socks = idle.socks BY <1>1 DEF Good, ClientType, Transports
  <2>3. QED BY <1>1, <1>3, <2>1, <2>2 DEF Good
<1>7. CASE c.rung = "poll"
  <2> DEFINE e == [idle EXCEPT !.rung = "ws"]
  <2>1. d = ScheduleReconnect(e) BY <1>7 DEF RungFailures
  <2> HIDE DEF idle
  <2>2. e \in ClientType /\ e.socks = idle.socks BY <1>1 DEF Good, ClientType, Transports
  <2>3. Good(e) BY <1>1, <2>2 DEF Good
  <2> HIDE DEF e
  <2>4. QED BY <1>1, <2>1, <2>2, <2>3, ReconnectStands DEF KeepsSettled
<1>8. QED BY <1>2, <1>4, <1>5, <1>6, <1>7 DEF Transports

\* The attempt of i is over.
LEMMA SettledGood ==
  ASSUME NEW c, Good(c), NEW i \in Sockets
  PROVE  LET d == [c EXCEPT !.socks[i].settled = TRUE] IN
         /\ Good(d) /\ SameButSocks(c, d)
         /\ d.socks[i].settled /\ d.socks[i].kind = c.socks[i].kind /\ d.socks[i].phase = c.socks[i].phase
         /\ \A j \in Sockets \ {i} : d.socks[j] = c.socks[j]
<1> DEFINE s == [c.socks[i] EXCEPT !.settled = TRUE]
<1>1. c \in ClientType /\ c.socks \in [Sockets -> SockType] /\ c.socks[i] \in SockType
  BY DEF Good, ClientType
<1>2. [c EXCEPT !.socks[i].settled = TRUE] = [c EXCEPT !.socks[i] = s] BY <1>1 DEF ClientType, SockType
<1>3. s \in SockType /\ s.kind = c.socks[i].kind /\ s.phase = c.socks[i].phase /\ s.settled = TRUE
  BY <1>1 DEF SockType
<1>4. s.phase = "closing" => s.kind # "sse" BY <1>3 DEF Good
<1> HIDE DEF s
<1>5. QED BY <1>2, <1>3, <1>4, SocketSet

LEMMA RejectionStands ==
  ASSUME NEW c, Good(c), Stands(c), NEW i \in Sockets, NEW d \in Rejections(c, i),
         c.socks[i].kind # "sse", c.socks[i].phase # "gone"
  PROVE  Good(d) /\ Stands(d) /\ d.socks[i].settled
<1>1. CASE c.socks[i].settled BY <1>1 DEF Rejections
<1>2. CASE ~c.socks[i].settled
  <2> DEFINE e == [c EXCEPT !.socks[i].settled = TRUE]
  <2>1. d \in RungFailures(e) BY <1>2 DEF Rejections
  <2>2. Good(e) /\ e.socks[i].settled /\ e.socks[i].kind # "sse" /\ e.socks[i].phase # "gone"
    BY SettledGood
  <2> HIDE DEF e
  <2>3. QED BY <2>1, <2>2, FailureStands DEF KeepsSettled
<1>3. QED BY <1>1, <1>2

LEMMA ClosedStands ==
  ASSUME NEW c, Good(c), Stands(c), NEW i \in Sockets, c.socks[i].settled
  PROVE  Good(Closed(c, i)) /\ Stands(Closed(c, i))
<1> DEFINE gone == [c EXCEPT !.socks[i] = Gone]
           ws == IF c.ws = i THEN 0 ELSE c.ws
           rid == [gone EXCEPT !.ws = ws]
<1>1. /\ Good(gone) /\ SameButSocks(c, gone)
      /\ \A j \in Sockets : gone.socks[j] = IF j = i THEN Gone ELSE c.socks[j]
  BY SocketSet, SockTypes DEF Gone
<1>2. c \in ClientType /\ ws \in Sockets \cup {0} BY DEF Good, ClientType
<1>3. [c EXCEPT !.socks[i] = Gone, !.ws = IF @ = i THEN 0 ELSE @] = rid BY <1>2 DEF ClientType
<1> HIDE DEF gone, ws
<1>4. /\ rid \in ClientType /\ rid.socks = gone.socks /\ rid.destroyed = gone.destroyed
      /\ rid.reconnect = gone.reconnect /\ rid.retries = gone.retries /\ rid.state = gone.state
      /\ rid.heartbeat = gone.heartbeat
  BY <1>1, <1>2 DEF Good, ClientType
<1> HIDE DEF rid
<1>5. Good(rid) BY <1>1, <1>4 DEF Good
<1>6. ASSUME NEW j \in Sockets, AwaitedIn(c, j) PROVE AwaitedIn(rid, j)
  BY <1>1, <1>4, <1>6 DEF AwaitedIn
<1>7. Stands(rid) BY <1>1, <1>4, <1>6 DEF Stands, SameButSocks
<1>8. Closed(c, i) \in {rid, OnConnectionLost(rid)} BY <1>3 DEF Closed
<1>9. QED BY <1>5, <1>7, <1>8, LostStands

-----------------------------------------------------------------------------
\* NeverStranded is Stands of the client's fields.
LEMMA StrandedIsNot == NeverStranded <=> Stands(client)
  BY DEF NeverStranded, Awaited, Sock, Stands, AwaitedIn

\* What a socket event makes of one socket; the rest of the client stays.
LEMMA SocketMoves ==
  ASSUME LadderInv, NEW i \in Sockets, NEW s \in SockType, s.phase # "closing",
         ~AwaitedIn(client, i)
  PROVE  LET d == [client EXCEPT !.socks[i] = s] IN Good(d) /\ Stands(d)
<1> DEFINE d == [client EXCEPT !.socks[i] = s]
<1>1. /\ Good(d) /\ SameButSocks(client, d)
      /\ \A j \in Sockets : d.socks[j] = IF j = i THEN s ELSE client.socks[j]
  BY SocketSet DEF LadderInv
<1> HIDE DEF d
<1>2. ASSUME NEW j \in Sockets, AwaitedIn(client, j) PROVE AwaitedIn(d, j)
  BY <1>1, <1>2 DEF AwaitedIn
<1>3. Stands(d) BY <1>1, <1>2 DEF LadderInv, Stands, SameButSocks
<1>4. QED BY <1>1, <1>3 DEF d

LEMMA FieldTypes ==
  ASSUME LadderInv
  PROVE  /\ client \in ClientType /\ client.socks \in [Sockets -> SockType]
         /\ client.ws \in Sockets \cup {0} /\ client.sse \in Sockets \cup {0}
         /\ client.rung \in Transports
  BY DEF LadderInv, Good, ClientType

\* One lemma for each action that moves the client
LEMMA OpensStands ==
  ASSUME LadderInv, NEW i \in Sockets, Opens(i)
  PROVE  LadderInv'
<1> DEFINE s == [client.socks[i] EXCEPT !.phase = "open"]
           t == [s EXCEPT !.settled = TRUE]
           opened == [client EXCEPT !.socks[i] = t]
<1>1. client \in ClientType /\ client.socks \in [Sockets -> SockType] /\ client.socks[i] \in SockType
  BY FieldTypes
<1>2. [client EXCEPT !.socks[i].phase = "open", !.socks[i].settled = TRUE] = opened
  BY <1>1 DEF ClientType, SockType
<1>3. t \in SockType /\ t.phase = "open" BY <1>1 DEF SockType
<1> HIDE DEF t
<1>4. Good(opened) BY <1>3, SocketSet DEF LadderInv
<1>5. CASE Sock(i).settled
  <2>1. ~AwaitedIn(client, i) BY <1>5 DEF AwaitedIn, Sock
  <2>2. client' = opened BY <1>2, <1>5 DEF Opens
  <2>3. QED BY <1>3, <2>1, <2>2, SocketMoves DEF LadderInv
<1>6. CASE ~Sock(i).settled /\ Sock(i).kind = "sse"
  <2>1. client' = OnConnected(opened, "sse") BY <1>2, <1>6 DEF Opens
  <2>2. QED BY <1>4, <2>1, ConnectedStands DEF LadderInv, Transports
<1>7. CASE ~Sock(i).settled /\ Sock(i).kind # "sse"
  <2>1. client' = OnConnected([opened EXCEPT !.tries = 0], "ws") BY <1>2, <1>7 DEF Opens
  <2> HIDE DEF opened
  <2>2. Good([opened EXCEPT !.tries = 0]) BY <1>4 DEF Good, ClientType
  <2>3. QED BY <2>1, <2>2, ConnectedStands DEF LadderInv, Transports
<1>8. QED BY <1>5, <1>6, <1>7

LEMMA UpgradedStands ==
  ASSUME LadderInv, NEW i \in Sockets, Upgraded(i)
  PROVE  LadderInv'
<1>1. client \in ClientType /\ client.socks \in [Sockets -> SockType] /\ client.socks[i] \in SockType
      /\ client.sse \in Sockets \cup {0}
  BY FieldTypes
<1>2. Sock(i).kind = "upgrade" BY DEF Upgraded
<1>3. CASE client.destroyed
  <2> DEFINE s == [client.socks[i] EXCEPT !.phase = "closing"]
             d == [client EXCEPT !.socks[i] = s]
  <2>1. client' = d BY <1>1, <1>3 DEF Upgraded, ClientType
  <2>2. s \in SockType /\ s.kind # "sse" BY <1>1, <1>2 DEF SockType, Sock
  <2> HIDE DEF s
  <2>3. Good(d) /\ SameButSocks(client, d) BY <2>2, SocketSet DEF LadderInv
  <2>4. QED BY <1>3, <2>1, <2>3 DEF LadderInv, Stands, SameButSocks
<1>4. CASE ~client.destroyed
  <2> DEFINE shut == Shut(client, client.sse)
             s == [shut.socks[i] EXCEPT !.phase = "open"]
             d == [shut EXCEPT !.socks[i] = s]
             e == [d EXCEPT !.sse = 0, !.fetching = 0, !.ws = i]
  <2>1. Good(shut) BY <1>1, ShutKeeps DEF LadderInv
  <2>2. client' = OnConnected([shut EXCEPT !.sse = 0, !.fetching = 0, !.ws = i,
                                           !.socks[i].phase = "open"], "ws")
    BY <1>4 DEF Upgraded
  <2> HIDE DEF shut
  <2>3. shut \in ClientType /\ shut.socks \in [Sockets -> SockType] /\ shut.socks[i] \in SockType
    BY <2>1 DEF Good, ClientType
  <2>4. [shut EXCEPT !.sse = 0, !.fetching = 0, !.ws = i, !.socks[i].phase = "open"] = e
    BY <2>3 DEF ClientType, SockType
  <2>5. s \in SockType /\ s.phase = "open" BY <2>3 DEF SockType
  <2> HIDE DEF s
  <2>6. Good(d) BY <2>1, <2>5, SocketSet
  <2> HIDE DEF d
  <2>7. Good(e) BY <2>6 DEF Good, ClientType
  <2>8. QED BY <2>2, <2>4, <2>7, ConnectedStands DEF LadderInv, Transports
<1>5. QED BY <1>3, <1>4

LEMMA FailuresStand ==
  ASSUME LadderInv, NEW i \in Sockets, Fails(i) \/ CloseEvent(i)
  PROVE  LadderInv'
<1>1. client.socks[i].kind # "sse" /\ client.socks[i].phase # "gone"
  BY DEF LadderInv, Good, Fails, CloseEvent, Sock
<1>2. PICK c \in Rejections(client, i) : client' = Closed(c, i) BY DEF Fails, CloseEvent
<1>3. QED BY <1>1, <1>2, RejectionStands, ClosedStands DEF LadderInv

LEMMA BreaksStands ==
  ASSUME LadderInv, NEW i \in Sockets, Breaks(i)
  PROVE  LadderInv'
<1> DEFINE d == [client EXCEPT !.socks[i].settled = TRUE]
<1>1. client' = Closed(d, i) BY DEF Breaks
<1>2. /\ Good(d) /\ SameButSocks(client, d) /\ d.socks[i].settled
      /\ \A j \in Sockets \ {i} : d.socks[j] = client.socks[j]
  BY SettledGood DEF LadderInv
<1> HIDE DEF d
<1>3. ~AwaitedIn(client, i) BY DEF Breaks, AwaitedIn, Sock
<1>4. ASSUME NEW j \in Sockets, AwaitedIn(client, j) PROVE AwaitedIn(d, j)
  BY <1>2, <1>3, <1>4 DEF AwaitedIn
<1>5. Stands(d) BY <1>2, <1>4 DEF LadderInv, Stands, SameButSocks
<1>6. QED BY <1>1, <1>2, <1>5, ClosedStands DEF LadderInv

LEMMA StreamFailsStands ==
  ASSUME LadderInv, NEW i \in Sockets, StreamFails(i)
  PROVE  LadderInv'
<1>1. CASE ~Sock(i).settled
  <2>1. client' \in Rejections(client, i) BY <1>1 DEF StreamFails
  <2> DEFINE e == [client EXCEPT !.socks[i].settled = TRUE]
  <2>2. client' \in RungFailures(e) BY <1>1, <2>1 DEF Rejections, Sock
  <2>3. Good(e) BY SettledGood DEF LadderInv
  <2> HIDE DEF e
  <2>4. QED BY <2>2, <2>3, FailureStands DEF LadderInv
<1>2. CASE Sock(i).settled
  <2> DEFINE s == [client.socks[i] EXCEPT !.phase = "opening"]
             off == [client EXCEPT !.socks[i] = s]
  <2>1. client \in ClientType /\ client.socks \in [Sockets -> SockType] /\ client.socks[i] \in SockType
    BY FieldTypes
  <2>2. client' \in {off, OnConnectionLost(off)} BY <1>2, <2>1 DEF StreamFails, ClientType
  <2>3. s \in SockType /\ s.phase = "opening" BY <2>1 DEF SockType
  <2> HIDE DEF s
  <2>4. ~AwaitedIn(client, i) BY <1>2 DEF AwaitedIn, Sock
  <2>5. Good(off) /\ Stands(off) BY <2>3, <2>4, SocketMoves
  <2> HIDE DEF off
  <2>6. QED BY <2>2, <2>5, LostStands DEF LadderInv
<1>3. QED BY <1>1, <1>2

LEMMA TimesOutStands ==
  ASSUME LadderInv, NEW i \in Sockets, TimesOut(i)
  PROVE  LadderInv'
<1> DEFINE d == [client EXCEPT !.socks[i].settled = TRUE]
           held == IF Sock(i).kind = "sse" THEN client.sse ELSE client.ws
<1>1. client' \in RungFailures(Shut(d, held)) BY DEF TimesOut
<1>2. Good(d) BY SettledGood DEF LadderInv
<1>3. held \in Sockets \cup {0} BY FieldTypes
<1> HIDE DEF d, held
<1>4. Good(Shut(d, held)) BY <1>2, <1>3, ShutKeeps
<1>5. QED BY <1>1, <1>4, FailureStands DEF LadderInv

LEMMA TimersStand ==
  ASSUME LadderInv, RetryFires \/ ReconnectFires
  PROVE  LadderInv'
<1>1. client \in ClientType BY FieldTypes
<1>2. CASE RetryFires
  <2> DEFINE c == [client EXCEPT !.retries = @ - 1]
  <2>1. client' \in Dials(c) BY <1>2 DEF RetryFires
  <2>2. client.retries - 1 \in Nat BY <1>1, <1>2 DEF RetryFires, ClientType
  <2>3. c \in ClientType /\ c.socks = client.socks BY <1>1, <2>2 DEF ClientType
  <2>4. Good(c) BY <2>3 DEF LadderInv, Good
  <2> HIDE DEF c
  <2>5. QED BY <2>1, <2>4, DialsStand DEF LadderInv
<1>3. CASE ReconnectFires
  <2> DEFINE c == [client EXCEPT !.reconnect = FALSE, !.rung = "ws"]
  <2>1. client' \in Dials(c) BY <1>3 DEF ReconnectFires
  <2>2. c \in ClientType /\ c.socks = client.socks BY <1>1 DEF ClientType, Transports
  <2>3. Good(c) BY <2>2 DEF LadderInv, Good
  <2> HIDE DEF c
  <2>4. QED BY <2>1, <2>3, DialsStand DEF LadderInv
<1>4. QED BY <1>2, <1>3

\* A step that leaves sockets and the fields of Stands alone
LEMMA RestStays ==
  ASSUME LadderInv, client' \in ClientType, client'.socks = client.socks,
         client'.destroyed = client.destroyed, client'.reconnect = client.reconnect,
         client'.retries = client.retries, client'.state = client.state,
         client'.heartbeat = client.heartbeat
  PROVE  LadderInv'
  BY DEF LadderInv, Good, Stands, AwaitedIn

LEMMA HeartbeatStands ==
  ASSUME LadderInv, Heartbeat
  PROVE  LadderInv'
<1> DEFINE missed == [client EXCEPT !.misses = @ + 1, !.pinged = TRUE]
<1>1. client \in ClientType BY FieldTypes
<1>2. client.misses + 1 \in Nat BY <1>1 DEF ClientType
<1>3. /\ missed \in ClientType /\ missed.socks = client.socks
      /\ missed.destroyed = client.destroyed /\ missed.reconnect = client.reconnect
      /\ missed.retries = client.retries /\ missed.state = client.state
      /\ missed.heartbeat = client.heartbeat
  BY <1>1, <1>2 DEF ClientType
<1>4. client' \in {missed, OnConnectionLost(missed)} BY DEF Heartbeat
<1> HIDE DEF missed
<1>5. Good(missed) BY <1>3 DEF LadderInv, Good
<1>6. CASE client' = missed BY <1>3, <1>6, RestStays
<1>7. CASE client' = OnConnectionLost(missed) BY <1>5, <1>7, LostStands DEF LadderInv
<1>8. QED BY <1>4, <1>6, <1>7

LEMMA PollsStand ==
  ASSUME LadderInv, Pong \/ PollFails \/ PollWakes \/ PollEnds
  PROVE  LadderInv'
<1>1. client \in ClientType /\ client.fetching \in Nat /\ client.sleeping \in Nat /\ client.misses \in Nat
  BY FieldTypes DEF ClientType
<1>2. CASE Pong
  <2>1. PICK misses \in Nat : client' = [client EXCEPT !.pinged = FALSE, !.misses = misses]
    BY <1>1, <1>2 DEF Pong, ClientType
  <2>2. QED BY <1>1, <2>1, RestStays DEF ClientType
<1>3. CASE PollFails \/ PollWakes \/ PollEnds
  <2>1. PICK fetching \in Nat, sleeping \in Nat :
          client' = [client EXCEPT !.fetching = fetching, !.sleeping = sleeping]
    <3>1. CASE PollFails
      <4>1. client.fetching - 1 \in Nat /\ client.sleeping + 1 \in Nat BY <1>1, <3>1 DEF PollFails
      <4>2. QED BY <1>1, <3>1, <4>1 DEF PollFails, ClientType
    <3>2. CASE PollWakes
      <4>1. client.sleeping - 1 \in Nat /\ client.fetching + 1 \in Nat BY <1>1, <3>2 DEF PollWakes
      <4> DEFINE fetching == IF Polls THEN client.fetching + 1 ELSE client.fetching
      <4>2. fetching \in Nat BY <1>1, <4>1
      <4>3. client' = [client EXCEPT !.fetching = fetching, !.sleeping = client.sleeping - 1]
        BY <1>1, <3>2 DEF PollWakes, ClientType
      <4>4. QED BY <4>1, <4>2, <4>3
    <3>3. CASE PollEnds
      <4>1. client.fetching - 1 \in Nat BY <1>1, <3>3 DEF PollEnds
      <4>2. client' = [client EXCEPT !.fetching = client.fetching - 1, !.sleeping = client.sleeping]
        BY <1>1, <3>3 DEF PollEnds, ClientType
      <4>3. QED BY <1>1, <4>1, <4>2
    <3>4. QED BY <1>3, <3>1, <3>2, <3>3
  <2>2. QED BY <1>1, <2>1, RestStays DEF ClientType
<1>4. QED BY <1>2, <1>3

LEMMA UpgradesStand ==
  ASSUME LadderInv, Reattempt \/ \E i \in Sockets : UpgradeFails(i)
  PROVE  LadderInv'
<1>1. CASE Reattempt
  <2>1. PICK i \in Free(client) : client' = [client EXCEPT !.socks[i] = Opening("upgrade")]
    BY <1>1 DEF Reattempt, Attempt
  <2>2. i \in Sockets /\ ~AwaitedIn(client, i) BY <2>1 DEF Free, AwaitedIn, Gone
  <2>3. Opening("upgrade") \in SockType /\ Opening("upgrade").phase = "opening"
    BY SockTypes DEF Opening
  <2>4. QED BY <2>1, <2>2, <2>3, SocketMoves DEF LadderInv
<1>2. CASE \E i \in Sockets : UpgradeFails(i)
  <2>1. PICK i \in Sockets : UpgradeFails(i) BY <1>2
  <2>2. client' = [client EXCEPT !.socks[i] = Gone] /\ ~AwaitedIn(client, i)
    BY <2>1 DEF UpgradeFails, AwaitedIn, Sock
  <2>3. QED BY <2>2, SockTypes, SocketMoves DEF LadderInv, Gone
<1>3. QED BY <1>1, <1>2

LEMMA DestroyStands ==
  ASSUME LadderInv, Destroy
  PROVE  LadderInv'
<1> DEFINE d == CleanupTransports(client)
<1>1. Good(d) BY CleanupKeeps DEF LadderInv
<1>2. client' = [d EXCEPT !.destroyed = TRUE, !.reconnect = FALSE, !.reattempt = FALSE,
                          !.state = "disconnected"]
  BY DEF Destroy
<1> HIDE DEF d
<1>3. client' \in ClientType /\ client'.socks = d.socks /\ client'.destroyed = TRUE
  BY <1>1, <1>2 DEF Good, ClientType
<1>4. QED BY <1>1, <1>3 DEF LadderInv, Good, Stands

-----------------------------------------------------------------------------
\* The client starts with an attempt.
LEMMA LadderStarts == LadderInit => LadderInv
<1>1. SUFFICES ASSUME LadderInit PROVE LadderInv OBVIOUS
<1> DEFINE socks == [i \in Sockets |-> IF i = 1 THEN Opening("ws") ELSE Gone]
<1>0. 1 \in Sockets BY LadderAssumption DEF LadderAssumption
<1>2. Opening("ws") \in SockType /\ Opening("ws").phase = "opening" /\ Opening("ws").kind = "ws"
      /\ Opening("ws").settled = FALSE
  BY SockTypes DEF Opening
<1>3. socks \in [Sockets -> SockType] BY <1>2, SockTypes
<1>4. /\ client \in ClientType /\ client.socks = socks
  <2> HIDE DEF socks
  <2>1. client = [rung |-> "ws", state |-> "connecting", ws |-> 1, sse |-> 0, socks |-> socks,
               tries |-> 0, retries |-> 0, reconnect |-> FALSE, heartbeat |-> FALSE,
               reattempt |-> FALSE, misses |-> 0, pinged |-> FALSE, destroyed |-> FALSE,
               fetching |-> 0, sleeping |-> 0]
    BY <1>1 DEF LadderInit, socks
  <2>2. QED BY <1>0, <1>3, <2>1 DEF ClientType, Transports
<1>5. \A i \in Sockets : socks[i].phase # "closing" BY <1>2 DEF Gone
<1>6. AwaitedIn(client, 1) BY <1>0, <1>2, <1>4 DEF AwaitedIn
<1>7. QED BY <1>0, <1>4, <1>5, <1>6 DEF LadderInv, Good, Stands

LEMMA LadderSteps == LadderInv /\ [LadderNext]_ladderVars => LadderInv'
<1>1. SUFFICES ASSUME LadderInv, [LadderNext]_ladderVars PROVE LadderInv' OBVIOUS
<1>2. ASSUME NEW i \in Sockets, SocketEvent(i) PROVE LadderInv'
  BY <1>1, <1>2, OpensStands, UpgradedStands, UpgradesStand, FailuresStand, BreaksStands,
     StreamFailsStands, TimesOutStands DEF SocketEvent
<1>3. CASE RetryFires \/ ReconnectFires BY <1>1, <1>3, TimersStand
<1>4. CASE Heartbeat BY <1>1, <1>4, HeartbeatStands
<1>5. CASE Pong \/ PollFails \/ PollWakes \/ PollEnds BY <1>1, <1>5, PollsStand
<1>6. CASE Reattempt BY <1>1, <1>6, UpgradesStand
<1>7. CASE Destroy BY <1>1, <1>7, DestroyStands
<1>8. CASE Outage \/ Recovery \/ UNCHANGED ladderVars
  BY <1>1, <1>8 DEF Outage, Recovery, ladderVars, LadderInv, Good, Stands, AwaitedIn
<1>9. QED BY <1>1, <1>2, <1>3, <1>4, <1>5, <1>6, <1>7, <1>8 DEF LadderNext

\* A page never stands still without its server: whatever attempts, close events
\* and timers cross, for any number of sockets at once and however early timers
\* fire, a client that was not destroyed has something to wait for.
THEOREM NeverStrandedAlways == LadderSpec => []NeverStranded
<1>1. LadderSpec => []LadderInv
  BY LadderStarts, LadderSteps, PTL DEF LadderSpec
<1>2. LadderInv => NeverStranded BY StrandedIsNot DEF LadderInv
<1>3. QED BY <1>1, <1>2, PTL
=============================================================================
