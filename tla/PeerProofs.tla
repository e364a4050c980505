----------------------------- MODULE PeerProofs -----------------------------
(***************************************************************************)
(* Proofs about the page's way to a peer: the badge and the recovery of    *)
(* PeerPath, and the frames that RelayLanes carries through the server.    *)
(* Each section has the inductive invariant, one lemma per handler and the *)
(* theorem.                                                                *)
(***************************************************************************)
EXTENDS PeerPath, RelayLanes, Integers, TLAPS

-----------------------------------------------------------------------------
(* PeerPath: the way to a peer and what recovers it.                         *)

\* Until the connection came up once, nobody has asked for its statistics.
NotYetUp == path.status = "connecting" => ice \in {"new", "connecting"} /\ ~polling

\* Once the server has taken over, no statistics take the badge from it before the
\* connection comes up again.
ServerHasIt ==
  ~again /\ path.relay =>
    path.type = "server_relay" /\ path.checker /\ ~polling /\ ice # "connected"

FailedHandsOver == ice = "failed" => path.relay

PathInv == PathTypeOK /\ NotYetUp /\ ServerHasIt /\ FailedHandsOver

PathType ==
  [status : {"connecting", "connected", "reconnecting", "failed"},
   type : Direct \cup Relays, relay : BOOLEAN, timer : BOOLEAN, checker : BOOLEAN]

LEMMA StateKeeps ==
  ASSUME PathInv, ConnectionStateChange
  PROVE  PathInv'
<1>1. PICK state \in Moves(ice) :
        /\ state = "failed" => ~polling
        /\ ice' = state
        /\ path' = PeerConnectionState(path, state)
        /\ grace' = ((grace /\ state # "connected") \/ state = "disconnected")
        /\ asked' = ((asked /\ state # "connected") \/ state = "failed")
        /\ again' = (again \/ (state = "connected" /\ path.relay))
        /\ UNCHANGED <<polling, role>>
  BY DEF ConnectionStateChange
<1>2. ice \in {"new", "connecting", "connected", "disconnected", "failed"} /\ path \in PathType
      /\ {polling, grace, asked, again} \subseteq BOOLEAN /\ role \in Politeness
  BY DEF PathInv, PathTypeOK, PathType
<1>3. state \in {"connecting", "connected", "disconnected", "failed"} BY <1>1, <1>2 DEF Moves
<1>4. {polling', grace', asked', again'} \subseteq BOOLEAN /\ role' \in Politeness BY <1>1, <1>2
<1>5. CASE state = "connected"
  <2>1. path' = [path EXCEPT !.timer = FALSE, !.status = "connected", !.checker = TRUE]
    BY <1>1, <1>5 DEF PeerConnectionState
  <2>2. path' \in PathType /\ path'.status = "connected" /\ path'.relay = path.relay
    BY <1>2, <2>1 DEF PathType
  <2>3. ServerHasIt' BY <1>1, <1>5, <2>2 DEF ServerHasIt
  <2>4. QED BY <1>1, <1>3, <1>4, <1>5, <2>2, <2>3
          DEF PathInv, PathTypeOK, PathType, NotYetUp, FailedHandsOver
<1>6. CASE state = "disconnected"
  <2>1. path' = [path EXCEPT !.status = "reconnecting"] BY <1>1, <1>6 DEF PeerConnectionState
  <2>2. /\ path' \in PathType /\ path'.status = "reconnecting" /\ path'.relay = path.relay
        /\ path'.type = path.type /\ path'.checker = path.checker
    BY <1>2, <2>1 DEF PathType
  <2>3. ServerHasIt' BY <1>1, <1>2, <1>6, <2>2 DEF PathInv, ServerHasIt
  <2>4. QED BY <1>1, <1>3, <1>4, <1>6, <2>2, <2>3
          DEF PathInv, PathTypeOK, PathType, NotYetUp, FailedHandsOver
<1>7. CASE state = "failed"
  <2>1. CASE path.relay
    <3>1. path' = [path EXCEPT !.status = "failed"] BY <1>1, <1>7, <2>1 DEF PeerConnectionState
    <3>2. /\ path' \in PathType /\ path'.status = "failed" /\ path'.relay
          /\ path'.type = path.type /\ path'.checker = path.checker
      BY <1>2, <2>1, <3>1 DEF PathType
    <3>3. ServerHasIt' BY <1>1, <1>2, <1>7, <2>1, <3>2 DEF PathInv, ServerHasIt
    <3>4. QED BY <1>1, <1>3, <1>4, <1>7, <3>2, <3>3
            DEF PathInv, PathTypeOK, PathType, NotYetUp, FailedHandsOver
  <2>2. CASE ~path.relay
    <3>1. path' = [path EXCEPT !.relay = TRUE, !.type = "server_relay", !.status = "connected", !.checker = TRUE]
      BY <1>1, <1>7, <2>2 DEF PeerConnectionState, StartServerRelayFallback
    <3>2. /\ path' \in PathType /\ path'.status = "connected" /\ path'.relay
          /\ path'.type = "server_relay" /\ path'.checker
      BY <1>2, <3>1 DEF PathType, Relays
    <3>3. ServerHasIt' BY <1>1, <1>7, <3>2 DEF ServerHasIt
    <3>4. QED BY <1>1, <1>3, <1>4, <1>7, <3>2, <3>3
            DEF PathInv, PathTypeOK, PathType, NotYetUp, FailedHandsOver
  <2>3. QED BY <2>1, <2>2
<1>8. CASE state = "connecting"
  <2>1. path' = path BY <1>1, <1>8 DEF PeerConnectionState
  <2>2. ServerHasIt' BY <1>1, <1>2, <1>8, <2>1 DEF PathInv, ServerHasIt
  <2>3. QED BY <1>1, <1>3, <1>4, <1>8, <2>1, <2>2
          DEF PathInv, PathTypeOK, NotYetUp, FailedHandsOver
<1>9. QED BY <1>3, <1>5, <1>6, <1>7, <1>8

LEMMA TimeoutKeepsPath ==
  ASSUME PathInv, ConnectingTimeout
  PROVE  PathInv'
<1>1. path \in PathType /\ UNCHANGED <<ice, polling, grace, asked, role, again>>
  BY DEF PathInv, PathTypeOK, PathType, ConnectingTimeout
<1>2. CASE path.status = "connecting"
  <2>1. path' = [[path EXCEPT !.relay = TRUE, !.type = "server_relay", !.status = "connected",
                              !.checker = TRUE] EXCEPT !.timer = FALSE]
    BY <1>2 DEF ConnectingTimeout, StartServerRelayFallback
  <2>2. /\ path' \in PathType /\ path'.status = "connected" /\ path'.relay
        /\ path'.type = "server_relay" /\ path'.checker
    BY <1>1, <2>1 DEF PathType, Relays
  <2>3. QED BY <1>1, <1>2, <2>2
          DEF PathInv, PathTypeOK, PathType, NotYetUp, ServerHasIt, FailedHandsOver
<1>3. CASE path.status # "connecting"
  <2>1. path' = [path EXCEPT !.timer = FALSE] BY <1>3 DEF ConnectingTimeout
  <2>2. /\ path' \in PathType /\ path'.status = path.status /\ path'.relay = path.relay
        /\ path'.type = path.type /\ path'.checker = path.checker
    BY <1>1, <2>1 DEF PathType
  <2>3. QED BY <1>1, <2>2
          DEF PathInv, PathTypeOK, PathType, NotYetUp, ServerHasIt, FailedHandsOver
<1>4. QED BY <1>2, <1>3

LEMMA StatsKeep ==
  ASSUME PathInv, PathStats
  PROVE  PathInv'
<1>1. PICK type \in Direct \cup {"turn_relay"} : path' = [path EXCEPT !.type = type]
  BY DEF PathStats
<1>2. path \in PathType /\ polling /\ polling' = FALSE /\ UNCHANGED <<ice, grace, asked, role, again>>
  BY DEF PathInv, PathTypeOK, PathType, PathStats
<1>3. /\ path' \in PathType /\ path'.status = path.status /\ path'.relay = path.relay
      /\ path'.checker = path.checker
  BY <1>1, <1>2 DEF PathType, Relays
<1>4. QED BY <1>2, <1>3 DEF PathInv, PathTypeOK, PathType, NotYetUp, ServerHasIt, FailedHandsOver

LEMMA PathSteps == PathInv /\ [PathNext]_pathVars => PathInv'
<1>1. SUFFICES ASSUME PathInv, [PathNext]_pathVars PROVE PathInv' OBVIOUS
<1>2. CASE GraceOver
  BY <1>1, <1>2 DEF GraceOver, PathInv, PathTypeOK, NotYetUp, ServerHasIt, FailedHandsOver
<1>3. CASE AskStats
  BY <1>1, <1>3 DEF AskStats, PathInv, PathTypeOK, NotYetUp, ServerHasIt, FailedHandsOver
<1>4. CASE UpgradeCheck
  BY <1>1, <1>4 DEF UpgradeCheck, PathInv, PathTypeOK, NotYetUp, ServerHasIt, FailedHandsOver
<1>5. CASE UNCHANGED pathVars
  BY <1>1, <1>5 DEF pathVars, PathInv, PathTypeOK, NotYetUp, ServerHasIt, FailedHandsOver
<1>6. QED BY <1>1, <1>2, <1>3, <1>4, <1>5, StateKeeps, TimeoutKeepsPath, StatsKeep DEF PathNext

\* However the connection comes up, drops and fails, whatever the page's role: while
\* the server carries the frames of a lost peer, the page keeps trying for better.
THEOREM RelayKeepsRetryingAlways == PathSpec => []RelayKeepsRetrying
<1>1. PathInit => PathInv
  <2>1. SUFFICES ASSUME PathInit PROVE PathInv OBVIOUS
  <2>2. /\ ice = "new" /\ polling = FALSE /\ grace = FALSE /\ asked = FALSE /\ again = FALSE
        /\ role \in Politeness /\ path \in PathType /\ path.relay = FALSE
    BY <2>1 DEF PathInit, PathType, Direct
  <2>3. PathTypeOK BY <2>2 DEF PathTypeOK, PathType
  <2>4. QED BY <2>2, <2>3 DEF PathInv, NotYetUp, ServerHasIt, FailedHandsOver
<1>2. PathSpec => []PathInv BY <1>1, PathSteps, PTL DEF PathSpec
<1>3. PathInv => RelayKeepsRetrying
  BY DEF PathInv, ServerHasIt, FailedHandsOver, RelayKeepsRetrying, Relays
<1>4. QED BY <1>2, <1>3, PTL

-----------------------------------------------------------------------------
(* RelayLanes: the server's queue and the frames on the lanes.               *)

PlaceType ==
  [at : {"page", "up json", "up binary", "down", "waiting", "arrived", "lost"}, via : Vias]

LanesTyped ==
  /\ lane \in [Pages -> [Lanes -> {"none", "opening", "open", "cut"}]]
  /\ main \in [Pages -> {"ws", "sse", "poll", "none"}]
  /\ mainCut \subseteq Pages /\ binary \in BOOLEAN /\ cuts \in 0 .. MaxCuts

FramesTyped ==
  /\ frame \in [Frames -> PlaceType] /\ spoiled \in BOOLEAN
  /\ waiting \in Seq(Frames) /\ Len(waiting) <= MaxQueue

\* Nothing is cut that was not noted.
CutsSpoil ==
  ~spoiled => mainCut = {} /\ \A p \in Pages : main[p] # "none" /\ \A l \in Lanes : lane[p][l] # "cut"

\* No frame waits twice.
Once == \A i, j \in DOMAIN waiting : waiting[i] = waiting[j] => i = j

LanesInv == LanesTyped /\ FramesTyped /\ CutsSpoil /\ Once /\ NoFrameLost

-----------------------------------------------------------------------------
\* A step of the lanes and connections, all frames staying where they are
LEMMA LanesMove ==
  ASSUME LanesInv, LanesTyped', CutsSpoil', UNCHANGED <<frame, waiting, spoiled>>
  PROVE  LanesInv'
  BY DEF LanesInv, FramesTyped, Once, NoFrameLost

\* A step of one frame that does not wait before or after it
LEMMA FrameMoves ==
  ASSUME LanesInv, LanesTyped', CutsSpoil', UNCHANGED <<waiting, spoiled>>,
         NEW f \in Frames, frame[f].at # "waiting",
         NEW place \in PlaceType, place.at # "waiting", ~spoiled => place # Lost,
         frame' = [frame EXCEPT ![f] = place]
  PROVE  LanesInv'
<1>1. frame' \in [Frames -> PlaceType] /\ \A g \in Frames : frame'[g] = IF g = f THEN place ELSE frame[g]
  BY DEF LanesInv, FramesTyped
<1>2. FramesTyped' /\ Once' BY <1>1 DEF LanesInv, FramesTyped, Once
<1>3. NoFrameLost' BY <1>1 DEF LanesInv, NoFrameLost
<1>4. QED BY <1>2, <1>3 DEF LanesInv

\* What is given to a connection is there, or lost with what was cut.
LEMMA OnPlace ==
  ASSUME LanesInv, NEW p \in Pages, NEW at \in {"up json", "up binary", "down"},
         NEW via \in OpenLanes(p) \cup {"main"}
  PROVE  /\ On(p, at, via) \in PlaceType /\ On(p, at, via).at # "waiting"
         /\ ~spoiled => On(p, at, via) # Lost
<1>1. via \in Lanes \cup {"main"} BY DEF OpenLanes
<1>2. ~spoiled => Works(p, via)
  BY <1>1, LanesAssumption DEF LanesAssumption, LanesInv, CutsSpoil, Works
<1>3. Place(at, via) # Lost BY DEF Place, Lost
<1>4. Place(at, via) \in PlaceType /\ Lost \in PlaceType /\ Place(at, via).at # "waiting" /\ Lost.at # "waiting"
  BY <1>1 DEF Place, Lost, PlaceType, Vias
<1>5. QED BY <1>2, <1>3, <1>4 DEF On

LEMMA EnsuredTyped ==
  ASSUME LanesInv, NEW p \in Pages
  PROVE  /\ EnsureTurboLanes(p) \in [Pages -> [Lanes -> {"none", "opening", "open", "cut"}]]
         /\ \A q \in Pages, l \in Lanes : EnsureTurboLanes(p)[q][l] = "cut" => lane[q][l] = "cut"
<1> DEFINE row == [l \in Lanes |-> IF lane[p][l] = "none" THEN "opening" ELSE lane[p][l]]
<1>1. lane \in [Pages -> [Lanes -> {"none", "opening", "open", "cut"}]] BY DEF LanesInv, LanesTyped
<1>2. row \in [Lanes -> {"none", "opening", "open", "cut"}] BY <1>1
<1>3. \A l \in Lanes : row[l] = "cut" => lane[p][l] = "cut" BY <1>1
<1>4. EnsureTurboLanes(p) = [lane EXCEPT ![p] = row] BY <1>1 DEF EnsureTurboLanes
<1> HIDE DEF row
<1>5. QED BY <1>1, <1>2, <1>3, <1>4

LEMMA SendKeeps ==
  ASSUME LanesInv, NEW f \in Frames, SendFrame(f)
  PROVE  LanesInv'
<1>1. /\ frame[f] = Unsent /\ UNCHANGED <<main, mainCut, binary, waiting, cuts, spoiled>>
      /\ lane' = IF binary THEN EnsureTurboLanes("sender") ELSE lane
  BY DEF SendFrame
<1>2. LanesTyped' /\ CutsSpoil'
  <2>1. "sender" \in Pages BY DEF Pages
  <2>2. CASE binary
    <3>1. lane' = EnsureTurboLanes("sender") BY <1>1, <2>2
    <3>2. QED BY <1>1, <2>1, <3>1, EnsuredTyped DEF LanesInv, LanesTyped, CutsSpoil
  <2>3. CASE ~binary BY <1>1, <2>3 DEF LanesInv, LanesTyped, CutsSpoil
  <2>4. QED BY <2>2, <2>3
<1>3. frame[f].at # "waiting" BY <1>1 DEF Unsent, Place
<1>4. Lost \in PlaceType /\ Lost.at # "waiting" BY DEF Lost, Place, PlaceType, Vias
<1>5. PICK place : /\ frame' = [frame EXCEPT ![f] = place]
                   /\ \/ ~binary /\ place = IF main["sender"] = "none" THEN Lost ELSE On("sender", "up json", "main")
                      \/ \E via \in OpenLanes("sender") : place = On("sender", "up binary", via)
                      \/ place = IF "sender" \in mainCut THEN Lost ELSE Place("up binary", "post")
  BY DEF SendFrame
<1>6. "sender" \in Pages BY DEF Pages
<1>7. place \in PlaceType /\ place.at # "waiting" /\ (~spoiled => place # Lost)
  <2>1. CASE place = IF main["sender"] = "none" THEN Lost ELSE On("sender", "up json", "main")
    BY <1>4, <1>6, <2>1, OnPlace DEF LanesInv, CutsSpoil
  <2>2. CASE \E via \in OpenLanes("sender") : place = On("sender", "up binary", via)
    BY <1>6, <2>2, OnPlace
  <2>3. CASE place = IF "sender" \in mainCut THEN Lost ELSE Place("up binary", "post")
    <3>1. /\ Place("up binary", "post") \in PlaceType /\ Place("up binary", "post").at # "waiting"
          /\ Place("up binary", "post") # Lost
      BY DEF Place, Lost, PlaceType, Vias
    <3>2. QED BY <1>4, <2>3, <3>1 DEF LanesInv, CutsSpoil
  <2>4. QED BY <1>5, <2>1, <2>2, <2>3
<1>8. QED BY <1>1, <1>2, <1>3, <1>5, <1>7, FrameMoves

\* A frame waits for a poll; if too many do, the first is dropped.
LEMMA WaitsKeeps ==
  ASSUME LanesInv, LanesTyped', UNCHANGED <<main, mainCut, lane>>,
         NEW f \in Frames, frame[f].at \notin {"waiting", "lost"}, main["recipient"] = "poll", SendDirect(f)
  PROVE  LanesInv'
<1> DEFINE queue == Append(waiting, f)
           full == Len(queue) > MaxQueue
<1>1. /\ waiting' = IF full THEN Tail(queue) ELSE queue
      /\ frame' = [g \in Frames |-> IF full /\ g = Head(queue) THEN Lost
                                    ELSE IF g = f THEN Place("waiting", "none") ELSE frame[g]]
      /\ spoiled' = (spoiled \/ full)
  BY DEF SendDirect
<1>2. /\ frame \in [Frames -> PlaceType] /\ spoiled \in BOOLEAN
      /\ waiting \in Seq(Frames) /\ Len(waiting) <= MaxQueue /\ MaxQueue \in Nat \ {0}
      /\ Len(waiting) \in Nat /\ DOMAIN waiting = 1 .. Len(waiting)
  BY LanesAssumption DEF LanesAssumption, LanesInv, FramesTyped
<1>3. /\ queue \in Seq(Frames) /\ Len(queue) = Len(waiting) + 1 /\ DOMAIN queue = 1 .. Len(waiting) + 1
      /\ queue[Len(waiting) + 1] = f /\ \A i \in 1 .. Len(waiting) : queue[i] = waiting[i]
      /\ Head(queue) = queue[1] /\ queue[1] \in Frames
  BY <1>2
<1>4. /\ Tail(queue) \in Seq(Frames) /\ Len(Tail(queue)) = Len(waiting)
      /\ DOMAIN Tail(queue) = 1 .. Len(waiting)
      /\ \A i \in 1 .. Len(waiting) : Tail(queue)[i] = queue[i + 1]
  <2> HIDE DEF queue
  <2>1. queue # <<>> BY <1>2, <1>3
  <2>2. /\ Tail(queue) \in Seq(Frames) /\ Len(Tail(queue)) = Len(queue) - 1
        /\ DOMAIN Tail(queue) = 1 .. Len(queue) - 1
        /\ \A i \in 1 .. Len(queue) - 1 : Tail(queue)[i] = queue[i + 1]
    BY <1>3, <2>1
  <2>3. Len(queue) - 1 = Len(waiting) BY <1>2, <1>3
  <2>4. QED BY <2>2, <2>3
<1> HIDE DEF queue
<1>5. \A i, j \in DOMAIN queue : queue[i] = queue[j] => i = j
  <2>1. \A i \in 1 .. Len(waiting) : waiting[i] # f
    BY <1>2 DEF LanesInv, NoFrameLost
  <2>2. \A i, j \in 1 .. Len(waiting) : waiting[i] = waiting[j] => i = j
    BY <1>2 DEF LanesInv, Once
  <2>3. QED BY <1>2, <1>3, <2>1, <2>2
<1>6. \A g \in Frames : (\E i \in DOMAIN queue : queue[i] = g) <=> g = f \/ frame[g].at = "waiting"
  <2>1. \A g \in Frames : frame[g].at = "waiting" <=> \E i \in 1 .. Len(waiting) : waiting[i] = g
    BY <1>2 DEF LanesInv, NoFrameLost
  <2>2. QED BY <1>2, <1>3, <2>1
<1>7. Place("waiting", "none") \in PlaceType /\ Lost \in PlaceType /\ Lost.at = "lost"
      /\ Place("waiting", "none").at = "waiting"
  BY DEF Place, Lost, PlaceType, Vias
<1>8. Place("waiting", "none") # Lost BY DEF Place, Lost
<1>9. CutsSpoil' BY <1>1 DEF LanesInv, CutsSpoil
<1>10. CASE full
  <2>1. waiting' = Tail(queue) /\ spoiled' = TRUE BY <1>1, <1>10
  <2>2. /\ frame' \in [Frames -> PlaceType]
        /\ \A g \in Frames : frame'[g].at = "waiting" <=> g # queue[1] /\ (g = f \/ frame[g].at = "waiting")
    BY <1>1, <1>2, <1>3, <1>7, <1>10
  <2>3. FramesTyped' BY <1>2, <1>4, <2>1, <2>2 DEF FramesTyped
  <2>4. Once' BY <1>2, <1>3, <1>4, <1>5, <2>1 DEF Once
  <2>5. \A g \in Frames : (\E i \in DOMAIN Tail(queue) : Tail(queue)[i] = g)
                            <=> g # queue[1] /\ \E i \in DOMAIN queue : queue[i] = g
    <3>1. TAKE g \in Frames
    <3>2. ASSUME NEW i \in DOMAIN Tail(queue), Tail(queue)[i] = g
          PROVE  g # queue[1] /\ \E k \in DOMAIN queue : queue[k] = g
      <4>1. i + 1 \in DOMAIN queue /\ 1 \in DOMAIN queue /\ i + 1 # 1 /\ queue[i + 1] = g
        BY <1>2, <1>3, <1>4, <3>2
      <4>2. QED BY <1>5, <4>1
    <3>3. ASSUME NEW i \in DOMAIN queue, queue[i] = g, g # queue[1]
          PROVE  \E k \in DOMAIN Tail(queue) : Tail(queue)[k] = g
      <4>1. i - 1 \in DOMAIN Tail(queue) /\ (i - 1) + 1 = i BY <1>2, <1>3, <1>4, <3>3
      <4>2. Tail(queue)[i - 1] = g BY <1>4, <3>3, <4>1
      <4>3. QED BY <4>1, <4>2
    <3>4. QED BY <3>2, <3>3
  <2>6. NoFrameLost' BY <1>6, <2>1, <2>2, <2>5 DEF NoFrameLost
  <2>7. QED BY <1>9, <2>3, <2>4, <2>6 DEF LanesInv
<1>11. CASE ~full
  <2>1. waiting' = queue /\ spoiled' = spoiled BY <1>1, <1>2, <1>11
  <2>2. /\ frame' \in [Frames -> PlaceType]
        /\ \A g \in Frames : frame'[g] = IF g = f THEN Place("waiting", "none") ELSE frame[g]
    BY <1>1, <1>2, <1>7, <1>11
  <2>3. FramesTyped' BY <1>2, <1>3, <1>11, <2>1, <2>2 DEF FramesTyped
  <2>4. Once' BY <1>5, <2>1 DEF Once
  <2>5. NoFrameLost' BY <1>6, <1>7, <1>8, <2>1, <2>2 DEF LanesInv, NoFrameLost
  <2>6. QED BY <1>9, <2>3, <2>4, <2>5 DEF LanesInv
<1>12. QED BY <1>10, <1>11

\* The server passes a frame on.
LEMMA DirectKeeps ==
  ASSUME LanesInv, NEW f \in Frames, frame[f].at \in {"up binary", "up json"}, SendDirect(f),
         UNCHANGED <<lane, main, mainCut, binary, cuts>>
  PROVE  LanesInv'
<1>1. LanesTyped' BY DEF LanesInv, LanesTyped
<1>2. "recipient" \in Pages /\ main["recipient"] \in {"ws", "sse", "poll", "none"}
  BY DEF LanesInv, LanesTyped, Pages
<1>3. CASE main["recipient"] \in {"ws", "sse"}
  <2>1. frame' = [frame EXCEPT ![f] = On("recipient", "down", "main")] /\ UNCHANGED <<waiting, spoiled>>
    BY <1>3 DEF SendDirect
  <2>2. CutsSpoil' BY <2>1 DEF LanesInv, CutsSpoil
  <2>3. QED BY <1>1, <1>2, <2>1, <2>2, OnPlace, FrameMoves
<1>4. CASE main["recipient"] = "poll" BY <1>1, <1>4, WaitsKeeps
<1>5. CASE main["recipient"] = "none"
  <2>1. frame' = [frame EXCEPT ![f] = Lost] /\ UNCHANGED <<waiting, spoiled>>
    BY <1>5 DEF SendDirect
  <2>2. CutsSpoil' /\ spoiled BY <1>2, <1>5, <2>1 DEF LanesInv, CutsSpoil
  <2>3. Lost \in PlaceType /\ Lost.at # "waiting" BY DEF Lost, Place, PlaceType, Vias
  <2>4. QED BY <1>1, <2>1, <2>2, <2>3, FrameMoves
<1>6. QED BY <1>2, <1>3, <1>4, <1>5

LEMMA ServerKeeps ==
  ASSUME LanesInv, NEW f \in Frames, ServerRelays(f)
  PROVE  LanesInv'
<1>1. /\ UNCHANGED <<lane, main, mainCut, binary, cuts>> /\ frame[f].at \in {"up binary", "up json"}
      /\ SendBinaryToClient(f) \/ SendDirect(f)
  BY DEF ServerRelays
<1>2. CASE SendDirect(f) BY <1>1, <1>2, DirectKeeps
<1>3. CASE SendBinaryToClient(f) /\ ~SendDirect(f)
  <2>1. PICK via \in OpenLanes("recipient") :
          frame' = [frame EXCEPT ![f] = On("recipient", "down", via)] /\ UNCHANGED <<waiting, spoiled>>
    BY <1>3 DEF SendBinaryToClient
  <2>2. LanesTyped' /\ CutsSpoil' BY <1>1, <2>1 DEF LanesInv, LanesTyped, CutsSpoil
  <2>3. "recipient" \in Pages BY DEF Pages
  <2>4. QED BY <1>1, <2>1, <2>2, <2>3, OnPlace, FrameMoves
<1>4. QED BY <1>1, <1>2, <1>3

LEMMA ArrivesKeeps ==
  ASSUME LanesInv, NEW f \in Frames, FrameArrives(f)
  PROVE  LanesInv'
<1>1. /\ frame[f].at = "down" /\ frame' = [frame EXCEPT ![f] = Arrived]
      /\ UNCHANGED <<lane, main, mainCut, binary, waiting, cuts, spoiled>>
  BY DEF FrameArrives
<1>2. Arrived \in PlaceType /\ Arrived.at # "waiting" /\ Arrived # Lost
  BY DEF Arrived, Lost, Place, PlaceType, Vias
<1>3. LanesTyped' /\ CutsSpoil' BY <1>1 DEF LanesInv, LanesTyped, CutsSpoil
<1>4. QED BY <1>1, <1>2, <1>3, FrameMoves

\* Frames that are lost with what is cut, or all that waited moving on: which wait is
\* what waits.
LEMMA ManyMove ==
  ASSUME LanesInv, LanesTyped', CutsSpoil', spoiled' \in BOOLEAN,
         frame' \in [Frames -> PlaceType], waiting' \in {waiting, <<>>},
         \A f \in Frames : frame'[f].at = "waiting" <=> frame[f].at = "waiting" /\ waiting' # <<>>,
         ~spoiled' => \A f \in Frames : frame'[f] # Lost
  PROVE  LanesInv'
<1>1. waiting \in Seq(Frames) /\ Len(waiting) <= MaxQueue /\ MaxQueue \in Nat
  BY LanesAssumption DEF LanesAssumption, LanesInv, FramesTyped
<1>2. CASE waiting' = <<>>
  <2>1. Len(waiting') = 0 /\ DOMAIN waiting' = {} /\ waiting' \in Seq(Frames) BY <1>2
  <2>2. FramesTyped' /\ Once' BY <1>1, <2>1 DEF FramesTyped, Once
  <2>3. NoFrameLost' BY <1>2, <2>1 DEF NoFrameLost
  <2>4. QED BY <2>2, <2>3 DEF LanesInv
<1>3. CASE waiting' = waiting /\ waiting' # <<>>
  BY <1>3 DEF LanesInv, FramesTyped, Once, NoFrameLost
<1>4. QED BY <1>2, <1>3

LEMMA HandedTyped ==
  ASSUME LanesInv, HandedOver(Place("down", "main"))
  PROVE  /\ frame' \in [Frames -> PlaceType] /\ waiting' = <<>>
         /\ \A f \in Frames : frame'[f].at # "waiting"
         /\ ~spoiled => \A f \in Frames : frame'[f] # Lost
<1>1. Place("down", "main") \in PlaceType /\ Place("down", "main").at = "down" /\ Place("down", "main") # Lost
  BY DEF Place, Lost, PlaceType, Vias
<1>2. frame \in [Frames -> PlaceType] /\ (~spoiled => \A f \in Frames : frame[f] # Lost)
  BY DEF LanesInv, FramesTyped, NoFrameLost
<1>3. /\ frame' = [g \in Frames |-> IF frame[g].at = "waiting" THEN Place("down", "main") ELSE frame[g]]
      /\ waiting' = <<>>
  BY DEF HandedOver
<1>4. QED BY <1>1, <1>2, <1>3

LEMMA CutKeeps ==
  ASSUME LanesInv, NEW p \in Pages, NEW vias, CutOff(p, vias),
         lane' \in [Pages -> [Lanes -> {"none", "opening", "open", "cut"}]], mainCut' \subseteq Pages
  PROVE  LanesInv'
<1>1. /\ frame' = [f \in Frames |-> IF frame[f].at \in OnItsWay(p) /\ frame[f].via \in vias THEN Lost ELSE frame[f]]
      /\ cuts < MaxCuts /\ cuts' = cuts + 1 /\ spoiled' = TRUE /\ UNCHANGED <<main, binary, waiting>>
  BY DEF CutOff
<1>2. LanesTyped' BY <1>1, LanesAssumption DEF LanesAssumption, LanesInv, LanesTyped
<1>3. Lost \in PlaceType /\ Lost.at = "lost" BY DEF Lost, Place, PlaceType, Vias
<1>4. "waiting" \notin OnItsWay(p) BY DEF OnItsWay
<1>5. frame \in [Frames -> PlaceType] BY DEF LanesInv, FramesTyped
<1>6. /\ frame' \in [Frames -> PlaceType]
      /\ \A f \in Frames : frame'[f].at = "waiting" <=> frame[f].at = "waiting"
  BY <1>1, <1>3, <1>4, <1>5
<1>7. waiting = <<>> => \A f \in Frames : frame[f].at # "waiting"
  <2>1. waiting = <<>> => DOMAIN waiting = {} OBVIOUS
  <2>2. QED BY <2>1 DEF LanesInv, NoFrameLost
<1>8. CutsSpoil' BY <1>1 DEF CutsSpoil
<1>9. QED BY <1>1, <1>2, <1>6, <1>7, <1>8, ManyMove

LEMMA LostKeeps ==
  ASSUME LanesInv, NEW p \in Pages, ConnectionLost(p)
  PROVE  LanesInv'
<1> DEFINE gone(f) == (frame[f].at \in OnItsWay(p) /\ frame[f].via \in Lanes)
                        \/ (p = "recipient" /\ frame[f].at = "waiting")
<1>1. /\ p \in mainCut /\ mainCut' = mainCut \ {p} /\ main' = [main EXCEPT ![p] = "none"]
      /\ lane' = [lane EXCEPT ![p] = [l \in Lanes |-> "none"]]
      /\ frame' = [f \in Frames |-> IF gone(f) THEN Lost ELSE frame[f]]
      /\ waiting' = IF p = "recipient" THEN <<>> ELSE waiting
      /\ UNCHANGED <<binary, cuts, spoiled>>
  BY DEF ConnectionLost
<1>2. spoiled = TRUE BY <1>1 DEF LanesInv, FramesTyped, CutsSpoil
<1>3. LanesTyped'
  <2>1. [l \in Lanes |-> "none"] \in [Lanes -> {"none", "opening", "open", "cut"}] OBVIOUS
  <2>2. QED BY <1>1, <2>1 DEF LanesInv, LanesTyped
<1>4. CutsSpoil' BY <1>1, <1>2 DEF CutsSpoil
<1>5. Lost \in PlaceType /\ Lost.at = "lost" BY DEF Lost, Place, PlaceType, Vias
<1>6. "waiting" \notin OnItsWay(p) BY DEF OnItsWay
<1>7. frame \in [Frames -> PlaceType] BY DEF LanesInv, FramesTyped
<1>8. /\ frame' \in [Frames -> PlaceType]
      /\ \A f \in Frames : frame'[f].at = "waiting" <=> frame[f].at = "waiting" /\ p # "recipient"
  BY <1>1, <1>5, <1>6, <1>7
<1>9. waiting = <<>> => \A f \in Frames : frame[f].at # "waiting"
  <2>1. waiting = <<>> => DOMAIN waiting = {} OBVIOUS
  <2>2. QED BY <2>1 DEF LanesInv, NoFrameLost
<1>10. waiting' \in {waiting, <<>>} /\ (p = "recipient" => waiting' = <<>>)
       /\ (p # "recipient" => waiting' = waiting)
  BY <1>1
<1>11. \A f \in Frames : frame'[f].at = "waiting" <=> frame[f].at = "waiting" /\ waiting' # <<>>
  BY <1>8, <1>9, <1>10
<1>12. spoiled' = TRUE BY <1>1, <1>2
<1>13. QED BY <1>3, <1>4, <1>8, <1>10, <1>11, <1>12, ManyMove

-----------------------------------------------------------------------------
\* The steps of one lane
LEMMA LaneKeeps ==
  ASSUME LanesInv, NEW p \in Pages, NEW l \in Lanes, LaneOpens(p, l) \/ LaneCut(p, l) \/ LaneClosed(p, l)
  PROVE  LanesInv'
<1>1. lane \in [Pages -> [Lanes -> {"none", "opening", "open", "cut"}]] BY DEF LanesInv, LanesTyped
<1>2. PICK new \in {"open", "cut", "none"} : lane' = [lane EXCEPT ![p][l] = new]
        /\ (new = "cut" => LaneCut(p, l)) /\ (new # "cut" => LaneOpens(p, l) \/ LaneClosed(p, l))
  BY DEF LaneOpens, LaneCut, LaneClosed
<1>3. /\ lane' \in [Pages -> [Lanes -> {"none", "opening", "open", "cut"}]]
      /\ \A q \in Pages, k \in Lanes : lane'[q][k] = new \/ lane'[q][k] = lane[q][k]
  BY <1>1, <1>2
<1>4. CASE new = "cut"
  <2>1. CutOff(p, {l}) /\ mainCut' = mainCut BY <1>2, <1>4 DEF LaneCut
  <2>2. mainCut' \subseteq Pages BY <2>1 DEF LanesInv, LanesTyped
  <2>3. QED BY <1>3, <2>1, <2>2, CutKeeps
<1>5. CASE new # "cut"
  <2>1. UNCHANGED <<main, mainCut, binary, frame, waiting, cuts, spoiled>>
    BY <1>2, <1>5 DEF LaneOpens, LaneClosed
  <2>2. LanesTyped' /\ CutsSpoil' BY <1>3, <1>5, <2>1 DEF LanesInv, LanesTyped, CutsSpoil
  <2>3. QED BY <2>1, <2>2, LanesMove
<1>6. QED BY <1>4, <1>5

\* The steps of one connection
LEMMA ConnectionKeeps ==
  ASSUME LanesInv, NEW p \in Pages, OpensLanes(p) \/ ConnectionCut(p) \/ ConnectionLost(p) \/ ConnectionBack(p)
  PROVE  LanesInv'
<1>1. CASE OpensLanes(p)
  <2>1. lane' = EnsureTurboLanes(p) /\ UNCHANGED <<main, mainCut, binary, frame, waiting, cuts, spoiled>>
    BY <1>1 DEF OpensLanes
  <2>2. LanesTyped' /\ CutsSpoil' BY <2>1, EnsuredTyped DEF LanesInv, LanesTyped, CutsSpoil
  <2>3. QED BY <2>1, <2>2, LanesMove
<1>2. CASE ConnectionCut(p)
  <2>1. mainCut' = mainCut \cup {p} /\ CutOff(p, {"main", "post"}) /\ lane' = lane
    BY <1>2 DEF ConnectionCut
  <2>2. mainCut' \subseteq Pages /\ lane' \in [Pages -> [Lanes -> {"none", "opening", "open", "cut"}]]
    BY <2>1 DEF LanesInv, LanesTyped
  <2>3. QED BY <2>1, <2>2, CutKeeps
<1>3. CASE ConnectionBack(p)
  <2>1. PICK rung \in {"ws", "sse", "poll"} :
          /\ main' = [main EXCEPT ![p] = rung]
          /\ binary' = (binary \/ (p = "sender" /\ rung # "poll"))
    BY <1>3 DEF ConnectionBack
  <2>2. UNCHANGED <<lane, mainCut, frame, waiting, cuts, spoiled>> BY <1>3 DEF ConnectionBack
  <2>3. LanesTyped' /\ CutsSpoil' BY <2>1, <2>2 DEF LanesInv, LanesTyped, CutsSpoil
  <2>4. QED BY <2>2, <2>3, LanesMove
<1>4. QED BY <1>1, <1>2, <1>3, LostKeeps

\* Polls, and sockets that take the place of streams and polls
LEMMA SwitchKeeps ==
  ASSUME LanesInv, PollTakes \/ SenderSwitches \/ RecipientSwitches \/ SocketRegistered
  PROVE  LanesInv'
<1>1. "sender" \in Pages /\ "recipient" \in Pages BY DEF Pages
<1>2. CASE PollTakes
  <2>1. HandedOver(Place("down", "main")) /\ UNCHANGED <<lane, main, mainCut, binary, cuts, spoiled>>
    BY <1>2 DEF PollTakes
  <2>2. LanesTyped' /\ CutsSpoil' /\ spoiled' \in BOOLEAN
    BY <2>1 DEF LanesInv, LanesTyped, FramesTyped, CutsSpoil
  <2>3. QED BY <2>1, <2>2, HandedTyped, ManyMove
<1>3. CASE SenderSwitches
  <2>1. /\ main' = [main EXCEPT !["sender"] = "ws"] /\ mainCut' = mainCut \ {"sender"} /\ binary' = TRUE
        /\ UNCHANGED <<lane, frame, waiting, cuts, spoiled>>
    BY <1>3 DEF SenderSwitches
  <2>2. LanesTyped' /\ CutsSpoil' BY <1>1, <2>1 DEF LanesInv, LanesTyped, CutsSpoil
  <2>3. QED BY <2>1, <2>2, LanesMove
<1>4. CASE RecipientSwitches
  <2>1. mainCut' = mainCut \cup {"recipient"} /\ CutOff("recipient", {"main"}) /\ lane' = lane
    BY <1>4 DEF RecipientSwitches
  <2>2. mainCut' \subseteq Pages /\ lane' \in [Pages -> [Lanes -> {"none", "opening", "open", "cut"}]]
    BY <1>1, <2>1 DEF LanesInv, LanesTyped
  <2>3. QED BY <1>1, <2>1, <2>2, CutKeeps
<1>5. CASE SocketRegistered
  <2>1. /\ main' = [main EXCEPT !["recipient"] = "ws"] /\ mainCut' = mainCut \ {"recipient"}
        /\ HandedOver(Place("down", "main")) /\ UNCHANGED <<lane, binary, cuts, spoiled>>
    BY <1>5 DEF SocketRegistered
  <2>2. LanesTyped' /\ CutsSpoil' /\ spoiled' \in BOOLEAN
    BY <1>1, <2>1 DEF LanesInv, LanesTyped, FramesTyped, CutsSpoil
  <2>3. QED BY <2>1, <2>2, HandedTyped, ManyMove
<1>6. QED BY <1>2, <1>3, <1>4, <1>5

LEMMA RelayStarts == RelayInit => LanesInv
<1>1. SUFFICES ASSUME RelayInit PROVE LanesInv OBVIOUS
<1>2. LanesTyped /\ CutsSpoil
  <2>1. [l \in Lanes |-> "none"] \in [Lanes -> {"none", "opening", "open", "cut"}] OBVIOUS
  <2>2. LanesTyped BY <1>1, <2>1, LanesAssumption DEF RelayInit, LanesTyped, LanesAssumption
  <2>3. QED BY <1>1, <2>2 DEF RelayInit, CutsSpoil
<1>3. frame = [f \in Frames |-> Unsent] /\ waiting = <<>> /\ spoiled = FALSE BY <1>1 DEF RelayInit
<1>4. Unsent \in PlaceType /\ Unsent.at = "page" /\ Unsent # Lost
  BY DEF Unsent, Lost, Place, PlaceType, Vias
<1>5. DOMAIN waiting = {} /\ waiting \in Seq(Frames) /\ Len(waiting) = 0 BY <1>3
<1>6. FramesTyped /\ Once
  <2>1. frame \in [Frames -> PlaceType] BY <1>3, <1>4
  <2>2. MaxQueue \in Nat /\ Len(waiting) <= MaxQueue
    BY <1>5, LanesAssumption DEF LanesAssumption
  <2>3. QED BY <1>3, <1>5, <2>1, <2>2 DEF FramesTyped, Once
<1>7. NoFrameLost BY <1>3, <1>4, <1>5 DEF NoFrameLost
<1>8. QED BY <1>2, <1>6, <1>7 DEF LanesInv

LEMMA RelaySteps == LanesInv /\ [RelayNext]_relayVars => LanesInv'
<1>1. SUFFICES ASSUME LanesInv, [RelayNext]_relayVars PROVE LanesInv' OBVIOUS
<1>2. CASE UNCHANGED relayVars
  BY <1>1, <1>2 DEF relayVars, LanesInv, LanesTyped, FramesTyped, CutsSpoil, Once, NoFrameLost
<1>3. QED BY <1>1, <1>2, ConnectionKeeps, LaneKeeps, SendKeeps, ServerKeeps, ArrivesKeeps, SwitchKeeps
            DEF RelayNext

\* For any number of frames and lanes and any length of the server's queue: no frame
\* is lost before something is cut or too much waits for a poll.
THEOREM NoFrameLostAlways == RelaySpec => []NoFrameLost
<1>1. RelaySpec => []LanesInv BY RelayStarts, RelaySteps, PTL DEF RelaySpec
<1>2. LanesInv => NoFrameLost BY DEF LanesInv
<1>3. QED BY <1>1, <1>2, PTL
=============================================================================
