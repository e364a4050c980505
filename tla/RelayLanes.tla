----------------------------- MODULE RelayLanes -----------------------------
(***************************************************************************)
(* The way of a file's frames over the server: the sending page puts them  *)
(* on one of its turbo lanes or its main socket, or posts them             *)
(* (web core/signaling/index.ts), the server passes each to a socket of    *)
(* the receiving page, or to its event stream or its polls (signaling      *)
(* index.ts and gateway/index.ts). Both pages are registered, so that      *)
(* verifyPeerSharing holds.                                                *)
(*                                                                         *)
(* A lane, or a connection, that is `cut' carries nothing any more, but    *)
(* neither end has been told. Which socket has the least in its buffer,    *)
(* and is taken for a frame, is left open.                                 *)
(***************************************************************************)
EXTENDS Naturals, Sequences

CONSTANTS
  Frames,       \* the frames of a file
  Lanes,        \* its turbo lanes: ensureTurboLanes(2)
  MaxQueue,     \* how many messages wait for a poll (1500)
  MaxCuts       \* bound: how often something is cut, or given up by the receiving page

ASSUME LanesAssumption == MaxQueue \in Nat \ {0} /\ MaxCuts \in Nat /\ "main" \notin Lanes

VARIABLES
  lane,        \* the turbo lanes of either page
  main,        \* what either page's connection to the server is: "none" until it is back
  mainCut,     \* the pages whose connection is cut
  binary,      \* binaryRelaySupported of the sending page
  frame,       \* where each frame is
  waiting,     \* pollQueue of the receiving page
  cuts,
  spoiled      \* history: something was cut, or too much waited for a poll

relayVars == <<lane, main, mainCut, binary, frame, waiting, cuts, spoiled>>

Pages == {"sender", "recipient"}
Place(at, via) == [at |-> at, via |-> via]
Unsent  == Place("page", "none")
Arrived == Place("arrived", "none")
Lost    == Place("lost", "none")
Vias == Lanes \cup {"main", "post", "none"}

RelayTypeOK ==
  /\ lane \in [Pages -> [Lanes -> {"none", "opening", "open", "cut"}]]
  /\ main \in [Pages -> {"ws", "sse", "poll", "none"}]
  /\ mainCut \subseteq Pages
  /\ binary \in BOOLEAN
  /\ frame \in [Frames -> [at : {"page", "up json", "up binary", "down", "waiting", "arrived", "lost"},
                           via : Vias]]
  /\ \A i \in DOMAIN waiting : waiting[i] \in Frames
  /\ Len(waiting) <= MaxQueue
  /\ cuts \in 0 .. MaxCuts
  /\ spoiled \in BOOLEAN

\* A page that polls has not seen that the server takes binary frames (pollLoop
\* does not look).
RelayInit ==
  /\ lane = [p \in Pages |-> [l \in Lanes |-> "none"]]
  /\ main \in [Pages -> {"ws", "sse", "poll"}]
  /\ mainCut = {}
  /\ binary = (main["sender"] # "poll")
  /\ frame = [f \in Frames |-> Unsent]
  /\ waiting = <<>>
  /\ cuts = 0
  /\ spoiled = FALSE

-----------------------------------------------------------------------------
\* The sockets of a page whose readyState is OPEN, and those of them that work
OpenLanes(p) ==
  {l \in Lanes : lane[p][l] \in {"open", "cut"}} \cup (IF main[p] = "ws" THEN {"main"} ELSE {})

Works(p, via) == IF via = "main" THEN p \notin mainCut ELSE lane[p][via] # "cut"

\* A frame is given to a connection of page p.
On(p, at, via) == IF Works(p, via) THEN Place(at, via) ELSE Lost

\* ensureTurboLanes
EnsureTurboLanes(p) == [lane EXCEPT ![p] = [l \in Lanes |-> IF @[l] = "none" THEN "opening" ELSE @[l]]]

OpensLanes(p) ==
  /\ p = "sender" => binary
  /\ main[p] # "none"
  /\ lane' = EnsureTurboLanes(p)
  /\ lane' # lane
  /\ UNCHANGED <<main, mainCut, binary, frame, waiting, cuts, spoiled>>

\* onopen at either end
LaneOpens(p, l) ==
  /\ lane[p][l] = "opening"
  /\ p \notin mainCut
  /\ lane' = [lane EXCEPT ![p][l] = "open"]
  /\ UNCHANGED <<main, mainCut, binary, frame, waiting, cuts, spoiled>>

\* sendBinaryRelay; without lanes or a socket, sendHttpTurboBurst; to a server that
\* takes no binary frames, an envelope
SendFrame(f) ==
  /\ frame[f] = Unsent
  /\ frame' \in
       IF ~binary THEN {[frame EXCEPT ![f] = IF main["sender"] = "none" THEN Lost ELSE On("sender", "up json", "main")]}
       ELSE IF OpenLanes("sender") # {}
       THEN {[frame EXCEPT ![f] = On("sender", "up binary", via)] : via \in OpenLanes("sender")}
       ELSE {[frame EXCEPT ![f] = IF "sender" \in mainCut THEN Lost ELSE Place("up binary", "post")]}
  /\ lane' = IF binary THEN EnsureTurboLanes("sender") ELSE lane
  /\ UNCHANGED <<main, mainCut, binary, waiting, cuts, spoiled>>

-----------------------------------------------------------------------------
\* sendDirect: over the connection that is registered for the page
SendDirect(f) ==
  CASE main["recipient"] \in {"ws", "sse"} ->
         /\ frame' = [frame EXCEPT ![f] = On("recipient", "down", "main")]
         /\ UNCHANGED <<waiting, spoiled>>
    [] main["recipient"] = "poll" ->
         LET queue == Append(waiting, f)
             full == Len(queue) > MaxQueue IN
         /\ waiting' = IF full THEN Tail(queue) ELSE queue
         /\ frame' = [g \in Frames |-> IF full /\ g = Head(queue) THEN Lost
                                       ELSE IF g = f THEN Place("waiting", "none") ELSE frame[g]]
         /\ spoiled' = (spoiled \/ full)
    [] main["recipient"] = "none" ->
         /\ frame' = [frame EXCEPT ![f] = Lost]
         /\ UNCHANGED <<waiting, spoiled>>

\* As SendBinaryToClient, pages without a socket being forgotten (a plausible bug).
SendBinaryOnly(f) ==
  /\ frame' \in IF OpenLanes("recipient") = {} THEN {[frame EXCEPT ![f] = Lost]}
                ELSE {[frame EXCEPT ![f] = On("recipient", "down", via)] : via \in OpenLanes("recipient")}
  /\ UNCHANGED <<waiting, spoiled>>

\* sendBinaryToClient: any open socket of the page, or else an envelope
SendBinaryToClient(f) ==
  IF OpenLanes("recipient") = {} THEN SendDirect(f)
  ELSE /\ frame' \in {[frame EXCEPT ![f] = On("recipient", "down", via)] : via \in OpenLanes("recipient")}
       /\ UNCHANGED <<waiting, spoiled>>

\* The server's handlers for a message of a socket, /api/message and
\* /api/turbo-relay
ServerRelays(f) ==
  /\ \/ frame[f].at = "up binary" /\ SendBinaryToClient(f)
     \/ frame[f].at = "up json" /\ SendDirect(f)
  /\ UNCHANGED <<lane, main, mainCut, binary, cuts>>

\* handleIncomingRaw, or an envelope of a stream or a poll
FrameArrives(f) ==
  /\ frame[f].at = "down"
  /\ frame' = [frame EXCEPT ![f] = Arrived]
  /\ UNCHANGED <<lane, main, mainCut, binary, waiting, cuts, spoiled>>

\* The next poll takes all that waits; it is over once the page has read it.
HandedOver(on) ==
  /\ waiting' = <<>>
  /\ frame' = [g \in Frames |-> IF frame[g].at = "waiting" THEN on ELSE frame[g]]

PollTakes ==
  /\ main["recipient"] = "poll"
  /\ "recipient" \notin mainCut
  /\ waiting # <<>>
  /\ HandedOver(Place("down", "main"))
  /\ UNCHANGED <<lane, main, mainCut, binary, cuts, spoiled>>

-----------------------------------------------------------------------------
\* What is on its way over a lane, or over a page's connection and the posts beside
\* it, is lost when that is cut.
OnItsWay(p) == IF p = "sender" THEN {"up json", "up binary"} ELSE {"down"}

CutOff(p, vias) ==
  /\ frame' = [f \in Frames |-> IF frame[f].at \in OnItsWay(p) /\ frame[f].via \in vias THEN Lost ELSE frame[f]]
  /\ cuts < MaxCuts
  /\ cuts' = cuts + 1
  /\ spoiled' = TRUE
  /\ UNCHANGED <<main, binary, waiting>>

LaneCut(p, l) ==
  /\ lane[p][l] = "open"
  /\ lane' = [lane EXCEPT ![p][l] = "cut"]
  /\ CutOff(p, {l})
  /\ UNCHANGED mainCut

ConnectionCut(p) ==
  /\ main[p] # "none" /\ p \notin mainCut
  /\ mainCut' = mainCut \cup {p}
  /\ CutOff(p, {"main", "post"})
  /\ UNCHANGED lane

\* onclose of a lane, at both ends
LaneClosed(p, l) ==
  /\ lane[p][l] = "cut"
  /\ lane' = [lane EXCEPT ![p][l] = "none"]
  /\ UNCHANGED <<main, mainCut, binary, frame, waiting, cuts, spoiled>>

\* The page gives its connection up: cleanupTransports closes the lanes with it,
\* and what is on them is lost. The server removes the connection, with what waits.
ConnectionLost(p) ==
  /\ p \in mainCut
  /\ mainCut' = mainCut \ {p}
  /\ main' = [main EXCEPT ![p] = "none"]
  /\ lane' = [lane EXCEPT ![p] = [l \in Lanes |-> "none"]]
  /\ frame' = [f \in Frames |->
       IF (frame[f].at \in OnItsWay(p) /\ frame[f].via \in Lanes)
            \/ (p = "recipient" /\ frame[f].at = "waiting") THEN Lost ELSE frame[f]]
  /\ waiting' = IF p = "recipient" THEN <<>> ELSE waiting
  /\ UNCHANGED <<binary, cuts, spoiled>>

\* It comes back over any rung, and is told what the server takes.
ConnectionBack(p) ==
  /\ main[p] = "none"
  /\ \E rung \in {"ws", "sse", "poll"} :
       /\ main' = [main EXCEPT ![p] = rung]
       /\ binary' = (binary \/ (p = "sender" /\ rung # "poll"))
  /\ UNCHANGED <<lane, mainCut, frame, waiting, cuts, spoiled>>

\* tryBackgroundWebSocketUpgrade: a socket takes the place of a page's stream or
\* polls. The receiving page closes those before the server has registered the
\* socket, to which it then sends what waits.
SenderSwitches ==
  /\ main["sender"] \in {"sse", "poll"}
  /\ main' = [main EXCEPT !["sender"] = "ws"]
  /\ mainCut' = mainCut \ {"sender"}
  /\ binary' = TRUE
  /\ UNCHANGED <<lane, frame, waiting, cuts, spoiled>>

RecipientSwitches ==
  /\ main["recipient"] \in {"sse", "poll"}
  /\ "recipient" \notin mainCut
  /\ mainCut' = mainCut \cup {"recipient"}
  /\ CutOff("recipient", {"main"})
  /\ UNCHANGED lane

SocketRegistered ==
  /\ main["recipient"] \in {"sse", "poll"}
  /\ "recipient" \in mainCut
  /\ main' = [main EXCEPT !["recipient"] = "ws"]
  /\ mainCut' = mainCut \ {"recipient"}
  /\ HandedOver(Place("down", "main"))
  /\ UNCHANGED <<lane, binary, cuts, spoiled>>

RelayNext ==
  \/ \E p \in Pages : OpensLanes(p) \/ ConnectionCut(p) \/ ConnectionLost(p) \/ ConnectionBack(p)
  \/ \E p \in Pages, l \in Lanes : LaneOpens(p, l) \/ LaneCut(p, l) \/ LaneClosed(p, l)
  \/ \E f \in Frames : SendFrame(f) \/ ServerRelays(f) \/ FrameArrives(f)
  \/ PollTakes \/ SenderSwitches \/ RecipientSwitches \/ SocketRegistered

RelaySpec == RelayInit /\ [][RelayNext]_relayVars

-----------------------------------------------------------------------------
\* Over whatever transports the two pages are connected, however many lanes are
\* open and whenever they open, no frame is lost until something is cut or too
\* much waits for a poll; what waits is what the queue holds.
NoFrameLost ==
  /\ ~spoiled => \A f \in Frames : frame[f] # Lost
  /\ \A f \in Frames : frame[f].at = "waiting" <=> \E i \in DOMAIN waiting : waiting[i] = f
=============================================================================
