-------------------------- MODULE SignalingLadder --------------------------
(***************************************************************************)
(* SignalingLadderClient (web core/signaling/index.ts): a page holds on to *)
(* the signaling server over a WebSocket, else an event stream, else       *)
(* polls. Attempts, sockets that are closing, timers and a heartbeat run   *)
(* side by side and call the same few methods, so each method is an        *)
(* operator from the client's fields, c, to their next value.              *)
(*                                                                         *)
(* A socket or stream is `opening', `open' or `closing' (its close event   *)
(* is still to come); `settled' is the flag of its attempt, which no       *)
(* longer listens once it is set. c.ws and c.sse are the ones the client   *)
(* holds, 0 for none: an attempt that is overtaken by another goes on.     *)
(***************************************************************************)
EXTENDS Naturals, FiniteSets

CONSTANTS
  Sockets,      \* numbers of sockets and streams, from 1
  MaxMisses,    \* HEARTBEAT_MAX_MISSES
  Networks,     \* what may get through to the server: sets of transports
  MaxOutages,   \* how often the network changes for the worse
  MayDestroy,   \* whether the client is ever destroyed
  Timely        \* events come before the timers that are set for their absence

ASSUME LadderAssumption ==
  /\ Sockets \subseteq Nat \ {0} /\ 1 \in Sockets
  /\ MaxMisses \in Nat \ {0}
  /\ Networks \subseteq SUBSET {"ws", "sse", "poll"}
  /\ MaxOutages \in Nat
  /\ MayDestroy \in BOOLEAN
  /\ Timely \in BOOLEAN

VARIABLES
  client,     \* the fields of the client
  network,    \* the transports that get through to the server
  outages     \* how often that changed for the worse

ladderVars == <<client, network, outages>>

Transports == {"ws", "sse", "poll"}
Gone == [kind |-> "none", phase |-> "gone", settled |-> TRUE]
Opening(kind) == [kind |-> kind, phase |-> "opening", settled |-> kind = "upgrade"]

LadderTypeOK ==
  /\ client.rung \in Transports
  /\ client.state \in {"disconnected", "connecting", "connected"}
  /\ {client.ws, client.sse} \subseteq Sockets \cup {0}
  /\ \A i \in Sockets : client.socks[i] \in
       [kind : {"none", "ws", "upgrade", "sse"}, phase : {"gone", "opening", "open", "closing"},
        settled : BOOLEAN]
  /\ client.tries \in 0 .. 1 /\ client.retries \in Nat /\ client.misses \in 0 .. MaxMisses
  /\ {client.reconnect, client.heartbeat, client.reattempt, client.pinged, client.destroyed}
       \subseteq BOOLEAN
  /\ client.fetching \in Nat /\ client.sleeping \in Nat
  /\ network \in Networks
  /\ outages \in 0 .. MaxOutages

LadderInit ==
  /\ client = [rung |-> "ws", state |-> "connecting", ws |-> 1, sse |-> 0,
               socks |-> [i \in Sockets |-> IF i = 1 THEN Opening("ws") ELSE Gone],
               tries |-> 0, retries |-> 0, reconnect |-> FALSE, heartbeat |-> FALSE,
               reattempt |-> FALSE, misses |-> 0, pinged |-> FALSE, destroyed |-> FALSE,
               fetching |-> 0, sleeping |-> 0]
  /\ network \in Networks
  /\ outages = 0

-----------------------------------------------------------------------------
\* close() of a socket: its close event is still to come. A stream has none.
Shut(c, i) ==
  IF i = 0 THEN c
  ELSE [c EXCEPT !.socks[i] = IF @.kind = "sse" THEN Gone
                              ELSE IF @.phase = "gone" THEN Gone
                              ELSE [@ EXCEPT !.phase = "closing"]]

\* cleanupTransports: what the client holds is closed, a poll that waits is
\* aborted and its loop ends.
CleanupTransports(c) ==
  [Shut(Shut(c, c.ws), c.sse) EXCEPT !.ws = 0, !.sse = 0, !.heartbeat = FALSE,
                                     !.pinged = FALSE, !.fetching = 0]

ScheduleReconnect(c) == [c EXCEPT !.reconnect = @ \/ ~c.destroyed]

\* onConnected, with startHeartbeat and startRungReattemptTimer
OnConnected(c, rung) ==
  [c EXCEPT !.state = "connected", !.rung = rung, !.misses = 0, !.heartbeat = TRUE,
            !.pinged = TRUE, !.reattempt = TRUE]

\* As OnConnectionLost, no reconnection being scheduled (a plausible bug).
OnConnectionLostIdle(c) == CleanupTransports([c EXCEPT !.state = "disconnected"])

OnConnectionLost(c) ==
  ScheduleReconnect(CleanupTransports([c EXCEPT !.state = "disconnected"]))

\* connect: a new attempt, whatever other one is under way. The number of the
\* socket is the first that is free.
Free(c) == {i \in Sockets : c.socks[i] = Gone /\ \A j \in Sockets : j < i => c.socks[j] # Gone}

Attempt(c, kind, i) == [c EXCEPT !.socks[i] = Opening(kind)]

Dials(c) ==
  IF c.destroyed THEN {c}
  ELSE CASE c.rung = "ws"   -> {[Attempt(c, "ws", i) EXCEPT !.state = "connecting", !.ws = i] : i \in Free(c)}
         [] c.rung = "sse"  -> {[Attempt(c, "sse", i) EXCEPT !.state = "connecting", !.sse = i] : i \in Free(c)}
         [] c.rung = "poll" -> {[OnConnected(c, "poll") EXCEPT !.fetching = @ + 1]}

\* handleRungFailure: the first failure of a socket is followed by a retry 600 ms
\* later, the second by the next rung.
RungFailures(c) ==
  LET idle == CleanupTransports(c) IN
  CASE c.rung = "ws" /\ c.tries = 0 -> {[idle EXCEPT !.tries = 1, !.retries = @ + 1]}
    [] c.rung = "ws" /\ c.tries # 0 -> Dials([idle EXCEPT !.tries = 0, !.rung = "sse"])
    [] c.rung = "sse"               -> Dials([idle EXCEPT !.rung = "poll"])
    [] c.rung = "poll"              -> {ScheduleReconnect([idle EXCEPT !.rung = "ws"])}

\* The attempt of i is over, if it was not: its promise is rejected.
Rejections(c, i) ==
  IF c.socks[i].settled THEN {c} ELSE RungFailures([c EXCEPT !.socks[i].settled = TRUE])

\* onclose of a socket: the client takes it for the loss of its connection,
\* whichever socket it holds.
Closed(c, i) ==
  LET rid == [c EXCEPT !.socks[i] = Gone, !.ws = IF @ = i THEN 0 ELSE @] IN
  IF c.socks[i].settled /\ ~c.destroyed /\ c.rung = "ws" THEN OnConnectionLost(rid) ELSE rid

-----------------------------------------------------------------------------
Sock(i) == client.socks[i]
Through(i) == (IF Sock(i).kind = "sse" THEN "sse" ELSE "ws") \in network

\* The transport the client sends on is open.
Live ==
  CASE client.rung = "ws"   -> client.ws # 0 /\ Sock(client.ws).phase = "open"
    [] client.rung = "sse"  -> client.sse # 0 /\ Sock(client.sse).phase = "open"
    [] client.rung = "poll" -> client.fetching + client.sleeping > 0

Answered == Live /\ client.rung \in network

\* onopen of a socket or stream
Opens(i) ==
  /\ Sock(i).phase = "opening"
  /\ Sock(i).kind # "upgrade"
  /\ Through(i)
  /\ LET opened == [client EXCEPT !.socks[i].phase = "open", !.socks[i].settled = TRUE] IN
     client' = IF Sock(i).settled THEN opened
               ELSE IF Sock(i).kind = "sse" THEN OnConnected(opened, "sse")
               ELSE OnConnected([opened EXCEPT !.tries = 0], "ws")
  /\ UNCHANGED <<network, outages>>

\* onopen of the socket of tryBackgroundWebSocketUpgrade: it takes the place of
\* the stream or the polls.
Upgraded(i) ==
  /\ Sock(i).phase = "opening"
  /\ Sock(i).kind = "upgrade"
  /\ Through(i)
  /\ client' = IF client.destroyed THEN [client EXCEPT !.socks[i].phase = "closing"]
               ELSE OnConnected([Shut(client, client.sse) EXCEPT
                      !.sse = 0, !.fetching = 0, !.ws = i, !.socks[i].phase = "open"], "ws")
  /\ UNCHANGED <<network, outages>>

\* The upgrade fails, or takes more than 5 s.
UpgradeFails(i) ==
  /\ Sock(i).phase = "opening"
  /\ Sock(i).kind = "upgrade"
  /\ Timely => ~Through(i)
  /\ client' = [client EXCEPT !.socks[i] = Gone]
  /\ UNCHANGED <<network, outages>>

\* An attempt fails: onerror, what follows from the rejection, and onclose.
Fails(i) ==
  /\ Sock(i).phase = "opening"
  /\ Sock(i).kind = "ws"
  /\ ~Through(i)
  /\ \E c \in Rejections(client, i) : client' = Closed(c, i)
  /\ UNCHANGED <<network, outages>>

\* A socket that is closing is closed; one that never opened fails.
CloseEvent(i) ==
  /\ Sock(i).phase = "closing"
  /\ \E c \in Rejections(client, i) : client' = Closed(c, i)
  /\ UNCHANGED <<network, outages>>

\* An open socket is closed from the other side, or by the network.
Breaks(i) ==
  /\ Sock(i).phase = "open"
  /\ Sock(i).kind # "sse"
  /\ ~Through(i)
  /\ client' = Closed([client EXCEPT !.socks[i].settled = TRUE], i)
  /\ UNCHANGED <<network, outages>>

\* onerror of a stream. One that had opened tries again of its own accord,
\* unless it is closed.
StreamFails(i) ==
  /\ Sock(i).kind = "sse"
  /\ Sock(i).phase \in {"opening", "open"}
  /\ ~Through(i)
  /\ LET off == [client EXCEPT !.socks[i].phase = "opening"] IN
     client' \in IF ~Sock(i).settled THEN Rejections(client, i)
                 ELSE IF ~client.destroyed /\ client.rung = "sse" THEN {OnConnectionLost(off)}
                 ELSE {off}
  /\ UNCHANGED <<network, outages>>

\* WS_CONNECT_TIMEOUT_MS is over: the attempt fails, and what the client holds
\* is closed, be it of another attempt.
TimesOut(i) ==
  /\ Sock(i).phase = "opening"
  /\ Sock(i).kind # "upgrade"
  /\ ~Sock(i).settled
  /\ Timely => ~Through(i)
  /\ \E c \in RungFailures(Shut([client EXCEPT !.socks[i].settled = TRUE],
                                IF Sock(i).kind = "sse" THEN client.sse ELSE client.ws)) :
       client' = c
  /\ UNCHANGED <<network, outages>>

-----------------------------------------------------------------------------
\* The outcome of an attempt or of a close() is on its way, or a poll sleeps.
Underway ==
  \/ client.sleeping > 0
  \/ \E i \in Sockets : Sock(i).phase = "closing" \/ (Sock(i).phase = "opening" /\ ~Sock(i).settled)

\* The timer of handleRungFailure
RetryFires ==
  /\ client.retries > 0
  /\ Timely => ~Underway
  /\ client' \in Dials([client EXCEPT !.retries = @ - 1])
  /\ UNCHANGED <<network, outages>>

\* reconnectTimer
ReconnectFires ==
  /\ client.reconnect
  /\ Timely => ~Underway /\ (client.retries = 0 \/ client.tries > 0)
  /\ client' \in Dials([client EXCEPT !.reconnect = FALSE, !.rung = "ws"])
  /\ UNCHANGED <<network, outages>>

\* heartbeatTimer: a heartbeat counts as missed until its answer comes.
Heartbeat ==
  /\ client.heartbeat
  /\ client.state = "connected"
  /\ Timely => ~Underway /\ client.retries = 0 /\ ~(client.pinged /\ Answered)
  /\ LET missed == [client EXCEPT !.misses = @ + 1, !.pinged = TRUE] IN
     client' = IF missed.misses >= MaxMisses THEN OnConnectionLost(missed) ELSE missed
  /\ UNCHANGED <<network, outages>>

\* A pong: over a socket or a stream handleIncomingRaw forgets the misses, what
\* comes with a poll does not pass there.
ForgetsMisses(rung) == rung # "poll"

Pong ==
  /\ client.pinged
  /\ Answered
  /\ client' = [client EXCEPT !.pinged = FALSE, !.misses = IF ForgetsMisses(client.rung) THEN 0 ELSE @]
  /\ UNCHANGED <<network, outages>>

\* As Reattempt, while the client polls alone (a plausible bug).
ReattemptPolls ==
  /\ client.rung = "poll"
  /\ client.state = "connected"
  /\ \E i \in Free(client) : client' = Attempt(client, "upgrade", i)
  /\ UNCHANGED <<network, outages>>

\* rungReattemptTimer
Reattempt ==
  /\ client.reattempt
  /\ Timely => \A i \in Sockets : ~(Sock(i).kind = "upgrade" /\ Sock(i).phase = "opening")
  /\ client.rung # "ws"
  /\ client.state = "connected"
  /\ ~client.destroyed
  /\ \E i \in Free(client) : client' = Attempt(client, "upgrade", i)
  /\ UNCHANGED <<network, outages>>

\* pollLoop: it goes on while the client is connected by polls, and sleeps 800 ms
\* after a poll that failed.
Polls == ~client.destroyed /\ client.rung = "poll" /\ client.state = "connected"

PollFails ==
  /\ client.fetching > 0
  /\ "poll" \notin network
  /\ client' = [client EXCEPT !.fetching = @ - 1, !.sleeping = IF client.rung = "poll" THEN @ + 1 ELSE @]
  /\ UNCHANGED <<network, outages>>

PollWakes ==
  /\ client.sleeping > 0
  /\ client' = [client EXCEPT !.sleeping = @ - 1, !.fetching = IF Polls THEN @ + 1 ELSE @]
  /\ UNCHANGED <<network, outages>>

PollEnds ==
  /\ client.fetching > 0
  /\ ~Polls
  /\ client' = [client EXCEPT !.fetching = @ - 1]
  /\ UNCHANGED <<network, outages>>

Destroy ==
  /\ MayDestroy
  /\ ~client.destroyed
  /\ client' = [CleanupTransports(client) EXCEPT !.destroyed = TRUE, !.reconnect = FALSE,
                                                 !.reattempt = FALSE, !.state = "disconnected"]
  /\ UNCHANGED <<network, outages>>

\* The network lets fewer transports through, or more.
Outage ==
  /\ outages < MaxOutages
  /\ network' \in {n \in Networks : ~(network \subseteq n)}
  /\ outages' = outages + 1
  /\ UNCHANGED client

Recovery ==
  /\ network' \in {n \in Networks : network \subseteq n /\ network # n}
  /\ UNCHANGED <<client, outages>>

SocketEvent(i) ==
  \/ Opens(i) \/ Upgraded(i) \/ UpgradeFails(i) \/ Fails(i) \/ CloseEvent(i) \/ Breaks(i)
  \/ StreamFails(i) \/ TimesOut(i)

Polling == PollFails \/ PollWakes \/ PollEnds

LadderNext ==
  \/ \E i \in Sockets : SocketEvent(i)
  \/ RetryFires \/ ReconnectFires \/ Heartbeat \/ Pong \/ Reattempt
  \/ PollFails \/ PollWakes \/ PollEnds
  \/ Destroy \/ Outage \/ Recovery

\* Events come and timers fire.
LadderFairness ==
  /\ \A i \in Sockets : WF_ladderVars(SocketEvent(i))
  /\ WF_ladderVars(RetryFires) /\ WF_ladderVars(ReconnectFires) /\ WF_ladderVars(Heartbeat)
  /\ WF_ladderVars(Reattempt) /\ WF_ladderVars(Pong) /\ WF_ladderVars(Polling)

LadderSpec == LadderInit /\ [][LadderNext]_ladderVars /\ LadderFairness

-----------------------------------------------------------------------------
\* The client never stands still: unless it was destroyed, it has an attempt that
\* is not over, a timer for the next one, or a heartbeat that will find out.
Awaited(i) == Sock(i).kind # "upgrade" /\ Sock(i).phase \in {"opening", "closing"} /\ ~Sock(i).settled

NeverStranded ==
  \/ client.destroyed
  \/ client.reconnect \/ client.retries > 0
  \/ \E i \in Sockets : Awaited(i)
  \/ client.state = "connected" /\ client.heartbeat

\* Once sockets get through to the server again, the client is in the end
\* connected and stays so, over a socket unless no number is left for one,
\* whatever attempts ran side by side before.
BackOnSocket ==
  <>[]("ws" \in network /\ ~client.destroyed) =>
    <>[](client.state = "connected" /\ Live /\ (client.rung = "ws" \/ Free(client) = {}))
=============================================================================
