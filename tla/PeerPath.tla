------------------------------ MODULE PeerPath ------------------------------
(***************************************************************************)
(* What a page does while the connection to a peer comes up, drops and     *)
(* fails: ConnectionLadderOrchestrator (web core/path/index.ts) with the   *)
(* handler, the grace timer and the poll of statistics of PeerSession      *)
(* (core/peer/index.ts). The browser moves the state of the connection;    *)
(* PeerNegotiation says what becomes of a restart.                         *)
(***************************************************************************)
EXTENDS Naturals

CONSTANT Politeness     \* the roles a page may have

ASSUME PolitenessAssumption == Politeness \subseteq {"polite", "impolite"}

VARIABLES
  ice,       \* pc.connectionState
  path,      \* the fields of the orchestrator
  polling,   \* getStats() was asked while connected, and has not answered
  grace,     \* disconnectTimer
  asked,     \* restartIce() was called since the connection was last connected
  role,
  again      \* history: the connection came up after the relay had taken over

pathVars == <<ice, path, polling, grace, asked, role, again>>

Direct == {"direct_lan", "direct_wan"}
Relays == {"turn_relay", "server_relay"}

PathTypeOK ==
  /\ ice \in {"new", "connecting", "connected", "disconnected", "failed"}
  /\ path \in [status : {"connecting", "connected", "reconnecting", "failed"},
               type : Direct \cup Relays, relay : BOOLEAN, timer : BOOLEAN, checker : BOOLEAN]
  /\ {polling, grace, asked, again} \subseteq BOOLEAN
  /\ role \in Politeness

\* attachPeerSession
PathInit ==
  /\ ice = "new"
  /\ path = [status |-> "connecting", type |-> "direct_lan", relay |-> FALSE, timer |-> TRUE,
             checker |-> FALSE]
  /\ polling = FALSE /\ grace = FALSE /\ asked = FALSE /\ again = FALSE
  /\ role \in Politeness

-----------------------------------------------------------------------------
\* As StartServerRelayFallback, the badge being left to the statistics (a plausible
\* bug).
RelayWithoutBadge(p) ==
  [p EXCEPT !.relay = TRUE, !.status = "connected", !.checker = TRUE]

StartServerRelayFallback(p) ==
  [p EXCEPT !.relay = TRUE, !.type = "server_relay", !.status = "connected", !.checker = TRUE]

\* handlePeerConnectionState
PeerConnectionState(p, state) ==
  CASE state = "connected"    -> [p EXCEPT !.timer = FALSE, !.status = "connected", !.checker = TRUE]
    [] state = "disconnected" -> [p EXCEPT !.status = "reconnecting"]
    [] state = "failed"       -> IF p.relay THEN [p EXCEPT !.status = "failed"]
                                 ELSE StartServerRelayFallback(p)
    [] OTHER                  -> p

\* How the browser may move the connection: by itself, or once a restart goes
\* through.
Moves(from) ==
  CASE from = "new"          -> {"connecting"}
    [] from = "connecting"   -> {"connected", "failed"}
    [] from = "connected"    -> {"disconnected"}
    [] from = "disconnected" -> {"connected", "failed"} \cup (IF asked THEN {"connecting"} ELSE {})
    [] from = "failed"       -> IF asked THEN {"connecting"} ELSE {}

\* onconnectionstatechange. A connection takes seconds to fail, statistics answer
\* before.
ConnectionStateChange ==
  \E state \in Moves(ice) :
    /\ state = "failed" => ~polling
    /\ ice' = state
    /\ path' = PeerConnectionState(path, state)
    /\ grace' = ((grace /\ state # "connected") \/ state = "disconnected")
    /\ asked' = ((asked /\ state # "connected") \/ state = "failed")
    /\ again' = (again \/ (state = "connected" /\ path.relay))
    /\ UNCHANGED <<polling, role>>

\* ICE_DISCONNECTED_GRACE_MS: one of the two ends asks for a restart.
GraceOver ==
  /\ grace
  /\ grace' = FALSE
  /\ asked' = (asked \/ (ice = "disconnected" /\ role = "impolite"))
  /\ UNCHANGED <<ice, path, polling, role, again>>

\* ICE_CONNECTING_MAX_MS
ConnectingTimeout ==
  /\ path.timer
  /\ path' = IF path.status = "connecting"
             THEN [StartServerRelayFallback(path) EXCEPT !.timer = FALSE]
             ELSE [path EXCEPT !.timer = FALSE]
  /\ UNCHANGED <<ice, polling, grace, asked, role, again>>

\* startStatsPoller, up to the statistics it waits for, and handlePathStats
AskStats ==
  /\ ice = "connected"
  /\ ~polling
  /\ polling' = TRUE
  /\ UNCHANGED <<ice, path, grace, asked, role, again>>

PathStats ==
  /\ polling
  /\ polling' = FALSE
  /\ \E type \in Direct \cup {"turn_relay"} : path' = [path EXCEPT !.type = type]
  /\ UNCHANGED <<ice, grace, asked, role, again>>

\* startBackgroundUpgradeChecker, every 60 s
UpgradeCheck ==
  /\ path.checker
  /\ path.type \in Relays
  /\ asked' = TRUE
  /\ UNCHANGED <<ice, path, polling, grace, role, again>>

PathNext ==
  ConnectionStateChange \/ GraceOver \/ ConnectingTimeout \/ AskStats \/ PathStats \/ UpgradeCheck

PathSpec == PathInit /\ [][PathNext]_pathVars

-----------------------------------------------------------------------------
\* core/path/index.ts:88-91: while frames go over the server because the
\* connection to the peer is lost or never came up, the page takes that for its
\* path and keeps asking for a restart, so that it does not stay on the server for
\* good. From the second loss on (`again') it may not: isServerRelayActive is never
\* reset, and the fallback is not started anew.
RelayKeepsRetrying ==
  ice = "failed" /\ ~again => path.checker /\ path.type \in Relays
=============================================================================
