------------------------------ MODULE MCParts ------------------------------
(***************************************************************************)
(* The parts of the page and of the server that touch no state of each     *)
(* other, side by side for TLC: `part' is the one that moves, the others   *)
(* stand still where they start, in states in which they have nothing to   *)
(* do.                                                                     *)
(***************************************************************************)
EXTENDS BlockWriter, SignalingLadder, PeerNegotiation, PeerPath, RelayLanes, WorkerPool,
        ResumeJournal, ProbeRace, JoinLimiter, BrowserTabs

CONSTANTS b1, b2, b3

MCBlocks == {b1, b2, b3}

\* Every combination of transports that a network lets through
MCNetworks == {{}, {"poll"}, {"sse", "poll"}, {"ws", "sse", "poll"}}

VARIABLE part

partsVars == <<part, vars, ladderVars, negotiationVars, pathVars, relayVars, poolVars, journalVars,
               probeVars, limiterVars, tabsVars>>

Parts == {"writer", "ladder", "peer", "path", "relay", "pool", "journal", "probe", "limiter",
          "tabs"}

\* What a part that does not move looks like
WriterIdle == Created("memory", "none", TRUE, FALSE) /\ Init
LadderIdle ==
  /\ client = [rung |-> "ws", state |-> "disconnected", ws |-> 0, sse |-> 0,
               socks |-> [i \in Sockets |-> Gone], tries |-> 0, retries |-> 0,
               reconnect |-> FALSE, heartbeat |-> FALSE, reattempt |-> FALSE, misses |-> 0,
               pinged |-> FALSE, destroyed |-> TRUE, fetching |-> 0, sleeping |-> 0]
  /\ network = {}
  /\ outages = 0
PathIdle == PathInit /\ role = "polite"
RelayIdle == RelayInit /\ main = [p \in Pages |-> "ws"]
PoolIdle ==
  PoolInit /\ jobs = [j \in Jobs |-> [phase |-> "idle", kind |-> "slice", chunks |-> "intact",
                                      given |-> "intact", worker |-> None, result |-> "unset"]]

PartsInit ==
  /\ part \in Parts
  /\ IF part = "writer" THEN Init ELSE WriterIdle
  /\ IF part = "ladder" THEN LadderInit ELSE LadderIdle
  /\ IF part = "path" THEN PathInit ELSE PathIdle
  /\ IF part = "relay" THEN RelayInit ELSE RelayIdle
  /\ IF part = "pool" THEN PoolInit ELSE PoolIdle
  /\ NegotiationInit /\ JournalInit /\ ProbeInit /\ LimiterInit /\ TabsInit

\* All parts but one stand still.
Others(mine) ==
  /\ part = mine
  /\ UNCHANGED part
  /\ IF mine = "writer" THEN TRUE ELSE UNCHANGED vars
  /\ IF mine = "ladder" THEN TRUE ELSE UNCHANGED ladderVars
  /\ IF mine = "peer" THEN TRUE ELSE UNCHANGED negotiationVars
  /\ IF mine = "path" THEN TRUE ELSE UNCHANGED pathVars
  /\ IF mine = "relay" THEN TRUE ELSE UNCHANGED relayVars
  /\ IF mine = "pool" THEN TRUE ELSE UNCHANGED poolVars
  /\ IF mine = "journal" THEN TRUE ELSE UNCHANGED journalVars
  /\ IF mine = "probe" THEN TRUE ELSE UNCHANGED probeVars
  /\ IF mine = "limiter" THEN TRUE ELSE UNCHANGED limiterVars
  /\ IF mine = "tabs" THEN TRUE ELSE UNCHANGED tabsVars

PartsNext ==
  \/ Others("writer") /\ Next
  \/ Others("ladder") /\ LadderNext
  \/ Others("peer") /\ NegotiationNext
  \/ Others("path") /\ PathNext
  \/ Others("relay") /\ RelayNext
  \/ Others("pool") /\ PoolNext
  \/ Others("journal") /\ JournalNext
  \/ Others("probe") /\ ProbeNext
  \/ Others("limiter") /\ LimiterNext
  \/ Others("tabs") /\ TabsNext

PartsSpec == PartsInit /\ [][PartsNext]_partsVars /\ Fairness /\ LadderFairness /\ PoolFairness

\* Every variable of every part has its type.
PartsTypeOK ==
  /\ LadderTypeOK /\ NegotiationTypeOK /\ PathTypeOK /\ RelayTypeOK /\ PoolTypeOK
  /\ JournalTypeOK /\ ProbeTypeOK /\ LimiterTypeOK /\ TabsTypeOK
=============================================================================
