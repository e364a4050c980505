----------------------------- MODULE ProbeRace -----------------------------
(***************************************************************************)
(* The races of the network probe (web core/discovery/index.ts):           *)
(* raceIpv4Echo and raceIpv6Echo ask several services for the page's       *)
(* address and take the first good answer, gatherIceNetworkIps collects    *)
(* addresses until the browser has no more. Each has a timer. The services *)
(* and the browser are external.                                           *)
(***************************************************************************)
EXTENDS Naturals, FiniteSets

CONSTANTS
  Endpoints,     \* the services asked
  Candidates     \* addresses the browser may find

NoIp == "null"

ASSUME ProbeAssumption ==
  /\ IsFiniteSet(Endpoints) /\ IsFiniteSet(Candidates)
  /\ {NoIp, "unset"} \cap Endpoints = {}

VARIABLES
  fetches,     \* what became of each request, and how far its promise is handled
  race,        \* [settled, pending, value, timer, late] of the race
  gather       \* [settled, found, taken, timer, ended] of the gathering

probeVars == <<fetches, race, gather>>

ProbeTypeOK ==
  /\ fetches \in [Endpoints -> [answer : {"none", "ip", "junk"}, step : {"out", "then", "finally", "over"}]]
  /\ race \in [settled : BOOLEAN, pending : 0 .. Cardinality(Endpoints),
               value : Endpoints \cup {NoIp, "unset"}, timer : BOOLEAN, late : BOOLEAN]
  /\ gather \in [settled : BOOLEAN, found : SUBSET Candidates, taken : SUBSET Candidates,
                 timer : BOOLEAN, ended : BOOLEAN]

ProbeInit ==
  /\ fetches = [e \in Endpoints |-> [answer |-> "none", step |-> "out"]]
  /\ race = [settled |-> FALSE, pending |-> Cardinality(Endpoints), value |-> "unset",
             timer |-> TRUE, late |-> FALSE]
  /\ gather = [settled |-> FALSE, found |-> {}, taken |-> {}, timer |-> TRUE, ended |-> FALSE]

-----------------------------------------------------------------------------
\* The race is decided, unless it was.
Settle(value) ==
  race' = IF race.settled THEN race
          ELSE [race EXCEPT !.settled = TRUE, !.value = value, !.timer = FALSE]

\* fetchIpWithTimeout: an address, or null for an error, its own timeout, and for
\* what is no address.
Answer(e) ==
  /\ fetches[e].step = "out"
  /\ \E answer \in {"ip", "junk"} : fetches' = [fetches EXCEPT ![e] = [answer |-> answer, step |-> "then"]]
  /\ UNCHANGED <<race, gather>>

\* The promise's `then', and, after others may have run, its `finally'
Take(e) ==
  /\ fetches[e].step = "then"
  /\ fetches' = [fetches EXCEPT ![e].step = "finally"]
  /\ IF fetches[e].answer = "ip" THEN Settle(e) ELSE UNCHANGED race
  /\ UNCHANGED gather

\* As NoneLeft, one too early (a plausible bug).
OneLeft(pending) == pending <= 1

\* Every endpoint was heard.
NoneLeft(pending) == pending <= 0

Count(e) ==
  /\ fetches[e].step = "finally"
  /\ fetches' = [fetches EXCEPT ![e].step = "over"]
  /\ LET left == race.pending - 1 IN
     race' = IF NoneLeft(left) /\ ~race.settled
             THEN [race EXCEPT !.pending = left, !.settled = TRUE, !.value = NoIp, !.timer = FALSE]
             ELSE [race EXCEPT !.pending = left]
  /\ UNCHANGED gather

RaceTimesOut ==
  /\ race.timer
  /\ race' = IF race.settled THEN [race EXCEPT !.timer = FALSE]
             ELSE [race EXCEPT !.timer = FALSE, !.settled = TRUE, !.value = NoIp, !.late = TRUE]
  /\ UNCHANGED <<fetches, gather>>

-----------------------------------------------------------------------------
\* onicecandidate: an address that counts, or the end of the candidates. What
\* comes after finish() is not seen by anyone.
Candidate(ip) ==
  /\ ~gather.ended
  /\ ip \notin gather.found
  /\ gather' = [gather EXCEPT !.found = @ \cup {ip}]
  /\ UNCHANGED <<fetches, race>>

Finished(g) == IF g.settled THEN g ELSE [g EXCEPT !.settled = TRUE, !.taken = g.found]

NoMoreCandidates ==
  /\ ~gather.ended /\ ~gather.settled
  /\ gather' = [Finished(gather) EXCEPT !.ended = TRUE, !.timer = FALSE]
  /\ UNCHANGED <<fetches, race>>

GatherTimesOut ==
  /\ gather.timer
  /\ gather' = [Finished(gather) EXCEPT !.timer = FALSE, !.ended = TRUE]
  /\ UNCHANGED <<fetches, race>>

ProbeNext ==
  \/ \E e \in Endpoints : Answer(e) \/ Take(e) \/ Count(e)
  \/ RaceTimesOut
  \/ \E ip \in Candidates : Candidate(ip)
  \/ NoMoreCandidates
  \/ GatherTimesOut

ProbeSpec == ProbeInit /\ [][ProbeNext]_probeVars

-----------------------------------------------------------------------------
\* The probe does without an address only when no service gave one in time, in
\* whatever order the answers, their `then' and their `finally' come: a page that
\* misses its address joins the wrong local group.
NullOnlyIfNone ==
  race.value = NoIp /\ ~race.late => \A e \in Endpoints : fetches[e].answer # "ip"
=============================================================================
