-------------------------- MODULE PeerNegotiation --------------------------
(***************************************************************************)
(* PeerSession (web core/peer/index.ts): the two ends of a peer connection *)
(* agree on one description by `perfect negotiation'. Each end makes       *)
(* offers when the browser asks for one and when the service wants to      *)
(* send, answers those of the other end, and gives way (the polite one,    *)
(* whose id is the smaller) or not when two offers cross.                  *)
(*                                                                         *)
(* The browser's RTCPeerConnection is external. It runs the operations of  *)
(* a connection one at a time, in the order of their calls (`ops'), while  *)
(* the code goes on to handle events and signals between two of them.      *)
(*                                                                         *)
(*   sig      signalingState: stable, or an offer of ours or theirs is     *)
(*            pending (`offer' is its number)                              *)
(*   need     what the next negotiation is for; `fired': the browser has   *)
(*            asked for it; `offered': what our pending offer covers       *)
(*   agreed   the number of the last offer that was answered               *)
(*   queue    candidates that came before the description they belong to   *)
(***************************************************************************)
EXTENDS Naturals, Sequences, FiniteSets

CONSTANTS
  MaxOffers,     \* how many offers are made in all
  MaxKicks       \* how often the service asks for a negotiation or ICE is restarted

ASSUME NegotiationAssumption ==
  /\ MaxOffers \in Nat \ {0}
  /\ MaxKicks \in Nat

Ends == {"polite", "impolite"}
Other(p) == IF p = "polite" THEN "impolite" ELSE "polite"

VARIABLES
  pc,         \* the connection and the flags of the session at each end
  wire,       \* signals on their way to each end
  offers,     \* how many offers were made
  kicks,      \* calls of the service and restarts so far
  crossed     \* history: two offers crossed in a way the code has no answer to

negotiationVars == <<pc, wire, offers, kicks, crossed>>

Operations == {"negotiate", "create", "offer", "rollback", "remote", "answer", "add"}
Signals == [type : {"offer", "answer", "candidate"}, id : 1 .. MaxOffers, restart : BOOLEAN]

NegotiationTypeOK ==
  /\ \A p \in Ends :
       /\ pc[p].sig \in {"stable", "local", "remote"}
       /\ \A i \in DOMAIN pc[p].ops : pc[p].ops[i].op \in Operations
       /\ pc[p].ops # <<>> /\ Head(pc[p].ops).op = "answer" => pc[p].sig = "remote"
       /\ {pc[p].making, pc[p].fired, pc[p].has, pc[p].answering, pc[p].open, pc[p].started}
            \subseteq BOOLEAN
       /\ {pc[p].need, pc[p].offered} \subseteq SUBSET {"channels", "restart"}
       /\ {pc[p].offer, pc[p].agreed} \subseteq 0 .. MaxOffers
       /\ {pc[p].queue, pc[p].added} \subseteq SUBSET (1 .. MaxOffers)
       /\ \A i \in DOMAIN wire[p] : wire[p][i] \in Signals
  /\ offers \in 0 .. MaxOffers
  /\ kicks \in 0 .. MaxKicks
  /\ crossed \in BOOLEAN

NewSession ==
  [sig |-> "stable", ops |-> <<>>, making |-> FALSE, need |-> {"channels"}, fired |-> FALSE,
   offered |-> {}, offer |-> 0, agreed |-> 0, has |-> FALSE, answering |-> FALSE,
   queue |-> {}, added |-> {}, open |-> FALSE, started |-> FALSE]

NegotiationInit ==
  /\ pc = [p \in Ends |-> NewSession]
  /\ wire = [p \in Ends |-> <<>>]
  /\ offers = 0
  /\ kicks = 0
  /\ crossed = FALSE

-----------------------------------------------------------------------------
Op(op) == [op |-> op]
Then(c, op) == [c EXCEPT !.ops = Append(@, op)]
Popped(c) == [c EXCEPT !.ops = Tail(@)]

\* Back in `stable': the browser asks anew for what is still needed.
Settled(c, met) == [c EXCEPT !.sig = "stable", !.offer = 0, !.fired = FALSE, !.need = @ \ met]

\* restartIce()
RestartIce(c) ==
  [c EXCEPT !.need = IF c.agreed > 0 \/ c.sig = "local" THEN @ \cup {"restart"} ELSE @]

\* A description is sent, and the candidates that are gathered for it.
Signal(p, type, id, restart) ==
  wire' = [wire EXCEPT ![Other(p)] =
    @ \o <<[type |-> type, id |-> id, restart |-> restart],
           [type |-> "candidate", id |-> id, restart |-> FALSE]>>]

-----------------------------------------------------------------------------
\* onnegotiationneeded
NegotiationNeeded(p) ==
  /\ pc[p].sig = "stable"
  /\ pc[p].ops = <<>>
  /\ pc[p].need # {}
  /\ ~pc[p].fired
  /\ pc' = [pc EXCEPT ![p] =
       LET asked == [@ EXCEPT !.fired = TRUE] IN
       IF asked.making THEN asked ELSE Then([asked EXCEPT !.making = TRUE], Op("negotiate"))]
  /\ UNCHANGED <<wire, offers, kicks, crossed>>

\* ensureNegotiationStarted, up to the offer it waits for
Ensured(c, restarts) ==
  IF c.making \/ c.open \/ c.sig # "stable" THEN c
  ELSE Then([(IF restarts THEN RestartIce(c) ELSE c) EXCEPT !.making = TRUE], Op("create"))

\* The constructor: the impolite end starts at once, the polite one 800 ms later if
\* nothing has come; by then the browser has asked for a negotiation.
Starts(p) ==
  /\ ~pc[p].started
  /\ p = "polite" => pc[p].fired \/ pc[p].need = {} \/ pc[p].sig # "stable"
  /\ pc' = [pc EXCEPT ![p] =
       LET begun == [@ EXCEPT !.started = TRUE] IN
       IF p = "impolite" \/ (begun.sig = "stable" /\ ~begun.has)
       THEN Ensured(begun, FALSE) ELSE begun]
  /\ UNCHANGED <<wire, offers, kicks, crossed>>

\* The service calls it while no channel is open; it restarts ICE when a
\* connection is neither up nor coming up.
Kick(p) ==
  /\ kicks < MaxKicks
  /\ \E restarts \in BOOLEAN : pc' = [pc EXCEPT ![p] = Ensured(@, restarts /\ @.agreed > 0)]
  /\ pc' # pc
  /\ kicks' = kicks + 1
  /\ UNCHANGED <<wire, offers, crossed>>

\* triggerIceRestart: the connection failed, the grace of a disconnected one is
\* over, or the path orchestrator tries for a better path.
Restart(p) ==
  /\ kicks < MaxKicks
  /\ pc[p].agreed > 0
  /\ pc' = [pc EXCEPT ![p] = RestartIce(@)]
  /\ kicks' = kicks + 1
  /\ UNCHANGED <<wire, offers, crossed>>

-----------------------------------------------------------------------------
\* handleSignal. Whether an offer collides is decided when it comes.
Collides(c) == c.making \/ c.sig # "stable"

\* As Ignores, the end with the smaller id taken for the impolite one at both ends
\* (a plausible bug).
IgnoresBoth(p, c) == Collides(c)

\* Which end stands by its own offer
Ignores(p, c) == p = "impolite" /\ Collides(c)

ReceiveOffer(p, m) ==
  LET c == pc[p]
      remote == [op |-> "remote", type |-> "offer", id |-> m.id, restart |-> m.restart,
                 waits |-> TRUE] IN
  IF Ignores(p, c) THEN
    /\ crossed' = (crossed \/ c.answering)
    /\ UNCHANGED pc
  ELSE
    /\ pc' = [pc EXCEPT ![p] =
         IF Collides(c) THEN Then(Then([@ EXCEPT !.answering = FALSE], Op("rollback")), remote)
         ELSE Then([@ EXCEPT !.answering = FALSE], remote)]
    /\ UNCHANGED crossed

ReceiveAnswer(p, m) ==
  /\ pc' = [pc EXCEPT ![p] =
       Then([@ EXCEPT !.answering = TRUE],
            [op |-> "remote", type |-> "answer", id |-> m.id, restart |-> m.restart,
             waits |-> TRUE])]
  /\ UNCHANGED crossed

\* When a candidate has to wait for the description it belongs to
MustWait(c) == ~c.has \/ c.answering

ReceiveCandidate(p, m) ==
  /\ LET c == pc[p] IN
     pc' = [pc EXCEPT ![p] =
       IF MustWait(c) THEN [c EXCEPT !.queue = @ \cup {m.id}]
       ELSE Then(c, [op |-> "add", ids |-> {m.id}, next |-> <<>>])]
  /\ UNCHANGED crossed

Receive(p) ==
  /\ wire[p] # <<>>
  /\ LET m == Head(wire[p]) IN
     CASE m.type = "offer"     -> ReceiveOffer(p, m)
       [] m.type = "answer"    -> ReceiveAnswer(p, m)
       [] m.type = "candidate" -> ReceiveCandidate(p, m)
  /\ wire' = [wire EXCEPT ![p] = Tail(@)]
  /\ UNCHANGED <<offers, kicks>>

-----------------------------------------------------------------------------
\* An offer of ours is made and sent.
Offers(p, c) ==
  /\ offers < MaxOffers
  /\ offers' = offers + 1
  /\ pc' = [pc EXCEPT ![p] = [c EXCEPT !.sig = "local", !.offer = offers + 1,
                                       !.offered = c.need, !.making = FALSE]]
  /\ Signal(p, "offer", offers + 1, "restart" \in c.need)

\* Theirs is answered.
Answers(p, c, restart) ==
  /\ pc' = [pc EXCEPT ![p] =
       [Settled(c, IF restart THEN {"channels", "restart"} ELSE {"channels"})
          EXCEPT !.agreed = c.offer]]
  /\ Signal(p, "answer", c.offer, restart)
  /\ UNCHANGED offers

\* The operation at the head of the chain is carried out, and the code that waited
\* for it goes on.
Negotiates(p) ==      \* setLocalDescription() of onnegotiationneeded
  /\ Head(pc[p].ops).op = "negotiate"
  /\ Offers(p, Popped(pc[p]))
  /\ UNCHANGED crossed

Creates(p) ==         \* createOffer()
  /\ Head(pc[p].ops).op = "create"
  /\ pc' = [pc EXCEPT ![p] = IF @.sig = "stable" THEN Then(Popped(@), Op("offer"))
                             ELSE [Popped(@) EXCEPT !.making = FALSE]]
  /\ UNCHANGED <<wire, offers, crossed>>

SetsOffer(p) ==       \* setLocalDescription(offer), refused while theirs is pending
  /\ Head(pc[p].ops).op = "offer"
  /\ IF pc[p].sig = "remote"
     THEN pc' = [pc EXCEPT ![p] = [Popped(@) EXCEPT !.making = FALSE]] /\ UNCHANGED <<wire, offers>>
     ELSE Offers(p, Popped(pc[p]))
  /\ UNCHANGED crossed

\* A rollback is refused when there is nothing to roll back; the code does not wait
\* for the description after it any more.
RollsBack(p) ==
  /\ Head(pc[p].ops).op = "rollback"
  /\ IF pc[p].sig = "stable"
     THEN pc' = [pc EXCEPT ![p] = [Popped(@) EXCEPT !.ops[1].waits = FALSE]] /\ crossed' = TRUE
     ELSE pc' = [pc EXCEPT ![p] = Settled(Popped(@), {})] /\ UNCHANGED crossed
  /\ UNCHANGED <<wire, offers>>

\* setRemoteDescription, flushCandidateQueue after it, and what is next after that
Flushed(c, next) ==
  IF c.queue = {} THEN [c EXCEPT !.ops = @ \o next]
  ELSE Then([c EXCEPT !.queue = {}], [op |-> "add", ids |-> c.queue, next |-> next])

SetsRemote(p) ==
  /\ Head(pc[p].ops).op = "remote"
  /\ LET m == Head(pc[p].ops)
         c == [Popped(pc[p]) EXCEPT !.answering = FALSE]
         theirs == [c EXCEPT !.sig = "remote", !.offer = m.id, !.has = TRUE]
         answered == [Settled(c, c.offered) EXCEPT !.agreed = m.id, !.has = TRUE] IN
     pc' = [pc EXCEPT ![p] =
       IF m.type = "answer" THEN IF c.sig = "local" THEN Flushed(answered, <<>>) ELSE c
       ELSE IF m.waits THEN Flushed(theirs, <<[op |-> "answer", restart |-> m.restart]>>)
       ELSE theirs]
  /\ UNCHANGED <<wire, offers, crossed>>

SetsAnswer(p) ==      \* setLocalDescription() of handleSignal: their offer is pending
  /\ Head(pc[p].ops).op = "answer"
  /\ Answers(p, Popped(pc[p]), Head(pc[p].ops).restart)
  /\ UNCHANGED crossed

\* addIceCandidate fails for a description that is not, or no longer, there.
Adds(p) ==
  /\ Head(pc[p].ops).op = "add"
  /\ LET c == pc[p]
         m == Head(c.ops)
         known == {c.offer, c.agreed} IN
     pc' = [pc EXCEPT ![p] = [c EXCEPT !.ops = Tail(@) \o m.next, !.added = @ \cup (m.ids \cap known)]]
  /\ UNCHANGED <<wire, offers, crossed>>

Execute(p) ==
  /\ pc[p].ops # <<>>
  /\ \/ Negotiates(p) \/ Creates(p) \/ SetsOffer(p) \/ RollsBack(p)
     \/ SetsRemote(p) \/ SetsAnswer(p) \/ Adds(p)
  /\ UNCHANGED kicks

\* Both ends have the description and the candidates of the other: the channels
\* open.
Agree ==
  /\ pc["polite"].agreed = pc["impolite"].agreed
  /\ \A p \in Ends : pc[p].sig = "stable" /\ pc[p].agreed > 0

Reachable == \A p \in Ends : pc[p].agreed \in pc[p].added

ChannelsOpen(p) ==
  /\ ~pc[p].open
  /\ Agree /\ Reachable
  /\ pc' = [pc EXCEPT ![p].open = TRUE]
  /\ UNCHANGED <<wire, offers, kicks, crossed>>

NegotiationNext ==
  \E p \in Ends :
    \/ NegotiationNeeded(p) \/ Starts(p) \/ Kick(p) \/ Restart(p)
    \/ Receive(p) \/ Execute(p) \/ ChannelsOpen(p)

NegotiationSpec == NegotiationInit /\ [][NegotiationNext]_negotiationVars

-----------------------------------------------------------------------------
\* Nothing is on its way, and neither end is about to do anything.
Quiet ==
  \A p \in Ends :
    /\ wire[p] = <<>> /\ pc[p].ops = <<>> /\ pc[p].started
    /\ pc[p].fired \/ pc[p].need = {} \/ pc[p].sig # "stable"

\* docs/protocol.md:44-46: however offers, answers, candidates and restarts
\* cross, once all is quiet the two ends have agreed on the same description and
\* have each other's candidates: exactly one of them gave way.
OneGivesWay == Quiet /\ offers < MaxOffers => Agree /\ Reachable

\* The same where no offer came while the polite end was making one by hand, or
\* while the impolite one was setting an answer (`crossed').
OneGaveWay == ~crossed => OneGivesWay
=============================================================================
