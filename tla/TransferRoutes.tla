--------------------------- MODULE TransferRoutes ---------------------------
(***************************************************************************)
(* What the two ends of one file transfer exchange, and the routes that    *)
(* carry it.                                                               *)
(*                                                                         *)
(* Binary frames (sendDataFrameHybrid) go over four parallel data channels,*)
(* the same-browser bus or the WebSocket relay: across those routes frames *)
(* overtake each other, and a closing channel or a relay without a         *)
(* listener drops them.  Control messages (sendCtlReliable) go over the    *)
(* `ctl' channel and the signaling server at once; the copy that arrives   *)
(* first is handled and the other is discarded by its _msgId, so a control *)
(* message arrives at most once, in any order, or is lost when neither     *)
(* route is up.                                                            *)
(*                                                                         *)
(* Both are therefore bags of messages in flight: a function from messages *)
(* to the number of copies sent and not yet arrived.                       *)
(***************************************************************************)
EXTENDS Integers, FiniteSets

CONSTANTS
  NumBlocks,    \* blocks of the file
  NumChunks,    \* chunks of a block; every chunk has length 1
  DamageKinds,  \* the ways a frame can reach the receiver other than it was cut
  MaxDataLoss,  \* bound: frames lost
  MaxCtlLoss,   \* bound: control messages lost
  MaxLoss,      \* bound: frames and control messages lost, together
  MaxDamage     \* bound: frames damaged

ASSUME RoutesAssumption ==
  /\ NumBlocks \in Nat \ {0}
  /\ NumChunks \in Nat \ {0}
  /\ DamageKinds \subseteq {"bad", "short", "long"}
  /\ MaxDataLoss \in Nat
  /\ MaxCtlLoss \in Nat
  /\ MaxLoss \in Nat
  /\ MaxDamage \in Nat

Blocks == 0 .. NumBlocks - 1
Chunks == 0 .. NumChunks - 1

\* The bytes of a chunk, as far as the SHA-256 of its block can tell.
Contents == {"good"} \cup DamageKinds

DataFrame == [type : {"DATA"}, block : Blocks, chunk : Chunks, content : Contents]
EndFrame  == [type : {"BLOCK_END"}, block : Blocks]
Frames    == DataFrame \cup EndFrame

BlockMsgs == [type : {"block-end", "block-ack", "block-retry"}, block : Blocks]
PlainMsgs == [type : {"credit-grant", "cancel-to-receiver", "cancel-to-sender"}]
CtlMsgs   == BlockMsgs \cup PlainMsgs

Chunk(b, c)     == [type |-> "DATA", block |-> b, chunk |-> c, content |-> "good"]
InBandEnd(b)    == [type |-> "BLOCK_END", block |-> b]
BlockEnd(b)     == [type |-> "block-end", block |-> b]
BlockAck(b)     == [type |-> "block-ack", block |-> b]
BlockRetry(b)   == [type |-> "block-retry", block |-> b]
CreditGrant     == [type |-> "credit-grant"]
CancelAtReceiver == [type |-> "cancel-to-receiver"]
CancelAtSender   == [type |-> "cancel-to-sender"]

VARIABLES
  data,      \* frames in flight
  ctl,       \* control messages in flight
  dataLost,  \* frames lost so far (at most MaxDataLoss)
  ctlLost,   \* control messages lost so far (at most MaxCtlLoss)
  damaged    \* frames damaged so far (at most MaxDamage)

routeVars == <<data, ctl>>
faultVars == <<dataLost, ctlLost, damaged>>

RoutesTypeOK ==
  /\ data \in [Frames -> Nat]
  /\ ctl \in [CtlMsgs -> Nat]
  /\ dataLost \in Nat
  /\ ctlLost \in Nat
  /\ damaged \in Nat

RoutesInit ==
  /\ data = [f \in Frames |-> 0]
  /\ ctl = [m \in CtlMsgs |-> 0]
  /\ dataLost = 0
  /\ ctlLost = 0
  /\ damaged = 0

Sent(net, m)  == [net EXCEPT ![m] = @ + 1]
Taken(net, m) == [net EXCEPT ![m] = @ - 1]

-----------------------------------------------------------------------------
\* A data channel closes under a frame, or the relay has nobody to give it to.
LoseFrame(f) ==
  /\ data[f] > 0
  /\ dataLost < MaxDataLoss
  /\ dataLost + ctlLost < MaxLoss
  /\ data' = Taken(data, f)
  /\ dataLost' = dataLost + 1
  /\ UNCHANGED <<ctl, ctlLost, damaged>>

\* Neither the ctl channel nor the signaling connection carries the message.
LoseCtl(m) ==
  /\ ctl[m] > 0
  /\ ctlLost < MaxCtlLoss
  /\ dataLost + ctlLost < MaxLoss
  /\ ctl' = Taken(ctl, m)
  /\ ctlLost' = ctlLost + 1
  /\ UNCHANGED <<data, dataLost, damaged>>

\* A frame is dispatched by a 32-bit hash of its transfer's name, so the
\* receiver can be handed bytes of something else under the right numbers.
DamageFrame(f, kind) ==
  /\ f \in DataFrame
  /\ data[f] > 0
  /\ f.content = "good"
  /\ damaged < MaxDamage
  /\ data' = Sent(Taken(data, f), [f EXCEPT !.content = kind])
  /\ damaged' = damaged + 1
  /\ UNCHANGED <<ctl, dataLost, ctlLost>>

\* Nothing about block b is on its way.
NothingInFlight(b) ==
  /\ \A f \in Frames : f.block = b => data[f] = 0
  /\ \A m \in BlockMsgs : m.block = b => ctl[m] = 0
=============================================================================
