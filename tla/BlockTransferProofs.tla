------------------------- MODULE BlockTransferProofs -------------------------
(***************************************************************************)
(* Proofs that the transfer keeps its types, stores before it acknowledges *)
(* and hands over only whole files, that no block is forgotten, that the   *)
(* receiver does not spin and that the window of credits is respected, for *)
(* files of any number of blocks and chunks and any number of lost, early  *)
(* or repeated messages, within the conditions each theorem names.         *)
(***************************************************************************)
EXTENDS BlockTransfer, SequenceTheorems, FiniteSetTheorems, TLAPS

-----------------------------------------------------------------------------
(* Lemmas about the operators.                                             *)

LEMMA BlocksFinite == IsFiniteSet(Blocks) /\ Cardinality(Blocks) = NumBlocks
<1>1. NumBlocks \in Nat \ {0}
  BY RoutesAssumption
<1>2. QED
  BY <1>1, FS_Interval DEF Blocks

\* A set of block numbers as large as the file holds every block.
LEMMA AllBlocks ==
  ASSUME NEW S \in SUBSET Blocks, Cardinality(S) >= NumBlocks
  PROVE  S = Blocks
<1>1. IsFiniteSet(S) /\ Cardinality(S) <= NumBlocks
  BY BlocksFinite, FS_Subset
<1>2. Cardinality(S) \in Nat /\ NumBlocks \in Nat
  BY <1>1, FS_CardinalityType, RoutesAssumption
<1>3. Cardinality(S) = Cardinality(Blocks)
  BY <1>1, <1>2, BlocksFinite
<1>4. QED
  BY <1>3, BlocksFinite, FS_Subset

\* There is a first block and a first chunk.
LEMMA Zero == 0 \in Blocks /\ 0 \in Chunks
BY RoutesAssumption DEF Blocks, Chunks

\* Sending and taking keep a route a bag of the same messages.
LEMMA SentType ==
  ASSUME NEW D, NEW net \in [D -> Nat], NEW m \in D
  PROVE  Sent(net, m) \in [D -> Nat]
BY DEF Sent

LEMMA TakenType ==
  ASSUME NEW D, NEW net \in [D -> Nat], NEW m \in D, net[m] > 0
  PROVE  Taken(net, m) \in [D -> Nat]
BY DEF Taken

\* What the pump leaves behind, from any queue of blocks and any credits.
LEMMA PumpType ==
  ASSUME SenderTypeOK,
         NEW queue \in Seq(Blocks), NEW cred \in 0 .. MaxCredits, NEW halt,
         Pump(queue, cred, halt)
  PROVE  /\ pending' \in Seq(Blocks)
         /\ credits' \in 0 .. MaxCredits
         /\ prefetched' \subseteq Blocks
         /\ pump' \in [at : PumpAt, block : Blocks, chunk : Chunks]
<1>1. Idle \in [at : PumpAt, block : Blocks, chunk : Chunks]
  BY Zero DEF Idle, PumpAt
<1>2. CASE pump' = Idle /\ credits' = cred /\ UNCHANGED prefetched
           /\ pending' \in {queue, <<>>}
  <2>1. <<>> \in Seq(Blocks)
    BY EmptySeq
  <2>2. QED
    BY <1>1, <1>2, <2>1 DEF SenderTypeOK
<1>3. ASSUME cred > 0,
             NEW i \in Unacked(queue),
             pending' = SubSeq(queue, i + 1, Len(queue)),
             credits' = cred - 1,
             prefetched' = Prefetch(queue[i], SubSeq(queue, i + 1, Len(queue))),
             pump' = [at |-> "gate", block |-> queue[i], chunk |-> 0]
      PROVE  /\ pending' \in Seq(Blocks)
             /\ credits' \in 0 .. MaxCredits
             /\ prefetched' \subseteq Blocks
             /\ pump' \in [at : PumpAt, block : Blocks, chunk : Chunks]
  <2>1. i \in 1 .. Len(queue) /\ queue[i] \in Blocks
    BY <1>3 DEF Unacked
  <2>2. pending' \in Seq(Blocks)
    BY <1>3, <2>1, SubSeqProperties
  <2>3. credits' \in 0 .. MaxCredits
    BY <1>3, SenderAssumption
  <2>4. pump' \in [at : PumpAt, block : Blocks, chunk : Chunks]
    BY <1>3, <2>1, Zero DEF PumpAt
  <2>5. pending' # <<>> => Head(pending') \in Blocks
    BY <2>2, HeadTailProperties
  <2>6. Prefetch(queue[i], pending') \subseteq Blocks
    BY <2>5 DEF Prefetch, SenderTypeOK
  <2>7. QED
    BY <1>3, <2>2, <2>3, <2>4, <2>6
<1>4. QED
  BY <1>2, <1>3 DEF Pump, TakeBlock

LEMMA KickPumpType ==
  ASSUME SenderTypeOK,
         NEW queue \in Seq(Blocks), NEW cred \in 0 .. MaxCredits, NEW halt,
         KickPump(queue, cred, halt)
  PROVE  /\ pending' \in Seq(Blocks)
         /\ credits' \in 0 .. MaxCredits
         /\ prefetched' \subseteq Blocks
         /\ pump' \in [at : PumpAt, block : Blocks, chunk : Chunks]
BY PumpType DEF KickPump, SenderTypeOK

LEMMA RetryBlockType ==
  ASSUME SenderTypeOK, NEW b \in Blocks, RetryBlock(b)
  PROVE  /\ pending' \in Seq(Blocks)
         /\ credits' \in 0 .. MaxCredits
         /\ timers' \subseteq Blocks
         /\ prefetched' \subseteq Blocks
         /\ pump' \in [at : PumpAt, block : Blocks, chunk : Chunks]
         /\ paused' \in BOOLEAN
<1> DEFINE queue == IF Contains(pending, b) THEN pending ELSE <<b>> \o pending
           cred  == IF credits = 0 THEN 1 ELSE credits
<1>1. timers' \subseteq Blocks
  BY DEF RetryBlock, SenderTypeOK
<1>2. CASE UNCHANGED <<pending, credits, paused, pump, prefetched>>
  BY <1>1, <1>2 DEF SenderTypeOK
<1>3. CASE paused' = FALSE /\ KickPump(queue, cred, FALSE)
  <2>1. pending \in Seq(Blocks) /\ <<b>> \in Seq(Blocks)
    BY DEF SenderTypeOK
  <2>2. <<b>> \o pending \in Seq(Blocks)
    BY <2>1, ConcatProperties
  <2>3. queue \in Seq(Blocks)
    BY <2>1, <2>2
  <2>4. cred \in 0 .. MaxCredits
    BY SenderAssumption DEF SenderTypeOK
  <2>5. QED
    BY <1>1, <1>3, <2>3, <2>4, KickPumpType
<1>4. QED
  BY <1>2, <1>3 DEF RetryBlock

LEMMA MessageTypes ==
  /\ \A b \in Blocks : /\ InBandEnd(b) \in Frames
                       /\ BlockEnd(b) \in CtlMsgs
                       /\ BlockAck(b) \in CtlMsgs
                       /\ BlockRetry(b) \in CtlMsgs
                       /\ \A c \in Chunks : Chunk(b, c) \in Frames
  /\ {CreditGrant, CancelAtReceiver, CancelAtSender} \subseteq CtlMsgs
BY DEF InBandEnd, BlockEnd, BlockAck, BlockRetry, Chunk, CreditGrant,
       CancelAtReceiver, CancelAtSender, Frames, DataFrame, EndFrame, CtlMsgs,
       BlockMsgs, PlainMsgs, Contents

-----------------------------------------------------------------------------
(* The sender keeps its types.                                             *)

LEMMA PumpStepType ==
  ASSUME TypeOK, PumpStep
  PROVE  TypeOK'
<1> USE DEF TypeOK
<1>1. ReceiverTypeOK' /\ dataLost' \in Nat /\ ctlLost' \in Nat /\ damaged' \in Nat /\ early' \in Nat
  BY DEF PumpStep, BySender, receiverVars, faultVars, ReceiverTypeOK, RoutesTypeOK
<1>2. pending \in Seq(Blocks) /\ credits \in 0 .. MaxCredits
  BY DEF SenderTypeOK
<1>3. CASE Start
  <2>1. /\ pending' \in Seq(Blocks) /\ credits' \in 0 .. MaxCredits /\ prefetched' \subseteq Blocks
        /\ pump' \in [at : PumpAt, block : Blocks, chunk : Chunks]
    BY <1>2, <1>3, KickPumpType DEF Start
  <2>2. QED
    BY <1>1, <1>3, <2>1 DEF Start, SenderTypeOK, RoutesTypeOK
<1>4. CASE ChunkGate
  <2>1. CASE Pump(pending, credits, TRUE)
    <3>1. /\ pending' \in Seq(Blocks) /\ credits' \in 0 .. MaxCredits /\ prefetched' \subseteq Blocks
          /\ pump' \in [at : PumpAt, block : Blocks, chunk : Chunks]
      BY <1>2, <2>1, PumpType
    <3>2. QED
      BY <1>1, <1>4, <3>1 DEF ChunkGate, SenderTypeOK, RoutesTypeOK
  <2>2. CASE /\ pump' = [pump EXCEPT !.at = IF paused THEN "held" ELSE "send"]
             /\ UNCHANGED <<pending, credits, prefetched>>
    BY <1>1, <1>4, <2>2 DEF ChunkGate, SenderTypeOK, RoutesTypeOK, PumpAt
  <2>3. QED
    BY <1>4, <2>1, <2>2 DEF ChunkGate
<1>5. CASE SendChunk
  <2>1. Chunk(pump.block, pump.chunk) \in Frames
    BY MessageTypes DEF SenderTypeOK
  <2>2. data' \in [Frames -> Nat]
    BY <1>5, <2>1, SentType DEF SendChunk, RoutesTypeOK
  <2>3. pump' \in [at : PumpAt, block : Blocks, chunk : Chunks]
    <3>1. pump \in [at : PumpAt, block : Blocks, chunk : Chunks]
      BY DEF SenderTypeOK
    <3>2. CASE pump' = [pump EXCEPT !.at = "end"]
      BY <3>1, <3>2 DEF PumpAt
    <3>3. CASE pump.chunk + 1 < NumChunks /\ pump' = [pump EXCEPT !.at = "gate", !.chunk = @ + 1]
      <4>1. pump.chunk + 1 \in Chunks
        BY <3>1, <3>3, RoutesAssumption DEF Chunks
      <4>2. QED
        BY <3>1, <3>3, <4>1 DEF PumpAt
    <3>4. QED
      BY <1>5, <3>2, <3>3 DEF SendChunk
  <2>4. QED
    BY <1>1, <1>5, <2>2, <2>3 DEF SendChunk, SenderTypeOK, RoutesTypeOK
<1>6. CASE SendBlockEnd
  <2>1. InBandEnd(pump.block) \in Frames /\ BlockEnd(pump.block) \in CtlMsgs
    BY MessageTypes DEF SenderTypeOK
  <2>2. data' \in [Frames -> Nat] /\ ctl' \in [CtlMsgs -> Nat]
    BY <1>6, <2>1, SentType DEF SendBlockEnd, RoutesTypeOK
  <2>3. QED
    BY <1>1, <1>6, <2>2 DEF SendBlockEnd, SenderTypeOK, RoutesTypeOK, PumpAt
<1>7. CASE ArmWatchdog
  <2>1. /\ pending' \in Seq(Blocks) /\ credits' \in 0 .. MaxCredits /\ prefetched' \subseteq Blocks
        /\ pump' \in [at : PumpAt, block : Blocks, chunk : Chunks]
    BY <1>2, <1>7, PumpType DEF ArmWatchdog
  <2>2. QED
    BY <1>1, <1>7, <2>1 DEF ArmWatchdog, SenderTypeOK, RoutesTypeOK
<1>8. QED
  BY <1>3, <1>4, <1>5, <1>6, <1>7 DEF PumpStep

\* Whatever takes a control message off the route keeps the route a bag.
LEMMA SenderHandlesType ==
  ASSUME TypeOK, NEW m \in CtlMsgs, SenderHandles(m)
  PROVE  TypeOK'
<1> USE DEF TypeOK
<1>1. ReceiverTypeOK' /\ dataLost' \in Nat /\ ctlLost' \in Nat /\ damaged' \in Nat /\ early' \in Nat
  BY DEF SenderHandles, BySender, receiverVars, faultVars, ReceiverTypeOK, RoutesTypeOK
<1>2. pending \in Seq(Blocks) /\ credits \in 0 .. MaxCredits
  BY DEF SenderTypeOK
<1>3. ASSUME ctl[m] > 0, ctl' = Taken(ctl, m), UNCHANGED data
      PROVE  RoutesTypeOK'
  BY <1>1, <1>3, TakenType DEF RoutesTypeOK
<1>4. CASE m = CreditGrant /\ RecvCredit
  <2>1. Granted(credits) \in 0 .. MaxCredits
    BY <1>2, SenderAssumption DEF Granted
  <2>2. KickPump(pending, Granted(credits), paused \/ cancelled \/ completed)
    BY <1>4 DEF RecvCredit
  <2>3. /\ pending' \in Seq(Blocks) /\ credits' \in 0 .. MaxCredits /\ prefetched' \subseteq Blocks
        /\ pump' \in [at : PumpAt, block : Blocks, chunk : Chunks]
    BY <1>2, <2>1, <2>2, KickPumpType
  <2>4. QED
    BY <1>1, <1>3, <1>4, <2>3 DEF RecvCredit, SenderTypeOK
<1>5. CASE m = CancelAtSender /\ RecvCancelAtSender
  BY <1>1, <1>3, <1>5 DEF RecvCancelAtSender, StopSending, SenderTypeOK
<1>6. ASSUME NEW b \in Blocks, m = BlockAck(b), RecvAck(b)
      PROVE  TypeOK'
  BY <1>1, <1>3, <1>6 DEF RecvAck, SenderTypeOK
<1>7. ASSUME NEW b \in Blocks, m = BlockRetry(b), RecvRetry(b)
      PROVE  TypeOK'
  <2>1. /\ pending' \in Seq(Blocks) /\ credits' \in 0 .. MaxCredits /\ prefetched' \subseteq Blocks
        /\ timers' \subseteq Blocks /\ paused' \in BOOLEAN
        /\ pump' \in [at : PumpAt, block : Blocks, chunk : Chunks]
    BY <1>7, RetryBlockType DEF RecvRetry
  <2>2. QED
    BY <1>1, <1>3, <1>7, <2>1 DEF RecvRetry, SenderTypeOK
<1>8. CASE IgnoreCtl(m)
  BY <1>1, <1>3, <1>8 DEF IgnoreCtl, senderVars, SenderTypeOK
<1>9. QED
  BY <1>4, <1>5, <1>6, <1>7, <1>8 DEF SenderHandles

LEMMA WatchdogFiresType ==
  ASSUME TypeOK, NEW b \in Blocks, WatchdogFires(b)
  PROVE  TypeOK'
<1> USE DEF TypeOK
<1>1. ReceiverTypeOK' /\ RoutesTypeOK'
  BY DEF WatchdogFires, Watchdog, receiverVars, faultVars, ReceiverTypeOK, RoutesTypeOK
<1>2. early' \in Nat
  BY DEF WatchdogFires, Timeout
<1>3. CASE timers' = timers \ {b} /\ UNCHANGED <<pending, credits, paused, pump, prefetched>>
  BY <1>1, <1>2, <1>3 DEF WatchdogFires, Watchdog, SenderTypeOK
<1>4. CASE RetryBlock(b)
  <2>1. /\ pending' \in Seq(Blocks) /\ credits' \in 0 .. MaxCredits /\ prefetched' \subseteq Blocks
        /\ timers' \subseteq Blocks /\ paused' \in BOOLEAN
        /\ pump' \in [at : PumpAt, block : Blocks, chunk : Chunks]
    BY <1>4, RetryBlockType
  <2>2. QED
    BY <1>1, <1>2, <2>1 DEF WatchdogFires, Watchdog, SenderTypeOK
<1>5. QED
  BY <1>3, <1>4 DEF WatchdogFires, Watchdog

LEMMA SenderUserType ==
  ASSUME TypeOK, SenderUser \/ UserResumes
  PROVE  TypeOK'
<1> USE DEF TypeOK
<1>1. ReceiverTypeOK' /\ dataLost' \in Nat /\ ctlLost' \in Nat /\ damaged' \in Nat /\ early' \in Nat
  BY DEF SenderUser, UserResumes, BySender, receiverVars, faultVars, ReceiverTypeOK, RoutesTypeOK
<1>2. CASE Pause
  BY <1>1, <1>2 DEF Pause, SenderTypeOK, RoutesTypeOK
<1>3. CASE CancelSending
  <2>1. ctl' \in [CtlMsgs -> Nat]
    BY <1>3, MessageTypes, SentType DEF CancelSending, RoutesTypeOK
  <2>2. QED
    BY <1>1, <1>3, <2>1 DEF CancelSending, StopSending, SenderTypeOK, RoutesTypeOK
<1>4. CASE Resume
  <2>1. /\ pending' \in Seq(Blocks) /\ credits' \in 0 .. MaxCredits /\ prefetched' \subseteq Blocks
        /\ pump' \in [at : PumpAt, block : Blocks, chunk : Chunks]
    BY <1>4, KickPumpType DEF Resume, SenderTypeOK
  <2>2. QED
    BY <1>1, <1>4, <2>1 DEF Resume, SenderTypeOK, RoutesTypeOK
<1>5. QED
  BY <1>2, <1>3, <1>4 DEF SenderUser, UserResumes

-----------------------------------------------------------------------------
(* The receiver keeps its types.                                           *)

Slotted == [Blocks -> [Chunks -> Slots]]

LEMMA ChunkLenType == \A x \in Slots : ChunkLen(x) \in {0, 1, 2}
<1> SUFFICES ASSUME NEW x \in Slots PROVE ChunkLen(x) \in {0, 1, 2}
  OBVIOUS
<1>1. x \in {"good", "bad", "short", "long", "none", "gone"}
  BY RoutesAssumption DEF Slots, Contents
<1>2. QED
  BY <1>1 DEF ChunkLen

LEMMA ForgetType ==
  ASSUME ReceiverTypeOK, NEW b \in Blocks, Forget(b)
  PROVE  chunks' \in Slotted /\ bytes' \in [Blocks -> Int] /\ ends' \subseteq Blocks
<1>1. NoChunk \in [Chunks -> Slots]
  BY DEF NoChunk, Slots
<1>2. chunks' \in Slotted
  BY <1>1 DEF Forget, ReceiverTypeOK, Slotted
<1>3. bytes' \in [Blocks -> Int]
  BY DEF Forget, ReceiverTypeOK
<1>4. QED
  BY <1>2, <1>3 DEF Forget, ReceiverTypeOK

LEMMA StallsAfterType ==
  ASSUME NEW b, NEW row, NEW known, NEW state, NEW armed \in SUBSET Blocks
  PROVE  StallsAfter(b, row, known, state, armed) \subseteq Blocks
BY DEF StallsAfter

\* The types of what tryVerifyBlock leaves behind.
TriedTypes ==
  /\ chunks' \in Slotted
  /\ bytes' \in [Blocks -> Int]
  /\ ends' \subseteq Blocks
  /\ verifying' \in [Blocks -> {"idle", "hash", "write"}]
  /\ snapshot' \in [Blocks -> {"good", "bad"}]
  /\ rxHung' \in BOOLEAN
  /\ ctl' \in [CtlMsgs -> Nat]

LEMMA TryVerifyType ==
  ASSUME ReceiverTypeOK,
         NEW b \in Blocks, NEW row \in [Chunks -> Slots], NEW size \in Int,
         NEW known \in SUBSET Blocks, NEW state \in {"idle", "hash", "write"},
         NEW net \in [CtlMsgs -> Nat],
         TryVerify(b, row, size, known, state, net)
  PROVE  TriedTypes
<1> USE DEF TriedTypes
<1> DEFINE keep == /\ bytes' = [bytes EXCEPT ![b] = size]
                   /\ ends' = known
                   /\ ctl' = net
<1>1. ASSUME keep
      PROVE  bytes' \in [Blocks -> Int] /\ ends' \subseteq Blocks /\ ctl' \in [CtlMsgs -> Nat]
  <2>1. bytes' \in [Blocks -> Int]
    BY <1>1 DEF ReceiverTypeOK
  <2>2. ends' \subseteq Blocks
    BY <1>1 DEF ReceiverTypeOK
  <2>3. QED
    BY <1>1, <2>1, <2>2
<1>2. [chunks EXCEPT ![b] = row] \in Slotted
  BY DEF ReceiverTypeOK, Slotted
<1>3. \A v \in {"idle", "hash", "write"} :
        [verifying EXCEPT ![b] = v] \in [Blocks -> {"idle", "hash", "write"}]
  BY DEF ReceiverTypeOK
<1>4. CASE /\ keep
           /\ chunks' = [chunks EXCEPT ![b] = row]
           /\ verifying' \in {[verifying EXCEPT ![b] = state], [verifying EXCEPT ![b] = "idle"]}
           /\ UNCHANGED snapshot
           /\ rxHung' \in {rxHung, TRUE}
  <2>1. chunks' \in Slotted /\ snapshot' \in [Blocks -> {"good", "bad"}]
    BY <1>2, <1>4 DEF ReceiverTypeOK
  <2>2. verifying' \in [Blocks -> {"idle", "hash", "write"}]
    BY <1>3, <1>4
  <2>3. rxHung' \in BOOLEAN
    BY <1>4 DEF ReceiverTypeOK
  <2>4. QED
    BY <1>1, <1>4, <2>1, <2>2, <2>3
<1>5. CASE /\ Forget(b)
           /\ ctl' = Sent(net, BlockRetry(b))
           /\ verifying' = [verifying EXCEPT ![b] = "idle"]
           /\ UNCHANGED <<snapshot, rxHung>>
  <2>1. ctl' \in [CtlMsgs -> Nat]
    BY <1>5, MessageTypes, SentType
  <2>2. QED
    BY <1>3, <1>5, <2>1, ForgetType DEF ReceiverTypeOK
<1>6. CASE /\ keep
           /\ chunks' = [chunks EXCEPT ![b] = Detached(b, row)]
           /\ verifying' = [verifying EXCEPT ![b] = "hash"]
           /\ snapshot' = [snapshot EXCEPT ![b] = Worth(row)]
           /\ UNCHANGED rxHung
  <2>1. Detached(b, row) \in [Chunks -> Slots]
    BY DEF Detached, Slots
  <2>2. Worth(row) \in {"good", "bad"}
    BY DEF Worth
  <2>3. chunks' \in Slotted
    BY <1>6, <2>1 DEF ReceiverTypeOK, Slotted
  <2>4. snapshot' \in [Blocks -> {"good", "bad"}]
    BY <1>6, <2>2 DEF ReceiverTypeOK
  <2>5. QED
    BY <1>1, <1>3, <1>6, <2>3, <2>4 DEF ReceiverTypeOK
<1>7. QED
  BY <1>4, <1>5, <1>6 DEF TryVerify

LEMMA FailAndLookAgainType ==
  ASSUME TypeOK, NEW b \in Blocks, FailAndLookAgain(b)
  PROVE  TriedTypes /\ stalls' \subseteq Blocks /\ rxActive' \in BOOLEAN
<1>1. /\ chunks[b] \in [Chunks -> Slots] /\ bytes[b] \in Int
      /\ ends \in SUBSET Blocks /\ ctl \in [CtlMsgs -> Nat]
  BY DEF TypeOK, ReceiverTypeOK, RoutesTypeOK
<1>2. stalls' \subseteq Blocks
  BY StallsAfterType DEF FailAndLookAgain, TypeOK, ReceiverTypeOK
<1>3. QED
  BY <1>1, <1>2, TryVerifyType DEF FailAndLookAgain, TypeOK

LEMMA HandleBlockEndType ==
  ASSUME TypeOK, NEW b \in Blocks, NEW net \in [CtlMsgs -> Nat], HandleBlockEnd(b, net)
  PROVE  ReceiverTypeOK' /\ ctl' \in [CtlMsgs -> Nat]
<1>1. CASE /\ ctl' = Sent(net, BlockAck(b))
           /\ UNCHANGED <<chunks, bytes, ends, stalls, verifying, snapshot, rxHung>>
  <2>1. ctl' \in [CtlMsgs -> Nat]
    BY <1>1, MessageTypes, SentType
  <2>2. QED
    BY <1>1, <2>1 DEF HandleBlockEnd, TypeOK, ReceiverTypeOK
<1>2. CASE /\ TryVerify(b, chunks[b], bytes[b], ends \cup {b}, verifying[b], net)
           /\ stalls' = Armed(b)
  <2>1. chunks[b] \in [Chunks -> Slots] /\ bytes[b] \in Int
        /\ verifying[b] \in {"idle", "hash", "write"}
    BY DEF TypeOK, ReceiverTypeOK
  <2>2. TriedTypes
    <3> DEFINE known == ends \cup {b}
               row   == chunks[b]
               size  == bytes[b]
               state == verifying[b]
    <3>1. TryVerify(b, row, size, known, state, net)
      BY <1>2
    <3>2. ReceiverTypeOK /\ known \in SUBSET Blocks
      BY DEF TypeOK, ReceiverTypeOK
    <3>3. /\ row \in [Chunks -> Slots] /\ size \in Int
          /\ state \in {"idle", "hash", "write"}
      BY <2>1
    <3> HIDE DEF known, row, size, state
    <3>4. QED
      BY <3>1, <3>2, <3>3, TryVerifyType
  <2>3. stalls' \subseteq Blocks
    BY <1>2 DEF Armed, TypeOK, ReceiverTypeOK
  <2>4. QED
    BY <2>2, <2>3 DEF HandleBlockEnd, TriedTypes, TypeOK, ReceiverTypeOK, Slotted
<1>3. QED
  BY <1>1, <1>2 DEF HandleBlockEnd

\* Which step of the receiver moves which of its variables is left to its
\* definition; the types of what it moves come from the lemmas above.
LEMMA FrameArrivesType ==
  ASSUME TypeOK, NEW f \in Frames, FrameArrives(f)
  PROVE  TypeOK'
<1>1. SenderTypeOK' /\ dataLost' \in Nat /\ ctlLost' \in Nat /\ damaged' \in Nat /\ early' \in Nat
  BY DEF FrameArrives, ByReceiver, senderVars, faultVars, SenderTypeOK, RoutesTypeOK, TypeOK
<1>2. data' \in [Frames -> Nat]
  <2>1. CASE data[f] > 0 /\ data' = Taken(data, f)
    BY <2>1, TakenType DEF TypeOK, RoutesTypeOK
  <2>2. CASE f \in EndFrame /\ RecvInBandEnd(f.block)
    <3>1. InBandEnd(f.block) \in Frames
      BY <2>2, MessageTypes DEF EndFrame
    <3>2. QED
      BY <2>2, <3>1, TakenType DEF RecvInBandEnd, TypeOK, RoutesTypeOK
  <2>3. QED
    BY <2>1, <2>2 DEF FrameArrives, RecvChunk, IgnoreFrame
<1>3. CASE f \in DataFrame /\ RecvChunk(f)
  <2> DEFINE b     == f.block
             row   == [chunks[b] EXCEPT ![f.chunk] = f.content]
             size  == Recounted(f)
             armed == IF b \in ends THEN Armed(b) ELSE stalls
             state == verifying[b]
  <2>1. b \in Blocks /\ f.chunk \in Chunks /\ f.content \in Slots
    BY <1>3 DEF DataFrame, Slots
  <2>2. row \in [Chunks -> Slots] /\ chunks[b][f.chunk] \in Slots
    BY <2>1 DEF TypeOK, ReceiverTypeOK
  <2>3. size \in Int
    BY <2>1, <2>2, ChunkLenType DEF Recounted, TypeOK, ReceiverTypeOK
  <2>4. armed \in SUBSET Blocks
    BY <2>1 DEF Armed, TypeOK, ReceiverTypeOK
  <2>5. /\ ReceiverTypeOK /\ b \in Blocks /\ row \in [Chunks -> Slots]
        /\ ends \in SUBSET Blocks /\ state \in {"idle", "hash", "write"}
        /\ ctl \in [CtlMsgs -> Nat]
        /\ TryVerify(b, row, size, ends, state, ctl)
    BY <1>3, <2>1, <2>2 DEF RecvChunk, TypeOK, ReceiverTypeOK, RoutesTypeOK
  <2> HIDE DEF b, row, size, armed, state
  <2>6. TriedTypes
    BY <2>3, <2>5, TryVerifyType
  <2>7. StallsAfter(b, row, ends, state, armed) \subseteq Blocks
    BY <2>4, StallsAfterType
  <2>8. stalls' \subseteq Blocks
    BY <1>3, <2>7 DEF RecvChunk, b, row, armed, state
  <2>9. QED
    BY <1>1, <1>2, <1>3, <2>6, <2>8 DEF RecvChunk, TriedTypes, TypeOK, ReceiverTypeOK, RoutesTypeOK, Slotted
<1>4. CASE f \in EndFrame /\ RecvInBandEnd(f.block)
  <2>1. f.block \in Blocks /\ ctl \in [CtlMsgs -> Nat] /\ HandleBlockEnd(f.block, ctl)
    BY <1>4 DEF EndFrame, RecvInBandEnd, TypeOK, RoutesTypeOK
  <2>2. ReceiverTypeOK' /\ ctl' \in [CtlMsgs -> Nat]
    BY <2>1, HandleBlockEndType
  <2>3. QED
    BY <1>1, <1>2, <2>2 DEF TypeOK, RoutesTypeOK
<1>5. CASE IgnoreFrame(f)
  BY <1>1, <1>2, <1>5 DEF IgnoreFrame, receiverVars, TypeOK, ReceiverTypeOK, RoutesTypeOK
<1>6. QED
  BY <1>3, <1>4, <1>5 DEF FrameArrives

LEMMA ReceiverHandlesType ==
  ASSUME TypeOK, NEW m \in CtlMsgs, ReceiverHandles(m)
  PROVE  TypeOK'
<1>1. SenderTypeOK' /\ dataLost' \in Nat /\ ctlLost' \in Nat /\ damaged' \in Nat /\ early' \in Nat
  BY DEF ReceiverHandles, ByReceiver, senderVars, faultVars, SenderTypeOK, RoutesTypeOK, TypeOK
<1>2. ASSUME ctl[m] > 0 PROVE Taken(ctl, m) \in [CtlMsgs -> Nat]
  BY <1>2, TakenType DEF TypeOK, RoutesTypeOK
<1>3. CASE m = CancelAtReceiver /\ RecvCancelAtReceiver
  <2>1. ctl' \in [CtlMsgs -> Nat] /\ data' \in [Frames -> Nat]
    BY <1>2, <1>3 DEF RecvCancelAtReceiver, StopReceiving, TypeOK, RoutesTypeOK
  <2>2. ReceiverTypeOK'
    <3>1. CASE StopReceiving
      BY <3>1 DEF StopReceiving, TypeOK, ReceiverTypeOK, Stored
    <3>2. CASE UNCHANGED receiverVars
      BY <3>2 DEF receiverVars, TypeOK, ReceiverTypeOK
    <3>3. QED
      BY <1>3, <3>1, <3>2 DEF RecvCancelAtReceiver
  <2>3. QED
    BY <1>1, <2>1, <2>2 DEF TypeOK, RoutesTypeOK
<1>4. ASSUME NEW b \in Blocks, m = BlockEnd(b), RecvBlockEnd(b)
      PROVE  TypeOK'
  <2>1. Taken(ctl, m) \in [CtlMsgs -> Nat] /\ HandleBlockEnd(b, Taken(ctl, m)) /\ UNCHANGED data
    BY <1>2, <1>4 DEF RecvBlockEnd
  <2>2. ReceiverTypeOK' /\ ctl' \in [CtlMsgs -> Nat]
    BY <2>1, HandleBlockEndType
  <2>3. QED
    BY <1>1, <2>1, <2>2 DEF TypeOK, RoutesTypeOK
<1>5. ASSUME NEW b \in Blocks, m = BlockEnd(b), IgnoreBlockEnd(b)
      PROVE  TypeOK'
  BY <1>1, <1>2, <1>5 DEF IgnoreBlockEnd, receiverVars, TypeOK, ReceiverTypeOK, RoutesTypeOK
<1>6. QED
  BY <1>3, <1>4, <1>5 DEF ReceiverHandles

LEMMA VerificationType ==
  ASSUME TypeOK, NEW b \in Blocks,
         Verification(b) \/ (WriteFails(b) /\ ByReceiver)
  PROVE  TypeOK'
<1>1. SenderTypeOK' /\ dataLost' \in Nat /\ ctlLost' \in Nat /\ damaged' \in Nat /\ early' \in Nat
  BY DEF Verification, ByReceiver, senderVars, faultVars, SenderTypeOK, RoutesTypeOK, TypeOK
<1>2. BlockAck(b) \in CtlMsgs /\ CreditGrant \in CtlMsgs /\ BlockRetry(b) \in CtlMsgs
  BY MessageTypes
<1>3. CASE HashMatches(b)
  BY <1>1, <1>3 DEF HashMatches, routeVars, TypeOK, ReceiverTypeOK, RoutesTypeOK
<1>4. CASE HashDiffers(b)
  <2>1. CASE /\ retries[b] < MaxRetries
             /\ retries' = [retries EXCEPT ![b] = @ + 1]
             /\ Forget(b)
             /\ ctl' = Sent(ctl, BlockRetry(b))
             /\ verifying' = [verifying EXCEPT ![b] = "idle"]
             /\ UNCHANGED <<stalls, snapshot, rxActive, rxHung>>
    <3>1. ctl' \in [CtlMsgs -> Nat]
      BY <1>2, <2>1, SentType DEF TypeOK, RoutesTypeOK
    <3>2. chunks' \in Slotted /\ bytes' \in [Blocks -> Int] /\ ends' \subseteq Blocks
      BY <2>1, ForgetType DEF TypeOK
    <3>3. retries' \in [Blocks -> 0 .. MaxRetries + 1]
      BY <2>1, ReceiverAssumption DEF TypeOK, ReceiverTypeOK
    <3>4. QED
      BY <1>1, <1>4, <2>1, <3>1, <3>2, <3>3
      DEF HashDiffers, TypeOK, ReceiverTypeOK, RoutesTypeOK, Slotted
  <2>2. CASE retries' = [retries EXCEPT ![b] = MaxRetries + 1] /\ FailAndLookAgain(b)
    <3>1. TriedTypes /\ stalls' \subseteq Blocks /\ rxActive' \in BOOLEAN
      BY <2>2, FailAndLookAgainType
    <3>2. retries' \in [Blocks -> 0 .. MaxRetries + 1]
      BY <2>2, ReceiverAssumption DEF TypeOK, ReceiverTypeOK
    <3>3. QED
      BY <1>1, <1>4, <3>1, <3>2
      DEF HashDiffers, TriedTypes, TypeOK, ReceiverTypeOK, RoutesTypeOK, Slotted
  <2>3. QED
    BY <1>4, <2>1, <2>2 DEF HashDiffers
<1>5. CASE WriteDone(b)
  <2>1. ctl' \in [CtlMsgs -> Nat]
    BY <1>2, <1>5, SentType DEF WriteDone, TypeOK, RoutesTypeOK
  <2>2. chunks' \in Slotted /\ bytes' \in [Blocks -> Int] /\ ends' \subseteq Blocks
    BY <1>5, ForgetType DEF WriteDone, TypeOK
  <2>3. disk' \in [Blocks -> Stored]
    BY <1>5 DEF WriteDone, TypeOK, ReceiverTypeOK, Stored
  <2>4. QED
    BY <1>1, <1>5, <2>1, <2>2, <2>3
    DEF WriteDone, TypeOK, ReceiverTypeOK, RoutesTypeOK, Slotted
<1>6. CASE WriteFails(b) /\ ByReceiver
  <2>1. TriedTypes /\ stalls' \subseteq Blocks /\ rxActive' \in BOOLEAN
    BY <1>6, FailAndLookAgainType DEF WriteFails
  <2>2. QED
    BY <1>1, <1>6, <2>1
    DEF WriteFails, TriedTypes, TypeOK, ReceiverTypeOK, RoutesTypeOK, Slotted
<1>7. QED
  BY <1>3, <1>4, <1>5, <1>6 DEF Verification

LEMMA StallFiresType ==
  ASSUME TypeOK, NEW b \in Blocks, StallFires(b)
  PROVE  TypeOK'
<1>1. SenderTypeOK' /\ dataLost' \in Nat /\ ctlLost' \in Nat /\ damaged' \in Nat
  BY DEF StallFires, senderVars, faultVars, SenderTypeOK, RoutesTypeOK, TypeOK
<1>2. early' \in Nat
  BY DEF StallFires, Timeout, TypeOK
<1>3. ctl' \in [CtlMsgs -> Nat]
  <2>1. Sent(ctl, BlockRetry(b)) \in [CtlMsgs -> Nat]
    BY MessageTypes, SentType DEF TypeOK, RoutesTypeOK
  <2>2. QED
    BY <2>1 DEF StallFires, Stall, TypeOK, RoutesTypeOK
<1>4. QED
  BY <1>1, <1>2, <1>3 DEF StallFires, Stall, TypeOK, ReceiverTypeOK, RoutesTypeOK

LEMMA FileDoneType ==
  ASSUME TypeOK, FileDone \/ (FinalizeFails /\ ByReceiver)
  PROVE  TypeOK'
<1>1. SenderTypeOK' /\ dataLost' \in Nat /\ ctlLost' \in Nat /\ damaged' \in Nat /\ early' \in Nat
  BY DEF FileDone, ByReceiver, senderVars, faultVars, SenderTypeOK, RoutesTypeOK, TypeOK
<1>2. QED
  BY <1>1 DEF FileDone, Finalize, FinalizeFails, routeVars, TypeOK, ReceiverTypeOK, RoutesTypeOK

LEMMA ReceiverUserType ==
  ASSUME TypeOK, ReceiverUser
  PROVE  TypeOK'
<1>1. SenderTypeOK' /\ dataLost' \in Nat /\ ctlLost' \in Nat /\ damaged' \in Nat /\ early' \in Nat
  BY DEF ReceiverUser, ByReceiver, senderVars, faultVars, SenderTypeOK, RoutesTypeOK, TypeOK
<1>2. ctl' \in [CtlMsgs -> Nat]
  BY MessageTypes, SentType DEF ReceiverUser, CancelReceiving, TypeOK, RoutesTypeOK
<1>3. QED
  BY <1>1, <1>2
  DEF ReceiverUser, CancelReceiving, StopReceiving, TypeOK, ReceiverTypeOK, RoutesTypeOK, Stored

LEMMA RouteFaultsType ==
  ASSUME TypeOK, ByRoutes,
         \/ \E f \in Frames : LoseFrame(f)
         \/ \E m \in CtlMsgs : LoseCtl(m)
         \/ \E f \in Frames, kind \in DamageKinds : DamageFrame(f, kind)
  PROVE  TypeOK'
<1>1. SenderTypeOK' /\ ReceiverTypeOK' /\ early' \in Nat
  BY DEF ByRoutes, senderVars, receiverVars, SenderTypeOK, ReceiverTypeOK, TypeOK
<1>2. ASSUME NEW f \in Frames, LoseFrame(f)
      PROVE  TypeOK'
  <2>1. data' \in [Frames -> Nat]
    BY <1>2, TakenType DEF LoseFrame, TypeOK, RoutesTypeOK
  <2>2. QED
    BY <1>1, <1>2, <2>1 DEF LoseFrame, TypeOK, RoutesTypeOK
<1>3. ASSUME NEW m \in CtlMsgs, LoseCtl(m)
      PROVE  TypeOK'
  <2>1. ctl' \in [CtlMsgs -> Nat]
    BY <1>3, TakenType DEF LoseCtl, TypeOK, RoutesTypeOK
  <2>2. QED
    BY <1>1, <1>3, <2>1 DEF LoseCtl, TypeOK, RoutesTypeOK
<1>4. ASSUME NEW f \in Frames, NEW kind \in DamageKinds, DamageFrame(f, kind)
      PROVE  TypeOK'
  <2>1. [f EXCEPT !.content = kind] \in Frames
    BY <1>4 DEF DamageFrame, Frames, DataFrame, Contents
  <2>2. Taken(data, f) \in [Frames -> Nat]
    BY <1>4, TakenType DEF DamageFrame, TypeOK, RoutesTypeOK
  <2>3. data' \in [Frames -> Nat]
    BY <1>4, <2>1, <2>2, SentType DEF DamageFrame
  <2>4. QED
    BY <1>1, <1>4, <2>3 DEF DamageFrame, TypeOK, RoutesTypeOK
<1>5. QED
  BY <1>2, <1>3, <1>4

LEMMA FaultsType ==
  ASSUME TypeOK, Faults
  PROVE  TypeOK'
<1>1. CASE ReadFails /\ BySender
  <2>1. Idle \in [at : PumpAt, block : Blocks, chunk : Chunks]
    BY Zero DEF Idle, PumpAt
  <2>2. SenderTypeOK'
    BY <1>1, <2>1 DEF ReadFails, TypeOK, SenderTypeOK
  <2>3. QED
    BY <1>1, <2>2 DEF ReadFails, BySender, receiverVars, faultVars, TypeOK,
                      ReceiverTypeOK, RoutesTypeOK
<1>2. QED
  BY <1>1, FileDoneType, VerificationType, RouteFaultsType DEF Faults

LEMMA InitType == Init => TypeOK
<1> SUFFICES ASSUME Init PROVE TypeOK
  OBVIOUS
<1>1. SenderTypeOK
  <2>1. pending \in Seq(Blocks)
    <3>1. \A i \in 1 .. NumBlocks : i - 1 \in Blocks
      BY RoutesAssumption DEF Blocks
    <3>2. NumBlocks \in Nat
      BY RoutesAssumption
    <3>3. pending = [i \in 1 .. NumBlocks |-> i - 1]
      BY DEF Init, SenderInit
    <3>4. pending \in [1 .. NumBlocks -> Blocks]
      BY <3>1, <3>3
    <3>5. QED
      BY <3>2, <3>4, SeqDef
  <2>2. pump \in [at : PumpAt, block : Blocks, chunk : Chunks]
    BY Zero DEF Init, SenderInit, Idle, PumpAt
  <2>3. credits \in 0 .. MaxCredits
    BY SenderAssumption DEF Init, SenderInit
  <2>4. /\ acked \subseteq Blocks /\ timers \subseteq Blocks /\ prefetched \subseteq Blocks
        /\ paused \in BOOLEAN /\ cancelled \in BOOLEAN /\ completed \in BOOLEAN
        /\ started \in BOOLEAN /\ txActive \in BOOLEAN /\ pauses \in Nat
    BY DEF Init, SenderInit
  <2>5. QED
    BY <2>1, <2>2, <2>3, <2>4 DEF SenderTypeOK
<1>2. ReceiverTypeOK
  <2>1. chunks \in [Blocks -> [Chunks -> Slots]]
    <3>1. NoChunk \in [Chunks -> Slots]
      BY DEF NoChunk, Slots
    <3>2. QED
      BY <3>1 DEF Init, ReceiverInit
  <2>2. retries \in [Blocks -> 0 .. MaxRetries + 1] /\ bytes \in [Blocks -> Int]
    BY ReceiverAssumption DEF Init, ReceiverInit
  <2>3. /\ verifying \in [Blocks -> {"idle", "hash", "write"}]
        /\ snapshot \in [Blocks -> {"good", "bad"}]
        /\ disk \in [Blocks -> Stored]
    BY DEF Init, ReceiverInit, Stored
  <2>4. QED
    BY <2>1, <2>2, <2>3 DEF Init, ReceiverInit, ReceiverTypeOK
<1>3. QED
  BY <1>1, <1>2 DEF Init, RoutesInit, RoutesTypeOK, TypeOK

LEMMA NextType == TypeOK /\ [Next]_vars => TypeOK'
<1> SUFFICES ASSUME TypeOK, [Next]_vars PROVE TypeOK'
  OBVIOUS
<1>1. CASE UNCHANGED vars
  BY <1>1 DEF vars, senderVars, receiverVars, routeVars, faultVars, TypeOK,
              SenderTypeOK, ReceiverTypeOK, RoutesTypeOK
<1>2. CASE Next
  BY <1>2, PumpStepType, SenderUserType, ReceiverUserType, FileDoneType, FaultsType,
     SenderHandlesType, ReceiverHandlesType, FrameArrivesType, WatchdogFiresType,
     StallFiresType, VerificationType
  DEF Next
<1>3. QED
  BY <1>1, <1>2

\* Every variable of both pipelines and of the routes keeps its type.
THEOREM TypeCorrect == Spec => []TypeOK
<1>1. QED
  BY InitType, NextType, PTL DEF Spec

-----------------------------------------------------------------------------
(* Acknowledgements on the control route.                                  *)

\* No step but the receiver's puts an acknowledgement on its way.
NoNewAcks == \A b \in Blocks : ctl'[BlockAck(b)] > 0 => ctl[BlockAck(b)] > 0

LEMMA AcksApart ==
  \A b \in Blocks :
    /\ \A c \in Blocks : /\ BlockAck(b) # BlockRetry(c)
                         /\ BlockAck(b) # BlockEnd(c)
                         /\ BlockAck(b) = BlockAck(c) => b = c
    /\ BlockAck(b) \notin {CreditGrant, CancelAtReceiver, CancelAtSender}
BY DEF BlockAck, BlockRetry, BlockEnd, CreditGrant, CancelAtReceiver, CancelAtSender

\* Sending any other message leaves the acknowledgements in flight as they are.
LEMMA SentKeepsAcks ==
  ASSUME NEW net \in [CtlMsgs -> Nat], NEW m \in CtlMsgs, NEW b \in Blocks, m # BlockAck(b)
  PROVE  Sent(net, m)[BlockAck(b)] = net[BlockAck(b)]
BY MessageTypes DEF Sent

\* Taking a message makes none appear.
LEMMA TakenAddsNoAck ==
  ASSUME NEW net \in [CtlMsgs -> Nat], NEW m \in CtlMsgs, NEW b \in Blocks,
         Taken(net, m)[BlockAck(b)] > 0
  PROVE  net[BlockAck(b)] > 0
BY MessageTypes DEF Taken

-----------------------------------------------------------------------------
(* The sender's steps.                                                     *)

\* A step of the sender that neither counts an acknowledgement nor makes one.
LEMMA SenderQuiet ==
  ASSUME IInv, UNCHANGED receiverVars, NoNewAcks, UNCHANGED <<acked, completed>>
  PROVE  AcksFollow' /\ WritesMatch' /\ ClosedOnce'
BY DEF IInv, receiverVars, NoNewAcks, AcksFollow, WritesMatch, ClosedOnce, DeliveredIntact

LEMMA PumpStepSafe ==
  ASSUME IInv, PumpStep
  PROVE  AcksFollow' /\ WritesMatch' /\ ClosedOnce'
<1>1. UNCHANGED receiverVars /\ UNCHANGED <<acked, completed>>
  BY DEF PumpStep, BySender, Start, ChunkGate, SendChunk, SendBlockEnd, ArmWatchdog
<1>2. NoNewAcks
  <2>1. CASE UNCHANGED ctl
    BY <2>1 DEF NoNewAcks
  <2>2. CASE SendBlockEnd
    <3>1. pump.block \in Blocks /\ ctl \in [CtlMsgs -> Nat]
      BY DEF IInv, TypeOK, SenderTypeOK, RoutesTypeOK
    <3>2. ctl' = Sent(ctl, BlockEnd(pump.block))
      BY <2>2 DEF SendBlockEnd
    <3>3. \A b \in Blocks : ctl'[BlockAck(b)] = ctl[BlockAck(b)]
      BY <3>1, <3>2, SentKeepsAcks, AcksApart, MessageTypes
    <3>4. QED
      BY <3>3 DEF NoNewAcks
  <2>3. QED
    BY <2>1, <2>2 DEF PumpStep, Start, ChunkGate, SendChunk, ArmWatchdog
<1>3. QED
  BY <1>1, <1>2, SenderQuiet

LEMMA SenderUserSafe ==
  ASSUME IInv, SenderUser \/ UserResumes \/ (\E b \in Blocks : WatchdogFires(b))
               \/ (ReadFails /\ BySender)
  PROVE  AcksFollow' /\ WritesMatch' /\ ClosedOnce'
<1>1. UNCHANGED receiverVars /\ UNCHANGED <<acked, completed>>
  BY DEF SenderUser, UserResumes, WatchdogFires, BySender, Pause, CancelSending,
         StopSending, Resume, Watchdog, ReadFails
<1>2. NoNewAcks
  <2>1. CASE UNCHANGED ctl
    BY <2>1 DEF NoNewAcks
  <2>2. CASE ctl' = Sent(ctl, CancelAtReceiver)
    <3>1. \A b \in Blocks : ctl'[BlockAck(b)] = ctl[BlockAck(b)]
      BY <2>2, SentKeepsAcks, AcksApart, MessageTypes DEF IInv, TypeOK, RoutesTypeOK
    <3>2. QED
      BY <3>1 DEF NoNewAcks
  <2>3. QED
    BY <2>1, <2>2 DEF SenderUser, UserResumes, WatchdogFires, Pause, CancelSending,
                      Resume, Watchdog, ReadFails
<1>3. QED
  BY <1>1, <1>2, SenderQuiet

LEMMA SenderHandlesSafe ==
  ASSUME IInv, NEW m \in CtlMsgs, SenderHandles(m)
  PROVE  AcksFollow' /\ WritesMatch' /\ ClosedOnce'
<1>1. UNCHANGED receiverVars
  BY DEF SenderHandles, BySender
<1>2. ctl' = Taken(ctl, m) /\ ctl[m] > 0
  BY DEF SenderHandles, RecvCredit, RecvCancelAtSender, RecvAck, RecvRetry, IgnoreCtl
<1>3. NoNewAcks
  BY <1>2, TakenAddsNoAck DEF NoNewAcks, IInv, TypeOK, RoutesTypeOK
<1>4. CASE UNCHANGED <<acked, completed>>
  BY <1>1, <1>3, <1>4, SenderQuiet
<1>5. ASSUME NEW b \in Blocks, m = BlockAck(b), RecvAck(b)
      PROVE  AcksFollow' /\ WritesMatch' /\ ClosedOnce'
  <2>1. b \in verified
    BY <1>2, <1>5 DEF IInv, AcksFollow
  <2>2. acked' = acked \cup {b} /\ acked' \in SUBSET Blocks /\ UNCHANGED verified
    BY <1>1, <1>5 DEF RecvAck, IInv, TypeOK, SenderTypeOK, receiverVars
  <2>3. completed' => acked' = Blocks
    <3>1. CASE AllAcked(acked')
      BY <2>2, <3>1, AllBlocks DEF AllAcked
    <3>2. CASE UNCHANGED completed
      BY <2>2, <3>2 DEF IInv, AcksFollow
    <3>3. QED
      BY <1>5, <3>1, <3>2 DEF RecvAck
  <2>4. AcksFollow'
    BY <1>3, <2>1, <2>2, <2>3 DEF NoNewAcks, IInv, AcksFollow
  <2>5. WritesMatch' /\ ClosedOnce'
    BY <1>1 DEF receiverVars, IInv, WritesMatch, ClosedOnce, DeliveredIntact
  <2>6. QED
    BY <2>4, <2>5
<1>6. CASE RecvCredit \/ RecvCancelAtSender \/ IgnoreCtl(m) \/ (\E b \in Blocks : RecvRetry(b))
  <2>1. UNCHANGED <<acked, completed>>
    BY <1>6 DEF RecvCredit, RecvCancelAtSender, StopSending, IgnoreCtl, senderVars, RecvRetry
  <2>2. QED
    BY <1>4, <2>1
<1>7. QED
  BY <1>5, <1>6 DEF SenderHandles

-----------------------------------------------------------------------------
(* The receiver's steps.                                                   *)

\* What a look at a block, or any step that verifies nothing, leaves alone.
VerificationKept ==
  /\ \A c \in Blocks : verifying'[c] = "write" => verifying[c] = "write" /\ snapshot'[c] = snapshot[c]
  /\ \A c \in verified : verifying[c] = "idle" => verifying'[c] = "idle"

OnlyVerifiedAcked == \A c \in Blocks : ctl'[BlockAck(c)] > 0 => c \in verified

LEMMA ReceiverQuiet ==
  ASSUME IInv, UNCHANGED senderVars, VerificationKept, OnlyVerifiedAcked,
         UNCHANGED <<verified, disk, final, output, rxCancelled>>,
         rxActive' => rxActive
  PROVE  AcksFollow' /\ WritesMatch' /\ ClosedOnce'
<1>1. AcksFollow'
  BY DEF IInv, AcksFollow, OnlyVerifiedAcked, senderVars
<1>2. WritesMatch'
  BY DEF IInv, WritesMatch, VerificationKept, TypeOK, ReceiverTypeOK
<1>3. ClosedOnce'
  BY DEF IInv, ClosedOnce, DeliveredIntact
<1>4. QED
  BY <1>1, <1>2, <1>3

\* tryVerifyBlock, entered at any state that is not ahead of the block's own.
LEMMA TryVerifyKeeps ==
  ASSUME IInv, NEW b \in Blocks, NEW row, NEW size, NEW known, NEW state,
         state = verifying[b] \/ state = "idle",
         NEW net \in [CtlMsgs -> Nat],
         TryVerify(b, row, size, known, state, net)
  PROVE  /\ VerificationKept
         /\ \A c \in Blocks : ctl'[BlockAck(c)] = net[BlockAck(c)]
<1>1. verifying \in [Blocks -> {"idle", "hash", "write"}] /\ snapshot \in [Blocks -> {"good", "bad"}]
      /\ verified \subseteq Blocks
  BY DEF IInv, TypeOK, ReceiverTypeOK
<1>2. VerificationKept
  <2>1. CASE verifying' \in {[verifying EXCEPT ![b] = state], [verifying EXCEPT ![b] = "idle"]}
             /\ UNCHANGED snapshot
    BY <1>1, <2>1 DEF VerificationKept
  <2>2. CASE b \notin verified /\ verifying' = [verifying EXCEPT ![b] = "hash"]
             /\ snapshot' = [snapshot EXCEPT ![b] = Worth(row)]
    BY <1>1, <2>2 DEF VerificationKept
  <2>3. QED
    BY <2>1, <2>2 DEF TryVerify, Looks
<1>3. \A c \in Blocks : ctl'[BlockAck(c)] = net[BlockAck(c)]
  <2>1. CASE ctl' = net
    BY <2>1
  <2>2. CASE ctl' = Sent(net, BlockRetry(b))
    BY <2>2, SentKeepsAcks, AcksApart, MessageTypes
  <2>3. QED
    BY <2>1, <2>2 DEF TryVerify
<1>4. QED
  BY <1>2, <1>3

LEMMA HandleBlockEndSafe ==
  ASSUME IInv, NEW b \in Blocks, NEW net \in [CtlMsgs -> Nat],
         \A c \in Blocks : net[BlockAck(c)] > 0 => c \in verified,
         HandleBlockEnd(b, net), UNCHANGED senderVars
  PROVE  AcksFollow' /\ WritesMatch' /\ ClosedOnce'
<1>1. UNCHANGED <<verified, disk, final, output, rxActive, rxCancelled>>
  BY DEF HandleBlockEnd
<1>2. CASE b \in verified /\ ctl' = Sent(net, BlockAck(b)) /\ UNCHANGED <<verifying, snapshot>>
  <2>1. \A c \in Blocks : c # b => ctl'[BlockAck(c)] = net[BlockAck(c)]
    BY <1>2, SentKeepsAcks, AcksApart, MessageTypes
  <2>2. OnlyVerifiedAcked
    BY <1>2, <2>1 DEF OnlyVerifiedAcked
  <2>3. VerificationKept
    BY <1>2 DEF VerificationKept
  <2>4. QED
    BY <1>1, <2>2, <2>3, ReceiverQuiet
<1>3. CASE TryVerify(b, chunks[b], bytes[b], ends \cup {b}, verifying[b], net)
  <2> DEFINE row == chunks[b]
             size == bytes[b]
             known == ends \cup {b}
             state == verifying[b]
  <2>1. TryVerify(b, row, size, known, state, net) /\ (state = verifying[b] \/ state = "idle")
    BY <1>3
  <2> HIDE DEF row, size, known, state
  <2>2. VerificationKept /\ \A c \in Blocks : ctl'[BlockAck(c)] = net[BlockAck(c)]
    BY <2>1, TryVerifyKeeps
  <2>3. OnlyVerifiedAcked
    BY <2>2 DEF OnlyVerifiedAcked
  <2>4. QED
    BY <1>1, <2>2, <2>3, ReceiverQuiet
<1>4. QED
  BY <1>2, <1>3 DEF HandleBlockEnd

LEMMA FrameArrivesSafe ==
  ASSUME IInv, NEW f \in Frames, FrameArrives(f)
  PROVE  AcksFollow' /\ WritesMatch' /\ ClosedOnce'
<1>1. UNCHANGED senderVars
  BY DEF FrameArrives, ByReceiver
<1>2. ctl \in [CtlMsgs -> Nat] /\ \A c \in Blocks : ctl[BlockAck(c)] > 0 => c \in verified
  BY DEF IInv, TypeOK, RoutesTypeOK, AcksFollow
<1>3. CASE f \in DataFrame /\ RecvChunk(f)
  <2> DEFINE b     == f.block
             row   == [chunks[b] EXCEPT ![f.chunk] = f.content]
             size  == Recounted(f)
             state == verifying[b]
  <2>1. b \in Blocks /\ (state = verifying[b] \/ state = "idle")
    BY <1>3 DEF DataFrame
  <2>2. TryVerify(b, row, size, ends, state, ctl)
        /\ UNCHANGED <<verified, disk, final, output, rxActive, rxCancelled>>
    BY <1>3 DEF RecvChunk
  <2> HIDE DEF b, row, size, state
  <2>3. VerificationKept /\ \A c \in Blocks : ctl'[BlockAck(c)] = ctl[BlockAck(c)]
    BY <1>2, <2>1, <2>2, TryVerifyKeeps
  <2>4. OnlyVerifiedAcked
    BY <1>2, <2>3 DEF OnlyVerifiedAcked
  <2>5. QED
    BY <1>1, <2>2, <2>3, <2>4, ReceiverQuiet
<1>4. CASE f \in EndFrame /\ RecvInBandEnd(f.block)
  <2>1. f.block \in Blocks /\ HandleBlockEnd(f.block, ctl)
    BY <1>4 DEF EndFrame, RecvInBandEnd
  <2>2. QED
    BY <1>1, <1>2, <2>1, HandleBlockEndSafe
<1>5. CASE IgnoreFrame(f)
  <2>1. VerificationKept /\ OnlyVerifiedAcked
        /\ UNCHANGED <<verified, disk, final, output, rxActive, rxCancelled>>
    BY <1>2, <1>5 DEF IgnoreFrame, receiverVars, VerificationKept, OnlyVerifiedAcked
  <2>2. QED
    BY <1>1, <2>1, ReceiverQuiet
<1>6. QED
  BY <1>3, <1>4, <1>5 DEF FrameArrives

\* The writer is aborted before the file was handed over.
LEMMA StopReceivingSafe ==
  ASSUME IInv, rxActive, StopReceiving, UNCHANGED senderVars, OnlyVerifiedAcked
  PROVE  AcksFollow' /\ WritesMatch' /\ ClosedOnce'
<1>1. AcksFollow'
  BY DEF IInv, AcksFollow, OnlyVerifiedAcked, StopReceiving, senderVars
<1>2. WritesMatch'
  BY DEF IInv, WritesMatch, StopReceiving
<1>3. ClosedOnce'
  BY DEF IInv, ClosedOnce, DeliveredIntact, StopReceiving
<1>4. QED
  BY <1>1, <1>2, <1>3

LEMMA ReceiverHandlesSafe ==
  ASSUME IInv, NEW m \in CtlMsgs, ReceiverHandles(m)
  PROVE  AcksFollow' /\ WritesMatch' /\ ClosedOnce'
<1>1. UNCHANGED senderVars
  BY DEF ReceiverHandles, ByReceiver
<1>2. ctl \in [CtlMsgs -> Nat] /\ ctl[m] > 0
  BY DEF IInv, TypeOK, RoutesTypeOK, ReceiverHandles, RecvCancelAtReceiver, RecvBlockEnd, IgnoreBlockEnd
<1>3. Taken(ctl, m) \in [CtlMsgs -> Nat]
      /\ \A c \in Blocks : Taken(ctl, m)[BlockAck(c)] > 0 => c \in verified
  BY <1>2, TakenType, TakenAddsNoAck DEF IInv, AcksFollow
<1>4. CASE m = CancelAtReceiver /\ RecvCancelAtReceiver
  <2>1. OnlyVerifiedAcked
    BY <1>3, <1>4 DEF RecvCancelAtReceiver, StopReceiving, OnlyVerifiedAcked
  <2>2. CASE rxActive /\ StopReceiving
    BY <1>1, <2>1, <2>2, StopReceivingSafe
  <2>3. CASE UNCHANGED receiverVars
    BY <1>1, <2>1, <2>3, ReceiverQuiet DEF receiverVars, VerificationKept
  <2>4. QED
    BY <1>4, <2>2, <2>3 DEF RecvCancelAtReceiver
<1>5. ASSUME NEW b \in Blocks, m = BlockEnd(b), RecvBlockEnd(b)
      PROVE  AcksFollow' /\ WritesMatch' /\ ClosedOnce'
  <2> DEFINE net == Taken(ctl, m)
  <2>1. HandleBlockEnd(b, net)
    BY <1>5 DEF RecvBlockEnd
  <2>2. net \in [CtlMsgs -> Nat] /\ \A c \in Blocks : net[BlockAck(c)] > 0 => c \in verified
    BY <1>3
  <2> HIDE DEF net
  <2>3. QED
    BY <1>1, <2>1, <2>2, HandleBlockEndSafe
<1>6. ASSUME NEW b \in Blocks, m = BlockEnd(b), IgnoreBlockEnd(b)
      PROVE  AcksFollow' /\ WritesMatch' /\ ClosedOnce'
  <2>1. OnlyVerifiedAcked /\ VerificationKept
        /\ UNCHANGED <<verified, disk, final, output, rxActive, rxCancelled>>
    BY <1>3, <1>6 DEF IgnoreBlockEnd, OnlyVerifiedAcked, VerificationKept, receiverVars
  <2>2. QED
    BY <1>1, <2>1, ReceiverQuiet
<1>7. QED
  BY <1>4, <1>5, <1>6 DEF ReceiverHandles

\* A verified block whose bytes matched is on disk before its acknowledgement
\* leaves; the last one closes the file.
LEMMA WriteDoneSafe ==
  ASSUME IInv, NEW b \in Blocks, WriteDone(b), UNCHANGED senderVars
  PROVE  AcksFollow' /\ WritesMatch' /\ ClosedOnce'
<1>1. /\ ctl \in [CtlMsgs -> Nat] /\ verified \subseteq Blocks
      /\ verifying \in [Blocks -> {"idle", "hash", "write"}]
      /\ disk \in [Blocks -> Stored]
  BY DEF IInv, TypeOK, RoutesTypeOK, ReceiverTypeOK
<1>2. b \notin verified /\ final = "open" /\ output = NoOutput
  BY DEF IInv, WritesMatch, ClosedOnce, WriteDone
<1>3. verified' = verified \cup {b} /\ verified' \in SUBSET Blocks
  BY <1>1 DEF WriteDone
<1>4. AcksFollow'
  <2>1. \A c \in Blocks : c # b => ctl'[BlockAck(c)] = ctl[BlockAck(c)]
    <3> DEFINE net == Sent(ctl, BlockAck(b))
    <3>1. net \in [CtlMsgs -> Nat]
      BY <1>1, MessageTypes, SentType
    <3>2. \A c \in Blocks : c # b => net[BlockAck(c)] = ctl[BlockAck(c)]
      BY <1>1, SentKeepsAcks, AcksApart, MessageTypes
    <3>3. ctl' = Sent(net, CreditGrant)
      BY DEF WriteDone
    <3> HIDE DEF net
    <3>4. \A c \in Blocks : ctl'[BlockAck(c)] = net[BlockAck(c)]
      BY <3>1, <3>3, SentKeepsAcks, AcksApart, MessageTypes
    <3>5. QED
      BY <3>2, <3>4
  <2>2. QED
    BY <1>3, <2>1 DEF IInv, AcksFollow, senderVars
<1>5. WritesMatch'
  <2>1. \A c \in Blocks : verifying'[c] = "write" => snapshot'[c] = "good"
    BY <1>1 DEF WriteDone, IInv, WritesMatch
  <2>2. \A c \in verified' : verifying'[c] = "idle"
    BY <1>1, <1>3 DEF WriteDone, IInv, WritesMatch
  <2>3. ~rxCancelled' => \A c \in verified' : disk'[c] = "good"
    BY <1>1, <1>3 DEF WriteDone, IInv, WritesMatch
  <2>4. QED
    BY <2>1, <2>2, <2>3 DEF WritesMatch
<1>6. ClosedOnce'
  <2>1. final' # "open" => verified' = Blocks
    BY <1>2, <1>3, AllBlocks DEF WriteDone, AllVerified
  <2>2. final' # "closed" /\ output' = NoOutput
    BY <1>2 DEF WriteDone
  <2>3. QED
    BY <2>1, <2>2 DEF ClosedOnce, DeliveredIntact
<1>7. QED
  BY <1>4, <1>5, <1>6

LEMMA VerificationSafe ==
  ASSUME IInv, NEW b \in Blocks,
         Verification(b) \/ (WriteFails(b) /\ ByReceiver)
  PROVE  AcksFollow' /\ WritesMatch' /\ ClosedOnce'
<1>1. UNCHANGED senderVars
  BY DEF Verification, ByReceiver
<1>2. /\ ctl \in [CtlMsgs -> Nat] /\ \A c \in Blocks : ctl[BlockAck(c)] > 0 => c \in verified
      /\ verifying \in [Blocks -> {"idle", "hash", "write"}]
  BY DEF IInv, TypeOK, RoutesTypeOK, ReceiverTypeOK, AcksFollow
<1>3. CASE HashMatches(b)
  <2>1. AcksFollow' /\ ClosedOnce'
    BY <1>1, <1>3 DEF HashMatches, IInv, AcksFollow, ClosedOnce, DeliveredIntact, senderVars, routeVars
  <2>2. WritesMatch'
    BY <1>2, <1>3 DEF HashMatches, IInv, WritesMatch
  <2>3. QED
    BY <2>1, <2>2
<1>4. ASSUME FailAndLookAgain(b), UNCHANGED <<verified, disk, final, output, rxCancelled>>
      PROVE  AcksFollow' /\ WritesMatch' /\ ClosedOnce'
  <2> DEFINE row == chunks[b]
             size == bytes[b]
             state == "idle"
  <2>1. TryVerify(b, row, size, ends, state, ctl) /\ (state = verifying[b] \/ state = "idle")
    BY <1>4 DEF FailAndLookAgain
  <2> HIDE DEF row, size, state
  <2>2. VerificationKept /\ \A c \in Blocks : ctl'[BlockAck(c)] = ctl[BlockAck(c)]
    BY <1>2, <2>1, TryVerifyKeeps
  <2>3. OnlyVerifiedAcked
    BY <1>2, <2>2 DEF OnlyVerifiedAcked
  <2>4. rxActive' => rxActive
    BY <1>4 DEF FailAndLookAgain
  <2>5. QED
    BY <1>1, <1>4, <2>2, <2>3, <2>4, ReceiverQuiet
<1>5. CASE HashDiffers(b)
  <2>1. UNCHANGED <<verified, disk, final, output, rxCancelled>>
    BY <1>5 DEF HashDiffers
  <2>2. CASE FailAndLookAgain(b)
    BY <1>4, <2>1, <2>2
  <2>3. CASE /\ ctl' = Sent(ctl, BlockRetry(b))
             /\ verifying' = [verifying EXCEPT ![b] = "idle"]
             /\ UNCHANGED <<stalls, snapshot, rxActive, rxHung>>
    <3>1. \A c \in Blocks : ctl'[BlockAck(c)] = ctl[BlockAck(c)]
      BY <1>2, <2>3, SentKeepsAcks, AcksApart, MessageTypes
    <3>2. VerificationKept /\ OnlyVerifiedAcked
      BY <1>2, <2>3, <3>1 DEF VerificationKept, OnlyVerifiedAcked, IInv, TypeOK, ReceiverTypeOK
    <3>3. QED
      BY <1>1, <2>1, <2>3, <3>2, ReceiverQuiet
  <2>4. QED
    BY <1>5, <2>2, <2>3 DEF HashDiffers
<1>6. CASE WriteDone(b)
  BY <1>1, <1>6, WriteDoneSafe
<1>7. CASE WriteFails(b)
  BY <1>4, <1>7 DEF WriteFails
<1>8. QED
  BY <1>3, <1>5, <1>6, <1>7 DEF Verification

LEMMA StallFiresSafe ==
  ASSUME IInv, NEW b \in Blocks, StallFires(b)
  PROVE  AcksFollow' /\ WritesMatch' /\ ClosedOnce'
<1>1. ctl \in [CtlMsgs -> Nat] /\ \A c \in Blocks : ctl[BlockAck(c)] > 0 => c \in verified
  BY DEF IInv, TypeOK, RoutesTypeOK, AcksFollow
<1>2. \A c \in Blocks : ctl'[BlockAck(c)] = ctl[BlockAck(c)]
  <2>1. CASE ctl' = ctl
    BY <2>1
  <2>2. CASE ctl' = Sent(ctl, BlockRetry(b))
    BY <1>1, <2>2, SentKeepsAcks, AcksApart, MessageTypes
  <2>3. QED
    BY <2>1, <2>2 DEF StallFires, Stall
<1>3. VerificationKept /\ OnlyVerifiedAcked
      /\ UNCHANGED <<verified, disk, final, output, rxActive, rxCancelled>>
      /\ UNCHANGED senderVars
  BY <1>1, <1>2 DEF StallFires, Stall, VerificationKept, OnlyVerifiedAcked
<1>4. QED
  BY <1>3, ReceiverQuiet

\* What the writer holds when the file is closed is the whole file.
LEMMA FileDoneSafe ==
  ASSUME IInv, FileDone \/ (FinalizeFails /\ ByReceiver)
  PROVE  AcksFollow' /\ WritesMatch' /\ ClosedOnce'
<1>1. UNCHANGED <<senderVars, ctl, verified, verifying, snapshot, disk, rxCancelled>>
  BY DEF FileDone, Finalize, FinalizeFails, ByReceiver, routeVars
<1>2. verified = Blocks /\ final' = "closed" /\ ~rxActive' /\ final = "closing"
  BY DEF FileDone, Finalize, FinalizeFails, IInv, ClosedOnce
<1>3. AcksFollow' /\ WritesMatch'
  BY <1>1 DEF IInv, AcksFollow, WritesMatch, senderVars
<1>4. DeliveredIntact'
  <2>1. CASE output' = disk
    <3>1. ~rxCancelled => \A b \in Blocks : disk[b] = "good"
      BY <1>2 DEF IInv, WritesMatch
    <3>2. ~rxCancelled => disk = Intact
      BY <3>1 DEF Intact, IInv, TypeOK, ReceiverTypeOK
    <3>3. QED
      BY <1>1, <2>1, <3>2 DEF DeliveredIntact, Intact
  <2>2. CASE UNCHANGED output
    BY <1>1, <2>2 DEF IInv, ClosedOnce, DeliveredIntact, Intact
  <2>3. QED
    BY <2>1, <2>2 DEF FileDone, Finalize, FinalizeFails
<1>5. QED
  BY <1>1, <1>2, <1>3, <1>4 DEF ClosedOnce

LEMMA ReceiverUserSafe ==
  ASSUME IInv, ReceiverUser
  PROVE  AcksFollow' /\ WritesMatch' /\ ClosedOnce'
<1>1. ctl \in [CtlMsgs -> Nat] /\ \A c \in Blocks : ctl[BlockAck(c)] > 0 => c \in verified
  BY DEF IInv, TypeOK, RoutesTypeOK, AcksFollow
<1>2. ctl' = Sent(ctl, CancelAtSender) /\ rxActive /\ StopReceiving /\ UNCHANGED senderVars
  BY DEF ReceiverUser, CancelReceiving, ByReceiver
<1>3. OnlyVerifiedAcked
  <2>1. \A c \in Blocks : ctl'[BlockAck(c)] = ctl[BlockAck(c)]
    BY <1>1, <1>2, SentKeepsAcks, AcksApart, MessageTypes
  <2>2. QED
    BY <1>1, <1>2, <2>1 DEF OnlyVerifiedAcked, StopReceiving
<1>4. QED
  BY <1>2, <1>3, StopReceivingSafe

LEMMA RouteFaultsSafe ==
  ASSUME IInv, ByRoutes,
         \/ \E f \in Frames : LoseFrame(f)
         \/ \E m \in CtlMsgs : LoseCtl(m)
         \/ \E f \in Frames, kind \in DamageKinds : DamageFrame(f, kind)
  PROVE  AcksFollow' /\ WritesMatch' /\ ClosedOnce'
<1>1. UNCHANGED receiverVars /\ UNCHANGED <<acked, completed>>
  BY DEF ByRoutes, senderVars
<1>2. NoNewAcks
  <2>1. CASE UNCHANGED ctl
    BY <2>1 DEF NoNewAcks
  <2>2. ASSUME NEW m \in CtlMsgs, LoseCtl(m)
        PROVE  NoNewAcks
    BY <2>2, TakenAddsNoAck DEF LoseCtl, NoNewAcks, IInv, TypeOK, RoutesTypeOK
  <2>3. QED
    BY <2>1, <2>2 DEF LoseFrame, DamageFrame
<1>3. QED
  BY <1>1, <1>2, SenderQuiet

-----------------------------------------------------------------------------
(* The invariant.                                                          *)

LEMMA InitSafe == Init => IInv
<1>1. Init => AcksFollow /\ WritesMatch /\ ClosedOnce
  BY MessageTypes DEF Init, SenderInit, ReceiverInit, RoutesInit, AcksFollow,
     WritesMatch, ClosedOnce, DeliveredIntact
<1>2. QED
  BY <1>1, InitType DEF IInv

LEMMA NextSafe == IInv /\ [Next]_vars => IInv'
<1> SUFFICES ASSUME IInv, [Next]_vars PROVE IInv'
  OBVIOUS
<1>1. TypeOK'
  BY NextType DEF IInv
<1>2. AcksFollow' /\ WritesMatch' /\ ClosedOnce'
  <2>1. CASE UNCHANGED vars
    BY <2>1 DEF vars, senderVars, receiverVars, routeVars, IInv, AcksFollow,
                WritesMatch, ClosedOnce, DeliveredIntact
  <2>2. CASE Faults
    BY <2>2, SenderUserSafe, FileDoneSafe, VerificationSafe, RouteFaultsSafe DEF Faults
  <2>3. CASE Next /\ ~Faults
    BY <2>3, PumpStepSafe, SenderUserSafe, ReceiverUserSafe, FileDoneSafe,
       SenderHandlesSafe, ReceiverHandlesSafe, FrameArrivesSafe, StallFiresSafe,
       VerificationSafe
    DEF Next
  <2>4. QED
    BY <2>1, <2>2, <2>3
<1>3. QED
  BY <1>1, <1>2 DEF IInv

LEMMA InvariantHolds == Spec => []IInv
<1>1. QED
  BY InitSafe, NextSafe, PTL DEF Spec

\* An acknowledged block is verified and, unless the receiving end cancelled,
\* on disk: handleBlockAck never runs ahead of writeBlock.
THEOREM AckedIsStoredAlways == Spec => []AckedIsStored
<1>1. IInv => AckedIsStored
  BY DEF IInv, AcksFollow, WritesMatch, AckedIsStored, TypeOK, SenderTypeOK
<1>2. QED
  BY <1>1, InvariantHolds, PTL

\* Without a cancel at the receiving end, onFileComplete hands over the bytes
\* that were sent.
THEOREM DeliveredIntactAlways == Spec => []DeliveredIntact
<1>1. IInv => DeliveredIntact
  BY DEF IInv, ClosedOnce
<1>2. QED
  BY <1>1, InvariantHolds, PTL

\* The sender's onFileCompleted is reached only when the receiver has verified
\* every block.
THEOREM CompletedIsWholeAlways == Spec => []CompletedIsWhole
<1>1. IInv => CompletedIsWhole
  BY DEF IInv, AcksFollow, CompletedIsWhole, TypeOK, ReceiverTypeOK
<1>2. QED
  BY <1>1, InvariantHolds, PTL

\* No block is written a second time or into a file that is being closed, and
\* no file is handed over twice.
THEOREM WrittenOnceAlways == Spec => WrittenOnce
<1>1. ASSUME IInv, NEW b \in Blocks, WriteDone(b)
      PROVE  b \notin verified /\ final = "open"
  BY <1>1 DEF IInv, WritesMatch, ClosedOnce, WriteDone
<1>2. ASSUME IInv, Finalize
      PROVE  output = NoOutput
  BY <1>2 DEF IInv, ClosedOnce, Finalize
<1>3. IInv => [ /\ \A b \in Blocks : WriteDone(b) => b \notin verified /\ final = "open"
                /\ Finalize => output = NoOutput ]_vars
  BY <1>1, <1>2
<1>4. QED
  BY <1>3, InvariantHolds, PTL DEF WrittenOnce

-----------------------------------------------------------------------------
(* No block is forgotten.                                                  *)

Queued(b)  == Contains(pending, b)
Sending(b) == pump.at \in {"gate", "held", "send", "end"} /\ pump.block = b

\* The receiver has block b, or knows of it, or is about to: its end is on its way, or
\* its stall timer runs, or it is being verified, or was asked for again.
Known(b) ==
  \/ b \in stalls \cup verified
  \/ verifying[b] # "idle"
  \/ ctl[BlockEnd(b)] > 0 \/ ctl[BlockRetry(b)] > 0

\* A pipeline that was cancelled is not the service's any more.
Stopped == cancelled => ~txActive

\* What was verified was acknowledged, or is about to be.
AcksComing ==
  txActive /\ ctlLost = 0 => \A b \in verified : b \in acked \/ ctl[BlockAck(b)] > 0

\* A block that has left the queue is known to the receiver before the pump goes on,
\* whatever becomes of its watchdog, until it is in the queue again.
Remembered ==
  txActive /\ ctlLost = 0 /\ (rxActive \/ verified = Blocks) =>
    \A b \in Blocks \ acked : Queued(b) \/ Sending(b) \/ Known(b)

MemoryInv == IInv /\ Stopped /\ AcksComing /\ Remembered

-----------------------------------------------------------------------------
LEMMA MessagesApart ==
  \A b, c \in Blocks :
    /\ b # c => BlockEnd(b) # BlockEnd(c) /\ BlockRetry(b) # BlockRetry(c) /\ BlockAck(b) # BlockAck(c)
    /\ BlockEnd(b) # BlockRetry(c) /\ BlockEnd(b) # BlockAck(c) /\ BlockRetry(b) # BlockAck(c)
    /\ {BlockEnd(b), BlockRetry(b), BlockAck(b)} \cap {CreditGrant, CancelAtReceiver, CancelAtSender} = {}
  BY DEF BlockAck, BlockRetry, BlockEnd, CreditGrant, CancelAtReceiver, CancelAtSender

LEMMA SendingAdds ==
  ASSUME NEW net \in [CtlMsgs -> Nat], NEW m \in CtlMsgs
  PROVE  Sent(net, m)[m] > 0 /\ \A x \in CtlMsgs : net[x] > 0 => Sent(net, m)[x] > 0
  BY DEF Sent

LEMMA TakingLeaves ==
  ASSUME NEW net \in [CtlMsgs -> Nat], NEW m \in CtlMsgs
  PROVE  \A x \in CtlMsgs \ {m} : Taken(net, m)[x] = net[x]
  BY DEF Taken

\* The messages about blocks that are on their way stay on it.
MessagesStay ==
  \A b \in Blocks : \A m \in {BlockEnd(b), BlockRetry(b), BlockAck(b)} : ctl[m] > 0 => ctl'[m] > 0

\* The pump takes a block out of the queue only to send it, or because it was acknowledged.
LEMMA PumpForgetsNone ==
  ASSUME NEW queue \in Seq(Blocks), NEW cred \in 0 .. MaxCredits, NEW halt, Pump(queue, cred, halt),
         NEW b \in Blocks \ acked, Contains(queue, b)
  PROVE  Queued(b)' \/ Sending(b)'
<1>1. PICK k \in 1 .. Len(queue) : queue[k] = b BY DEF Contains
<1>2. k \in DOMAIN queue /\ k \in Unacked(queue) BY <1>1 DEF Unacked
<1>3. CASE pending' = queue BY <1>3 DEF Queued
<1>4. ASSUME NEW i \in Unacked(queue), \A j \in Unacked(queue) : i <= j, TakeBlock(queue, i, cred)
      PROVE  Queued(b)' \/ Sending(b)'
  <2>1. i \in 1 .. Len(queue) /\ Len(queue) \in Nat /\ i <= k BY <1>2, <1>4 DEF Unacked
  <2>2. CASE i = k
    <3>1. pump' = [at |-> "gate", block |-> b, chunk |-> 0] BY <1>1, <1>4, <2>2 DEF TakeBlock
    <3>2. QED BY <3>1 DEF Sending
  <2>3. CASE i < k
    <3> DEFINE rest == SubSeq(queue, i + 1, Len(queue))
    <3>1. pending' = rest BY <1>4 DEF TakeBlock
    <3>2. Len(rest) = Len(queue) - i /\ k - i \in 1 .. Len(rest) /\ rest[k - i] = queue[k]
      BY <1>1, <2>1, <2>3
    <3> HIDE DEF rest
    <3>3. QED BY <1>1, <3>1, <3>2 DEF Queued, Contains
  <2>4. QED BY <2>1, <2>2, <2>3, <1>1
<1>5. QED BY <1>2, <1>3, <1>4 DEF Pump

LEMMA KickForgetsNone ==
  ASSUME NEW queue \in Seq(Blocks), NEW cred \in 0 .. MaxCredits, NEW halt, KickPump(queue, cred, halt),
         NEW b \in Blocks \ acked, Contains(queue, b) \/ Sending(b)
  PROVE  Queued(b)' \/ Sending(b)'
<1>1. CASE pump.at = "idle" /\ Pump(queue, cred, halt)
  BY <1>1, PumpForgetsNone DEF Sending
<1>2. CASE pending' = queue /\ UNCHANGED pump
  BY <1>2 DEF Queued, Sending
<1>3. QED BY <1>1, <1>2 DEF KickPump

\* A step of the sender that takes no message about a block
LEMMA SenderForgetsNone ==
  ASSUME MemoryInv, UNCHANGED receiverVars, UNCHANGED ctlLost, txActive' => txActive /\ Stopped',
         acked \subseteq acked',
         \A b \in Blocks : ctl[BlockEnd(b)] > 0 => ctl'[BlockEnd(b)] > 0,
         \A b \in Blocks \ acked' : /\ ctl[BlockAck(b)] > 0 => ctl'[BlockAck(b)] > 0
                                    /\ ctl[BlockRetry(b)] > 0 /\ txActive' =>
                                         ctl'[BlockRetry(b)] > 0 \/ Queued(b)' \/ Sending(b)'
                                    /\ (Queued(b) \/ Sending(b)) /\ txActive' =>
                                         Queued(b)' \/ Sending(b)' \/ ctl'[BlockEnd(b)] > 0
  PROVE  Stopped' /\ AcksComing' /\ Remembered'
<1>1. Stopped' BY DEF Stopped
<1>2. verified \subseteq Blocks BY DEF MemoryInv, IInv, TypeOK, ReceiverTypeOK
<1>3. AcksComing' BY <1>2 DEF MemoryInv, AcksComing, receiverVars
<1>4. Remembered'
  <2>1. SUFFICES ASSUME txActive', ctlLost' = 0, rxActive' \/ verified' = Blocks, NEW b \in Blocks \ acked'
                 PROVE  Queued(b)' \/ Sending(b)' \/ Known(b)'
    BY DEF Remembered
  <2>2. Queued(b) \/ Sending(b) \/ Known(b) BY <2>1 DEF MemoryInv, Remembered, receiverVars
  <2>3. CASE Queued(b) \/ Sending(b) BY <2>1, <2>3 DEF Known
  <2>4. CASE Known(b) BY <2>1, <2>4 DEF Known, receiverVars
  <2>5. QED BY <2>2, <2>3, <2>4
<1>5. QED BY <1>1, <1>3, <1>4

\* While the service has the pipeline, and blocks are missing, it is neither cancelled
\* nor complete.
LEMMA StillGoing ==
  ASSUME MemoryInv, txActive, NEW b \in Blocks \ acked
  PROVE  ~cancelled /\ ~completed
  BY DEF MemoryInv, Stopped, IInv, AcksFollow

LEMMA SenderTypes ==
  ASSUME MemoryInv
  PROVE  /\ pending \in Seq(Blocks) /\ credits \in 0 .. MaxCredits /\ ctl \in [CtlMsgs -> Nat]
         /\ acked \subseteq Blocks /\ pump \in [at : PumpAt, block : Blocks, chunk : Chunks]
         /\ {txActive, cancelled, completed, paused} \subseteq BOOLEAN
  BY DEF MemoryInv, IInv, TypeOK, SenderTypeOK, RoutesTypeOK

LEMMA BlockMessages ==
  ASSUME NEW b \in Blocks
  PROVE  {BlockEnd(b), BlockRetry(b), BlockAck(b)} \subseteq CtlMsgs
  BY MessageTypes

LEMMA PumpStepForgetsNone ==
  ASSUME MemoryInv, PumpStep
  PROVE  Stopped' /\ AcksComing' /\ Remembered'
<1>1. UNCHANGED receiverVars /\ UNCHANGED <<ctlLost, acked, txActive>>
  BY DEF PumpStep, BySender, faultVars, Start, ChunkGate, SendChunk, SendBlockEnd, ArmWatchdog
<1>2. CASE Start
  <2>1. cancelled' = FALSE /\ UNCHANGED ctl BY <1>2 DEF Start
  <2>2. \A b \in Blocks \ acked : Queued(b) \/ Sending(b) => Queued(b)' \/ Sending(b)'
    BY <1>2, SenderTypes, KickForgetsNone DEF Start, Queued
  <2>3. QED BY <1>1, <2>1, <2>2, SenderForgetsNone DEF Stopped
<1>3. CASE ChunkGate
  <2>1. UNCHANGED <<cancelled, ctl>> BY <1>3 DEF ChunkGate
  <2>2. ASSUME NEW b \in Blocks \ acked, txActive, Queued(b) \/ Sending(b)
        PROVE  Queued(b)' \/ Sending(b)'
    <3>1. ~cancelled /\ ~completed BY <2>2, StillGoing
    <3>2. pump' = [pump EXCEPT !.at = IF paused THEN "held" ELSE "send"] /\ UNCHANGED pending
          /\ pump.at \in {"gate", "held"}
      BY <1>3, <3>1 DEF ChunkGate
    <3>3. pump'.at \in {"held", "send"} /\ pump'.block = pump.block BY <3>2, SenderTypes
    <3>4. QED BY <2>2, <3>2, <3>3 DEF Queued, Sending
  <2>3. QED BY <1>1, <2>1, <2>2, SenderForgetsNone DEF Stopped, MemoryInv
<1>4. CASE SendChunk
  <2>1. UNCHANGED <<cancelled, ctl, pending>> BY <1>4 DEF SendChunk
  <2>2. pump'.at \in {"gate", "end"} /\ pump'.block = pump.block BY <1>4, SenderTypes DEF SendChunk
  <2>3. QED BY <1>1, <2>1, <2>2, SenderForgetsNone DEF Stopped, MemoryInv, Queued, Sending
<1>5. CASE SendBlockEnd
  <2>1. UNCHANGED <<cancelled, pending>> /\ ctl' = Sent(ctl, BlockEnd(pump.block)) /\ pump.block \in Blocks
    BY <1>5, SenderTypes DEF SendBlockEnd
  <2>2. ctl'[BlockEnd(pump.block)] > 0 /\ \A m \in CtlMsgs : ctl[m] > 0 => ctl'[m] > 0
    BY <2>1, SenderTypes, BlockMessages, SendingAdds
  <2>3. QED BY <1>1, <2>1, <2>2, BlockMessages, SenderForgetsNone DEF Stopped, MemoryInv, Queued, Sending
<1>6. CASE ArmWatchdog
  <2>1. UNCHANGED <<cancelled, ctl>> /\ pump.at = "arm" BY <1>6 DEF ArmWatchdog
  <2>2. \A b \in Blocks \ acked : Queued(b) => Queued(b)' \/ Sending(b)'
    BY <1>6, SenderTypes, PumpForgetsNone DEF ArmWatchdog, Queued
  <2>3. QED BY <1>1, <2>1, <2>2, SenderForgetsNone DEF Stopped, MemoryInv, Sending
<1>7. QED BY <1>2, <1>3, <1>4, <1>5, <1>6 DEF PumpStep

\* A block that is asked for again is queued again, unless the sender is through with it.
LEMMA RetryForgetsNone ==
  ASSUME MemoryInv, NEW b \in Blocks, RetryBlock(b), txActive, NEW c \in Blocks \ acked,
         c = b \/ Queued(c) \/ Sending(c)
  PROVE  Queued(c)' \/ Sending(c)'
<1>1. ~cancelled /\ ~completed BY StillGoing
<1>2. CASE b \in acked /\ UNCHANGED <<pending, pump>> BY <1>2 DEF Queued, Sending
<1>3. CASE b \notin acked
  <2> DEFINE queue == IF Contains(pending, b) THEN pending ELSE <<b>> \o pending
             cred  == IF credits = 0 THEN 1 ELSE credits
  <2>1. KickPump(queue, cred, FALSE) BY <1>1, <1>3 DEF RetryBlock
  <2>2. queue \in Seq(Blocks) /\ cred \in 0 .. MaxCredits
    BY SenderTypes, SenderAssumption DEF SenderAssumption
  <2>3. Contains(queue, b) /\ (Queued(c) => Contains(queue, c))
    <3>1. CASE Contains(pending, b) BY <3>1 DEF Queued
    <3>2. CASE ~Contains(pending, b)
      <4>1. Len(queue) = Len(pending) + 1 /\ queue[1] = b
            /\ \A i \in 1 .. Len(pending) : queue[i + 1] = pending[i] /\ i + 1 \in 1 .. Len(queue)
        BY <3>2, SenderTypes
      <4>2. QED BY <4>1, SenderTypes DEF Queued, Contains
    <3>3. QED BY <3>1, <3>2
  <2> HIDE DEF queue, cred
  <2>4. QED BY <2>1, <2>2, <2>3, KickForgetsNone
<1>4. QED BY <1>1, <1>2, <1>3 DEF RetryBlock

LEMMA SenderHandlesForgetsNone ==
  ASSUME MemoryInv, NEW m \in CtlMsgs, SenderHandles(m)
  PROVE  Stopped' /\ AcksComing' /\ Remembered'
<1>1. UNCHANGED receiverVars /\ UNCHANGED ctlLost BY DEF SenderHandles, BySender, faultVars
<1>2. ctl' = Taken(ctl, m)
  BY DEF SenderHandles, RecvCredit, RecvCancelAtSender, RecvAck, RecvRetry, IgnoreCtl
<1>3. \A x \in CtlMsgs \ {m} : ctl'[x] = ctl[x] BY <1>2, SenderTypes, TakingLeaves
<1>4. CASE m = CreditGrant /\ RecvCredit
  <2>1. \A b \in Blocks \ acked : Queued(b) \/ Sending(b) => Queued(b)' \/ Sending(b)'
    <3>1. Granted(credits) \in 0 .. MaxCredits BY SenderTypes, SenderAssumption DEF SenderAssumption, Granted
    <3>2. KickPump(pending, Granted(credits), paused \/ cancelled \/ completed) BY <1>4 DEF RecvCredit
    <3> DEFINE cred == Granted(credits)
               halt == paused \/ cancelled \/ completed
    <3> HIDE DEF cred, halt
    <3>3. KickPump(pending, cred, halt) /\ cred \in 0 .. MaxCredits BY <3>1, <3>2 DEF cred, halt
    <3>4. QED BY <3>3, SenderTypes, KickForgetsNone DEF Queued
  <2>2. UNCHANGED <<acked, cancelled, txActive>> BY <1>4 DEF RecvCredit
  <2>3. \A b \in Blocks : \A x \in {BlockEnd(b), BlockRetry(b), BlockAck(b)} : ctl'[x] = ctl[x]
    BY <1>3, <1>4, BlockMessages, MessagesApart
  <2>4. QED BY <1>1, <2>1, <2>2, <2>3, SenderForgetsNone DEF Stopped, MemoryInv
<1>5. CASE txActive' = FALSE
  BY <1>5 DEF Stopped, AcksComing, Remembered
<1>6. ASSUME NEW b \in Blocks, m = BlockAck(b), RecvAck(b)
      PROVE  Stopped' /\ AcksComing' /\ Remembered'
  <2>1. acked' = acked \cup {b} /\ UNCHANGED <<pending, pump, cancelled>> /\ (txActive' => txActive)
    BY <1>6, SenderTypes DEF RecvAck
  <2>2. \A c \in Blocks : /\ ctl'[BlockEnd(c)] = ctl[BlockEnd(c)] /\ ctl'[BlockRetry(c)] = ctl[BlockRetry(c)]
                          /\ c # b => ctl'[BlockAck(c)] = ctl[BlockAck(c)]
    BY <1>3, <1>6, BlockMessages, MessagesApart
  <2>3. QED BY <1>1, <2>1, <2>2, SenderForgetsNone DEF Stopped, MemoryInv, Queued, Sending
<1>7. ASSUME NEW b \in Blocks, m = BlockRetry(b), RecvRetry(b)
      PROVE  Stopped' /\ AcksComing' /\ Remembered'
  <2>1. UNCHANGED <<acked, cancelled, txActive>> /\ RetryBlock(b) /\ txActive BY <1>7 DEF RecvRetry
  <2>2. \A c \in Blocks : /\ ctl'[BlockEnd(c)] = ctl[BlockEnd(c)] /\ ctl'[BlockAck(c)] = ctl[BlockAck(c)]
                          /\ c # b => ctl'[BlockRetry(c)] = ctl[BlockRetry(c)]
    BY <1>3, <1>7, BlockMessages, MessagesApart
  <2>3. \A c \in Blocks \ acked : c = b \/ Queued(c) \/ Sending(c) => Queued(c)' \/ Sending(c)'
    BY <2>1, RetryForgetsNone
  <2>4. QED BY <1>1, <2>1, <2>2, <2>3, SenderForgetsNone DEF Stopped, MemoryInv
<1>8. CASE IgnoreCtl(m) \/ (m = CancelAtSender /\ RecvCancelAtSender)
  <2>1. txActive' = FALSE BY <1>8, SenderTypes DEF IgnoreCtl, senderVars, RecvCancelAtSender, StopSending
  <2>2. QED BY <1>5, <2>1
<1>9. QED BY <1>4, <1>6, <1>7, <1>8 DEF SenderHandles

LEMMA SenderUserForgetsNone ==
  ASSUME MemoryInv, SenderUser \/ UserResumes \/ (\E b \in Blocks : WatchdogFires(b)) \/ (ReadFails /\ BySender)
  PROVE  Stopped' /\ AcksComing' /\ Remembered'
<1>1. UNCHANGED receiverVars /\ UNCHANGED <<ctlLost, acked>>
  BY DEF SenderUser, UserResumes, WatchdogFires, BySender, faultVars, Pause, CancelSending, StopSending,
         Resume, Watchdog, ReadFails
<1>2. CASE ReadFails \/ CancelSending
  BY <1>2 DEF ReadFails, CancelSending, StopSending, Stopped, AcksComing, Remembered
<1>3. CASE Pause
  BY <1>1, <1>3, SenderForgetsNone DEF Pause, Stopped, MemoryInv, Queued, Sending
<1>4. CASE UserResumes
  <2>1. UNCHANGED <<cancelled, txActive, ctl>> /\ KickPump(pending, credits, cancelled \/ completed)
    BY <1>4 DEF UserResumes, Resume
  <2>2. \A b \in Blocks \ acked : Queued(b) \/ Sending(b) => Queued(b)' \/ Sending(b)'
    <3> DEFINE halt == cancelled \/ completed
    <3> HIDE DEF halt
    <3>1. KickPump(pending, credits, halt) BY <2>1 DEF halt
    <3>2. QED BY <3>1, SenderTypes, KickForgetsNone DEF Queued
  <2>3. QED BY <1>1, <2>1, <2>2, SenderForgetsNone DEF Stopped, MemoryInv
<1>5. ASSUME NEW b \in Blocks, WatchdogFires(b)
      PROVE  Stopped' /\ AcksComing' /\ Remembered'
  <2>1. UNCHANGED <<cancelled, txActive, ctl>> BY <1>5 DEF WatchdogFires, Watchdog
  <2>2. \A c \in Blocks \ acked : (Queued(c) \/ Sending(c)) /\ txActive => Queued(c)' \/ Sending(c)'
    <3>1. CASE UNCHANGED <<pending, pump>> BY <3>1 DEF Queued, Sending
    <3>2. CASE RetryBlock(b) BY <3>2, RetryForgetsNone
    <3>3. QED BY <1>5, <3>1, <3>2 DEF WatchdogFires, Watchdog
  <2>3. QED BY <1>1, <2>1, <2>2, SenderForgetsNone DEF Stopped, MemoryInv
<1>6. QED BY <1>2, <1>3, <1>4, <1>5 DEF SenderUser

-----------------------------------------------------------------------------
\* A step of the receiver: what it knows of, it still knows of while it is there.
LEMMA ReceiverForgetsNone ==
  ASSUME MemoryInv, UNCHANGED senderVars, UNCHANGED ctlLost, rxActive' => rxActive,
         verified \subseteq verified',
         \A b \in verified' : ctl[BlockAck(b)] > 0 \/ b \notin verified => ctl'[BlockAck(b)] > 0,
         rxActive' /\ verified' # Blocks => \A b \in Blocks : Known(b) => Known(b)'
  PROVE  Stopped' /\ AcksComing' /\ Remembered'
<1>1. Stopped' BY DEF MemoryInv, Stopped, senderVars
<1>2. AcksComing' BY DEF MemoryInv, AcksComing, senderVars
<1>3. Remembered'
  <2>1. SUFFICES ASSUME txActive', ctlLost' = 0, rxActive' \/ verified' = Blocks, NEW b \in Blocks \ acked'
                 PROVE  Queued(b)' \/ Sending(b)' \/ Known(b)'
    BY DEF Remembered
  <2>2. CASE verified' = Blocks BY <2>2 DEF Known
  <2>3. CASE rxActive' /\ verified' # Blocks
    BY <2>1, <2>3 DEF MemoryInv, Remembered, senderVars, Queued, Sending
  <2>4. QED BY <2>1, <2>2, <2>3
<1>4. QED BY <1>1, <1>2, <1>3

\* tryVerifyBlock takes the stall timer away from a block only if it goes to the
\* verifier or is asked for again.
LEMMA TryVerifyForgetsNone ==
  ASSUME MemoryInv, NEW b \in Blocks, NEW row, NEW size, NEW known, NEW armed,
         NEW net \in [CtlMsgs -> Nat], TryVerify(b, row, size, known, verifying[b], net),
         StallsAfter(b, row, known, verifying[b], armed) \subseteq stalls',
         UNCHANGED verified, NEW c \in Blocks,
         \/ c \in armed \cup verified \/ verifying[c] # "idle"
         \/ net[BlockEnd(c)] > 0 \/ net[BlockRetry(c)] > 0
  PROVE  Known(c)'
<1>1. verifying \in [Blocks -> {"idle", "hash", "write"}] BY DEF MemoryInv, IInv, TypeOK, ReceiverTypeOK
<1>2. ctl' = net \/ ctl' = Sent(net, BlockRetry(b)) BY DEF TryVerify
<1>3. net[BlockEnd(c)] > 0 => ctl'[BlockEnd(c)] > 0 BY <1>2, BlockMessages, SendingAdds
<1>4. net[BlockRetry(c)] > 0 => ctl'[BlockRetry(c)] > 0 BY <1>2, BlockMessages, SendingAdds
<1>5. verifying[c] # "idle" => verifying'[c] # "idle"
  <2>1. CASE c = b BY <1>1, <2>1 DEF TryVerify, Looks
  <2>2. CASE c # b BY <1>1, <2>2 DEF TryVerify
  <2>3. QED BY <2>1, <2>2
<1>6. CASE c \in armed
  <2>1. CASE c \in StallsAfter(b, row, known, verifying[b], armed) BY <2>1 DEF Known
  <2>2. CASE c = b /\ Looks(b, row, known, verifying[b]) /\ Whole(row)
    <3>1. CASE ctl' = Sent(net, BlockRetry(b)) BY <2>2, <3>1, BlockMessages, SendingAdds DEF Known
    <3>2. CASE verifying' = [verifying EXCEPT ![b] = "hash"] BY <1>1, <2>2, <3>2 DEF Known
    <3>3. QED BY <2>2, <3>1, <3>2 DEF TryVerify
  <2>3. QED BY <1>6, <2>1, <2>2 DEF StallsAfter
<1>7. QED BY <1>3, <1>4, <1>5, <1>6 DEF Known

\* A block's end makes it known.
LEMMA BlockEndForgetsNone ==
  ASSUME MemoryInv, NEW b \in Blocks, NEW net \in [CtlMsgs -> Nat], HandleBlockEnd(b, net),
         NEW c \in Blocks,
         \/ c = b \/ c \in stalls \cup verified \/ verifying[c] # "idle"
         \/ net[BlockEnd(c)] > 0 \/ net[BlockRetry(c)] > 0
  PROVE  Known(c)'
<1>1. UNCHANGED verified BY DEF HandleBlockEnd
<1>2. CASE b \in verified
  <2>1. ctl' = Sent(net, BlockAck(b)) /\ UNCHANGED <<stalls, verifying>> BY <1>2 DEF HandleBlockEnd
  <2>2. \A x \in CtlMsgs : net[x] > 0 => ctl'[x] > 0 BY <2>1, BlockMessages, SendingAdds
  <2>3. QED BY <1>1, <1>2, <2>1, <2>2, BlockMessages DEF Known
<1>3. CASE b \notin verified
  <2> DEFINE row == chunks[b]
             size == bytes[b]
             known == ends \cup {b}
  <2>1. TryVerify(b, row, size, known, verifying[b], net) /\ stalls' = Armed(b)
    BY <1>3 DEF HandleBlockEnd
  <2>2. Armed(b) = stalls \cup {b} BY <1>3 DEF Armed, MemoryInv, IInv, ClosedOnce
  <2>3. StallsAfter(b, row, known, verifying[b], Armed(b)) \subseteq stalls' BY <2>1, <2>2 DEF StallsAfter
  <2> DEFINE armed == Armed(b)
  <2> HIDE DEF row, size, known, armed
  <2>4. StallsAfter(b, row, known, verifying[b], armed) \subseteq stalls' /\ armed = stalls \cup {b}
    BY <2>2, <2>3 DEF armed
  <2>5. QED BY <1>1, <2>1, <2>4, TryVerifyForgetsNone
<1>4. QED BY <1>2, <1>3

\* What a block's end does to the acknowledgements
LEMMA BlockEndKeepsAcks ==
  ASSUME MemoryInv, NEW b \in Blocks, NEW net \in [CtlMsgs -> Nat], HandleBlockEnd(b, net),
         NEW c \in Blocks, net[BlockAck(c)] > 0
  PROVE  ctl'[BlockAck(c)] > 0
<1>1. \/ ctl' = net \/ ctl' = Sent(net, BlockAck(b)) \/ ctl' = Sent(net, BlockRetry(b))
  BY DEF HandleBlockEnd, TryVerify
<1>2. QED BY <1>1, BlockMessages, SendingAdds

LEMMA FrameForgetsNone ==
  ASSUME MemoryInv, NEW f \in Frames, FrameArrives(f)
  PROVE  Stopped' /\ AcksComing' /\ Remembered'
<1>1. UNCHANGED senderVars /\ UNCHANGED ctlLost BY DEF FrameArrives, ByReceiver, faultVars
<1>2. ctl \in [CtlMsgs -> Nat] /\ verified \subseteq Blocks
  BY DEF MemoryInv, IInv, TypeOK, RoutesTypeOK, ReceiverTypeOK
<1>3. CASE f \in DataFrame /\ RecvChunk(f)
  <2> DEFINE b     == f.block
             row   == [chunks[b] EXCEPT ![f.chunk] = f.content]
             armed == IF b \in ends THEN Armed(b) ELSE stalls
             size  == Recounted(f)
  <2>1. /\ b \in Blocks /\ TryVerify(b, row, size, ends, verifying[b], ctl)
        /\ stalls' = StallsAfter(b, row, ends, verifying[b], armed)
        /\ UNCHANGED <<verified, rxActive>> /\ stalls \subseteq armed
    BY <1>3 DEF RecvChunk, DataFrame, Armed
  <2> HIDE DEF b, row, armed, size
  <2>2. \A c \in Blocks : Known(c) => Known(c)'
    BY <1>2, <2>1, TryVerifyForgetsNone DEF Known
  <2>3. \A c \in Blocks : ctl[BlockAck(c)] > 0 => ctl'[BlockAck(c)] > 0
    <3>1. ctl' = ctl \/ ctl' = Sent(ctl, BlockRetry(b)) BY <2>1 DEF TryVerify
    <3>2. QED BY <1>2, <2>1, <3>1, BlockMessages, SendingAdds
  <2>4. QED BY <1>1, <1>2, <2>1, <2>2, <2>3, ReceiverForgetsNone
<1>4. CASE f \in EndFrame /\ RecvInBandEnd(f.block)
  <2>1. f.block \in Blocks /\ HandleBlockEnd(f.block, ctl) BY <1>4 DEF EndFrame, RecvInBandEnd
  <2>2. UNCHANGED <<verified, rxActive>> BY <2>1 DEF HandleBlockEnd
  <2>3. \A c \in Blocks : Known(c) => Known(c)' BY <1>2, <2>1, BlockEndForgetsNone DEF Known
  <2>4. \A c \in Blocks : ctl[BlockAck(c)] > 0 => ctl'[BlockAck(c)] > 0
    BY <1>2, <2>1, BlockEndKeepsAcks
  <2>5. QED BY <1>1, <1>2, <2>2, <2>3, <2>4, ReceiverForgetsNone
<1>5. CASE IgnoreFrame(f)
  <2>1. UNCHANGED <<verified, rxActive, ctl, stalls, verifying>> BY <1>5 DEF IgnoreFrame, receiverVars
  <2>2. QED BY <1>1, <1>2, <2>1, ReceiverForgetsNone DEF Known
<1>6. QED BY <1>3, <1>4, <1>5 DEF FrameArrives

LEMMA ReceiverHandlesForgetsNone ==
  ASSUME MemoryInv, NEW m \in CtlMsgs, ReceiverHandles(m)
  PROVE  Stopped' /\ AcksComing' /\ Remembered'
<1>1. UNCHANGED senderVars /\ UNCHANGED ctlLost BY DEF ReceiverHandles, ByReceiver, faultVars
<1>2. ctl \in [CtlMsgs -> Nat] /\ verified \subseteq Blocks
  BY DEF MemoryInv, IInv, TypeOK, RoutesTypeOK, ReceiverTypeOK
<1>3. \A x \in CtlMsgs \ {m} : Taken(ctl, m)[x] = ctl[x] BY <1>2, TakingLeaves
<1>4. CASE m = CancelAtReceiver /\ RecvCancelAtReceiver
  <2>1. ctl' = Taken(ctl, m) /\ UNCHANGED <<verified, stalls, verifying>> /\ (rxActive' => rxActive)
    BY <1>4 DEF RecvCancelAtReceiver, StopReceiving, receiverVars
  <2>2. \A b \in Blocks : \A x \in {BlockEnd(b), BlockRetry(b), BlockAck(b)} : ctl'[x] = ctl[x]
    BY <1>3, <1>4, <2>1, BlockMessages, MessagesApart
  <2>3. QED BY <1>1, <1>2, <2>1, <2>2, ReceiverForgetsNone DEF Known
<1>5. ASSUME NEW b \in Blocks, m = BlockEnd(b), RecvBlockEnd(b)
      PROVE  Stopped' /\ AcksComing' /\ Remembered'
  <2> DEFINE net == Taken(ctl, BlockEnd(b))
  <2>1. net \in [CtlMsgs -> Nat] /\ HandleBlockEnd(b, net)
    BY <1>2, <1>5, BlockMessages, TakenType DEF RecvBlockEnd
  <2>2. \A x \in CtlMsgs \ {BlockEnd(b)} : net[x] = ctl[x] BY <1>3, <1>5
  <2> HIDE DEF net
  <2>3. UNCHANGED <<verified, rxActive>> BY <2>1 DEF HandleBlockEnd
  <2>4. ASSUME NEW c \in Blocks, Known(c) PROVE Known(c)'
    <3>1. c # b => net[BlockEnd(c)] = ctl[BlockEnd(c)] BY <2>2, BlockMessages, MessagesApart
    <3>2. net[BlockRetry(c)] = ctl[BlockRetry(c)] BY <2>2, BlockMessages, MessagesApart
    <3>3. QED BY <2>1, <2>4, <3>1, <3>2, BlockEndForgetsNone DEF Known
  <2>5. ASSUME NEW c \in Blocks, ctl[BlockAck(c)] > 0 PROVE ctl'[BlockAck(c)] > 0
    <3>1. net[BlockAck(c)] = ctl[BlockAck(c)] BY <2>2, BlockMessages, MessagesApart
    <3>2. QED BY <2>1, <2>5, <3>1, BlockEndKeepsAcks
  <2>6. QED BY <1>1, <1>2, <2>3, <2>4, <2>5, ReceiverForgetsNone
<1>6. ASSUME NEW b \in Blocks, m = BlockEnd(b), IgnoreBlockEnd(b)
      PROVE  Stopped' /\ AcksComing' /\ Remembered'
  <2>1. ctl' = Taken(ctl, m) /\ UNCHANGED <<verified, rxActive>> /\ ~rxActive
    BY <1>6 DEF IgnoreBlockEnd, receiverVars
  <2>2. \A c \in Blocks : ctl'[BlockAck(c)] = ctl[BlockAck(c)]
    BY <1>3, <1>6, <2>1, BlockMessages, MessagesApart
  <2>3. QED BY <1>1, <1>2, <2>1, <2>2, ReceiverForgetsNone
<1>7. QED BY <1>4, <1>5, <1>6 DEF ReceiverHandles

LEMMA VerificationForgetsNone ==
  ASSUME MemoryInv, NEW b \in Blocks, Verification(b) \/ (WriteFails(b) /\ ByReceiver)
  PROVE  Stopped' /\ AcksComing' /\ Remembered'
<1>1. UNCHANGED senderVars /\ UNCHANGED ctlLost BY DEF Verification, ByReceiver, faultVars
<1>2. /\ ctl \in [CtlMsgs -> Nat] /\ verified \subseteq Blocks
      /\ verifying \in [Blocks -> {"idle", "hash", "write"}]
  BY DEF MemoryInv, IInv, TypeOK, RoutesTypeOK, ReceiverTypeOK
<1>3. CASE HashMatches(b)
  <2>1. UNCHANGED <<verified, rxActive, ctl, stalls>> /\ verifying' = [verifying EXCEPT ![b] = "write"]
    BY <1>3 DEF HashMatches, routeVars
  <2>2. \A c \in Blocks : verifying[c] # "idle" => verifying'[c] # "idle" BY <1>2, <2>1
  <2>3. QED BY <1>1, <1>2, <2>1, <2>2, ReceiverForgetsNone DEF Known
<1>4. CASE FailAndLookAgain(b) /\ UNCHANGED verified
  <2>1. rxActive' = FALSE /\ (ctl' = ctl \/ ctl' = Sent(ctl, BlockRetry(b)))
    BY <1>4 DEF FailAndLookAgain, TryVerify
  <2>2. \A c \in Blocks : ctl[BlockAck(c)] > 0 => ctl'[BlockAck(c)] > 0
    BY <1>2, <2>1, BlockMessages, SendingAdds
  <2>3. QED BY <1>1, <1>2, <1>4, <2>1, <2>2, ReceiverForgetsNone
<1>5. CASE HashDiffers(b) /\ ~FailAndLookAgain(b)
  <2>1. /\ ctl' = Sent(ctl, BlockRetry(b)) /\ verifying' = [verifying EXCEPT ![b] = "idle"]
        /\ UNCHANGED <<verified, rxActive, stalls>>
    BY <1>5 DEF HashDiffers
  <2>2. ctl'[BlockRetry(b)] > 0 /\ \A x \in CtlMsgs : ctl[x] > 0 => ctl'[x] > 0
    BY <1>2, <2>1, BlockMessages, SendingAdds
  <2>3. \A c \in Blocks \ {b} : verifying'[c] = verifying[c] BY <1>2, <2>1
  <2>4. \A c \in Blocks : Known(c) => Known(c)' BY <2>1, <2>2, <2>3, BlockMessages DEF Known
  <2>5. QED BY <1>1, <1>2, <2>1, <2>2, <2>4, BlockMessages, ReceiverForgetsNone
<1>6. CASE WriteDone(b)
  <2>1. /\ ctl' = Sent(Sent(ctl, BlockAck(b)), CreditGrant) /\ verified' = verified \cup {b}
        /\ verifying' = [verifying EXCEPT ![b] = "idle"] /\ UNCHANGED rxActive
        /\ (AllVerified(verified') \/ UNCHANGED stalls)
    BY <1>6 DEF WriteDone
  <2>2. AllVerified(verified') => verified' = Blocks BY <1>2, <2>1, AllBlocks DEF AllVerified
  <2>3. ctl'[BlockAck(b)] > 0 /\ \A x \in CtlMsgs : ctl[x] > 0 => ctl'[x] > 0
    <3> DEFINE net == Sent(ctl, BlockAck(b))
    <3>1. net \in [CtlMsgs -> Nat] BY <1>2, BlockMessages, SentType
    <3>2. net[BlockAck(b)] > 0 /\ \A x \in CtlMsgs : ctl[x] > 0 => net[x] > 0
      BY <1>2, BlockMessages, SendingAdds
    <3> HIDE DEF net
    <3>3. ctl' = Sent(net, CreditGrant) /\ CreditGrant \in CtlMsgs BY <2>1, MessageTypes DEF net
    <3>4. QED BY <3>1, <3>2, <3>3, BlockMessages, SendingAdds
  <2>4. \A c \in Blocks \ {b} : verifying'[c] = verifying[c] BY <1>2, <2>1
  <2>5. verified' # Blocks => \A c \in Blocks : Known(c) => Known(c)'
    BY <2>1, <2>2, <2>3, <2>4, BlockMessages DEF Known
  <2>6. \A c \in verified' : ctl[BlockAck(c)] > 0 \/ c \notin verified => ctl'[BlockAck(c)] > 0
    BY <1>2, <2>1, <2>3, BlockMessages
  <2>7. QED BY <1>1, <2>1, <2>5, <2>6, ReceiverForgetsNone
<1>7. QED BY <1>3, <1>4, <1>5, <1>6 DEF Verification, HashDiffers, WriteFails

LEMMA StallForgetsNone ==
  ASSUME MemoryInv, NEW b \in Blocks, StallFires(b)
  PROVE  Stopped' /\ AcksComing' /\ Remembered'
<1>1. UNCHANGED senderVars /\ UNCHANGED ctlLost BY DEF StallFires, faultVars
<1>2. ctl \in [CtlMsgs -> Nat] /\ verified \subseteq Blocks
  BY DEF MemoryInv, IInv, TypeOK, RoutesTypeOK, ReceiverTypeOK
<1>3. /\ stalls' = stalls \ {b} /\ UNCHANGED <<verified, rxActive, verifying>>
      /\ ctl' = IF b \notin verified /\ final = "open" THEN Sent(ctl, BlockRetry(b)) ELSE ctl
  BY DEF StallFires, Stall
<1>4. b \notin verified => final = "open" BY DEF MemoryInv, IInv, ClosedOnce
<1>5. \A x \in CtlMsgs : ctl[x] > 0 => ctl'[x] > 0 BY <1>2, <1>3, BlockMessages, SendingAdds
<1>6. b \in verified \/ ctl'[BlockRetry(b)] > 0 BY <1>2, <1>3, <1>4, BlockMessages, SendingAdds
<1>7. \A c \in Blocks : Known(c) => Known(c)' BY <1>3, <1>5, <1>6, BlockMessages DEF Known
<1>8. QED BY <1>1, <1>2, <1>3, <1>5, <1>7, BlockMessages, ReceiverForgetsNone

LEMMA EndForgetsNone ==
  ASSUME MemoryInv, FileDone \/ ReceiverUser \/ (FinalizeFails /\ ByReceiver)
  PROVE  Stopped' /\ AcksComing' /\ Remembered'
<1>1. UNCHANGED senderVars /\ UNCHANGED ctlLost BY DEF FileDone, ReceiverUser, ByReceiver, faultVars
<1>2. ctl \in [CtlMsgs -> Nat] /\ verified \subseteq Blocks
  BY DEF MemoryInv, IInv, TypeOK, RoutesTypeOK, ReceiverTypeOK
<1>3. rxActive' = FALSE /\ UNCHANGED verified /\ (UNCHANGED ctl \/ ctl' = Sent(ctl, CancelAtSender))
  BY DEF FileDone, Finalize, FinalizeFails, ReceiverUser, CancelReceiving, StopReceiving, routeVars
<1>4. \A c \in Blocks : ctl[BlockAck(c)] > 0 => ctl'[BlockAck(c)] > 0
  BY <1>2, <1>3, BlockMessages, MessageTypes, SendingAdds
<1>5. QED BY <1>1, <1>2, <1>3, <1>4, ReceiverForgetsNone

LEMMA RouteFaultsForgetNone ==
  ASSUME MemoryInv, ByRoutes,
         (\E f \in Frames : LoseFrame(f)) \/ (\E m \in CtlMsgs : LoseCtl(m))
           \/ (\E f \in Frames, kind \in DamageKinds : DamageFrame(f, kind))
  PROVE  Stopped' /\ AcksComing' /\ Remembered'
<1>1. UNCHANGED <<senderVars, receiverVars>> BY DEF ByRoutes
<1>2. CASE UNCHANGED <<ctl, ctlLost>>
  BY <1>1, <1>2 DEF MemoryInv, Stopped, AcksComing, Remembered, Queued, Sending, Known, senderVars, receiverVars
<1>3. CASE ctlLost' # 0
  BY <1>1, <1>3 DEF MemoryInv, Stopped, AcksComing, Remembered, senderVars
<1>4. ctlLost \in Nat BY DEF MemoryInv, IInv, TypeOK, RoutesTypeOK
<1>5. ASSUME NEW m \in CtlMsgs, LoseCtl(m) PROVE ctlLost' # 0 BY <1>4, <1>5 DEF LoseCtl
<1>6. ASSUME NEW f \in Frames, LoseFrame(f) PROVE UNCHANGED <<ctl, ctlLost>> BY <1>6 DEF LoseFrame
<1>7. ASSUME NEW f \in Frames, NEW kind \in DamageKinds, DamageFrame(f, kind)
      PROVE  UNCHANGED <<ctl, ctlLost>>
  BY <1>7 DEF DamageFrame
<1>8. QED BY <1>2, <1>3, <1>5, <1>6, <1>7

LEMMA InitMemory == Init => MemoryInv
<1>1. SUFFICES ASSUME Init PROVE MemoryInv OBVIOUS
<1>2. IInv BY <1>1, InitSafe
<1>3. Stopped /\ AcksComing BY <1>1 DEF Init, SenderInit, ReceiverInit, Stopped, AcksComing
<1>4. ASSUME NEW b \in Blocks PROVE Queued(b)
  <2>1. pending = [i \in 1 .. NumBlocks |-> i - 1] /\ NumBlocks \in Nat BY <1>1, RoutesAssumption
    DEF Init, SenderInit, RoutesAssumption
  <2>2. b + 1 \in 1 .. NumBlocks /\ pending[b + 1] = b BY <2>1 DEF Blocks
  <2>3. Len(pending) = NumBlocks BY <2>1
  <2>4. QED BY <2>2, <2>3 DEF Queued, Contains
<1>5. Remembered BY <1>4 DEF Remembered
<1>6. QED BY <1>2, <1>3, <1>5 DEF MemoryInv

LEMMA NextMemory == MemoryInv /\ [Next]_vars => MemoryInv'
<1>1. SUFFICES ASSUME MemoryInv, [Next]_vars PROVE MemoryInv' OBVIOUS
<1>2. IInv' BY <1>1, NextSafe DEF MemoryInv
<1>3. CASE UNCHANGED vars
  <2>1. Stopped' /\ AcksComing' /\ Remembered'
    BY <1>1, <1>3 DEF vars, senderVars, receiverVars, routeVars, faultVars, MemoryInv, Stopped, AcksComing,
       Remembered, Queued, Sending, Known
  <2>2. QED BY <1>2, <2>1 DEF MemoryInv
<1>4. CASE Faults
  <2>1. Stopped' /\ AcksComing' /\ Remembered'
    BY <1>1, <1>4, SenderUserForgetsNone, EndForgetsNone, VerificationForgetsNone, RouteFaultsForgetNone
    DEF Faults
  <2>2. QED BY <1>2, <2>1 DEF MemoryInv
<1>5. CASE Next /\ ~Faults
  <2>1. Stopped' /\ AcksComing' /\ Remembered'
    BY <1>1, <1>5, PumpStepForgetsNone, SenderUserForgetsNone, SenderHandlesForgetsNone, FrameForgetsNone,
       ReceiverHandlesForgetsNone, VerificationForgetsNone, StallForgetsNone, EndForgetsNone DEF Next
  <2>2. QED BY <1>2, <2>1 DEF MemoryInv
<1>6. QED BY <1>1, <1>3, <1>4, <1>5

\* However many blocks, chunks, credits and retries there are, and whatever is lost,
\* damaged, early, paused or cancelled: while no control message was lost and the
\* receiver has not given the file up, each block that is not acknowledged is still in
\* somebody's hands.
THEOREM BlocksNotForgottenAlways == Spec => []BlocksNotForgotten
<1>1. MemoryInv => BlocksNotForgotten
  <2>1. SUFFICES ASSUME MemoryInv, txActive, ctlLost = 0, rxActive \/ verified = Blocks,
                        NEW b \in Blocks \ acked
                 PROVE  DrivenBySender(b) \/ DrivenByReceiver(b)
    BY DEF BlocksNotForgotten
  <2>2. BlockEnd(b) \in BlockMsgs /\ BlockRetry(b) \in BlockMsgs /\ BlockAck(b) \in BlockMsgs
        /\ BlockEnd(b).block = b /\ BlockRetry(b).block = b /\ BlockAck(b).block = b
    BY DEF BlockMsgs, BlockEnd, BlockRetry, BlockAck
  <2>3. CASE Queued(b) \/ Sending(b) BY <2>3 DEF Queued, Sending, DrivenBySender
  <2>4. CASE b \in verified BY <2>1, <2>2, <2>4 DEF MemoryInv, AcksComing, DrivenByReceiver
  <2>5. CASE Known(b) /\ b \notin verified BY <2>2, <2>5 DEF Known, DrivenByReceiver
  <2>6. QED BY <2>1, <2>3, <2>4, <2>5 DEF MemoryInv, Remembered
<1>2. QED BY <1>1, InitMemory, NextMemory, PTL DEF Spec

-----------------------------------------------------------------------------
(* What the receiver counts.                                               *)

LEMMA ChunksFinite == IsFiniteSet(Chunks) /\ Cardinality(Chunks) = NumChunks /\ NumChunks \in Nat \ {0}
<1>1. NumChunks \in Nat \ {0} BY RoutesAssumption DEF RoutesAssumption
<1>2. QED BY <1>1, FS_Interval DEF Chunks

\* A subset of the chunks, before and after one chunk changed
LEMMA CountOne ==
  ASSUME NEW S \in SUBSET Chunks, NEW T \in SUBSET Chunks, NEW c \in Chunks, S \ {c} = T \ {c}
  PROVE  /\ Cardinality(S) \in Nat /\ Cardinality(T) \in Nat
         /\ Cardinality(S) + (IF c \in T THEN 1 ELSE 0) = Cardinality(T) + (IF c \in S THEN 1 ELSE 0)
<1>1. IsFiniteSet(S) /\ IsFiniteSet(T) BY ChunksFinite, FS_Subset
<1>2. Cardinality(S) \in Nat /\ Cardinality(T) \in Nat BY <1>1, FS_CardinalityType
<1>3. Cardinality(S \ {c}) = IF c \in S THEN Cardinality(S) - 1 ELSE Cardinality(S)
  BY <1>1, FS_RemoveElement
<1>4. Cardinality(T \ {c}) = IF c \in T THEN Cardinality(T) - 1 ELSE Cardinality(T)
  BY <1>1, FS_RemoveElement
<1> DEFINE s == Cardinality(S)
           t == Cardinality(T)
<1>5. s \in Nat /\ t \in Nat BY <1>2
<1>6. CASE c \in S /\ c \in T
  <2>1. s - 1 = t - 1 BY <1>1, <1>3, <1>4, <1>6
  <2> HIDE DEF s, t
  <2>2. s + 1 = t + 1 BY <1>5, <2>1
  <2>3. QED BY <1>5, <1>6, <2>2 DEF s, t
<1>7. CASE c \in S /\ c \notin T
  <2>1. s - 1 = t BY <1>1, <1>3, <1>4, <1>7
  <2> HIDE DEF s, t
  <2>2. s + 0 = t + 1 BY <1>5, <2>1
  <2>3. QED BY <1>5, <1>7, <2>2 DEF s, t
<1>8. CASE c \notin S /\ c \in T
  <2>1. s = t - 1 BY <1>1, <1>3, <1>4, <1>8
  <2> HIDE DEF s, t
  <2>2. s + 1 = t + 0 BY <1>5, <2>1
  <2>3. QED BY <1>5, <1>8, <2>2 DEF s, t
<1>9. CASE c \notin S /\ c \notin T
  <2>1. s = t BY <1>1, <1>3, <1>4, <1>9
  <2>2. QED BY <1>5, <1>9, <2>1 DEF s, t
<1>10. QED BY <1>6, <1>7, <1>8, <1>9

Longer(row, n) == {c \in Chunks : ChunkLen(row[c]) >= n}

LEMMA LenIsSum ==
  ASSUME NEW row \in [Chunks -> Slots]
  PROVE  /\ TotalLen(row) = Cardinality(Longer(row, 1)) + Cardinality(Longer(row, 2))
         /\ TotalLen(row) \in Nat
<1>1. \A c \in Chunks : ChunkLen(row[c]) >= 2 <=> ChunkLen(row[c]) = 2 BY ChunkLenType
<1>2. Longer(row, 2) = {c \in Chunks : ChunkLen(row[c]) = 2} BY <1>1 DEF Longer
<1>3. TotalLen(row) = Cardinality(Longer(row, 1)) + Cardinality(Longer(row, 2))
  BY <1>2 DEF TotalLen, Longer
<1>4. Longer(row, 1) \in SUBSET Chunks /\ Longer(row, 2) \in SUBSET Chunks BY DEF Longer
<1>5. Cardinality(Longer(row, 1)) \in Nat /\ Cardinality(Longer(row, 2)) \in Nat
  BY <1>4, ChunksFinite, FS_Subset, FS_CardinalityType
<1>6. QED BY <1>3, <1>5

\* A chunk in the place of another changes the length by what they differ in.
LEMMA Recount ==
  ASSUME NEW row \in [Chunks -> Slots], NEW c \in Chunks, NEW x \in Slots
  PROVE  TotalLen([row EXCEPT ![c] = x]) = TotalLen(row) + ChunkLen(x) - ChunkLen(row[c])
<1> DEFINE new == [row EXCEPT ![c] = x]
<1>1. new \in [Chunks -> Slots] /\ new[c] = x /\ \A k \in Chunks \ {c} : new[k] = row[k] OBVIOUS
<1> HIDE DEF new
<1>2. ChunkLen(x) \in {0, 1, 2} /\ ChunkLen(row[c]) \in {0, 1, 2} BY ChunkLenType
<1>3. ASSUME NEW n \in {1, 2}
      PROVE  /\ Cardinality(Longer(row, n)) \in Nat /\ Cardinality(Longer(new, n)) \in Nat
             /\ Cardinality(Longer(row, n)) + (IF ChunkLen(x) >= n THEN 1 ELSE 0)
                  = Cardinality(Longer(new, n)) + (IF ChunkLen(row[c]) >= n THEN 1 ELSE 0)
  <2> DEFINE S == Longer(row, n)
             T == Longer(new, n)
  <2>1. S \in SUBSET Chunks /\ T \in SUBSET Chunks BY DEF Longer
  <2>2. S \ {c} = T \ {c} BY <1>1 DEF Longer
  <2>3. (c \in S <=> ChunkLen(row[c]) >= n) /\ (c \in T <=> ChunkLen(x) >= n) BY <1>1 DEF Longer
  <2> HIDE DEF S, T
  <2>4. /\ Cardinality(S) \in Nat /\ Cardinality(T) \in Nat
        /\ Cardinality(S) + (IF c \in T THEN 1 ELSE 0) = Cardinality(T) + (IF c \in S THEN 1 ELSE 0)
    BY <2>1, <2>2, CountOne
  <2>5. QED BY <2>3, <2>4 DEF S, T
<1> DEFINE r1 == Cardinality(Longer(row, 1))
           r2 == Cardinality(Longer(row, 2))
           n1 == Cardinality(Longer(new, 1))
           n2 == Cardinality(Longer(new, 2))
           was == ChunkLen(row[c])
           is  == ChunkLen(x)
<1>4. /\ {r1, r2, n1, n2} \subseteq Nat
      /\ r1 + (IF is >= 1 THEN 1 ELSE 0) = n1 + (IF was >= 1 THEN 1 ELSE 0)
      /\ r2 + (IF is >= 2 THEN 1 ELSE 0) = n2 + (IF was >= 2 THEN 1 ELSE 0)
  BY <1>3
<1>5. TotalLen(row) = r1 + r2 /\ TotalLen(new) = n1 + n2 BY <1>1, LenIsSum
<1>6. is \in {0, 1, 2} /\ was \in {0, 1, 2} BY <1>2
<1> HIDE DEF r1, r2, n1, n2, was, is
<1>7. n1 + n2 = r1 + r2 + is - was BY <1>4, <1>6
<1>8. QED BY <1>5, <1>7 DEF new, is, was

LEMMA NothingHeld == NoChunk \in [Chunks -> Slots] /\ TotalLen(NoChunk) = 0
<1>1. NoChunk \in [Chunks -> Slots] /\ \A c \in Chunks : ChunkLen(NoChunk[c]) = 0
  BY DEF NoChunk, Slots, ChunkLen
<1>2. Longer(NoChunk, 1) = {} /\ Longer(NoChunk, 2) = {} BY <1>1 DEF Longer
<1>3. Cardinality(Longer(NoChunk, 1)) = 0 /\ Cardinality(Longer(NoChunk, 2)) = 0 BY <1>2, FS_EmptySet
<1>4. TotalLen(NoChunk) = Cardinality(Longer(NoChunk, 1)) + Cardinality(Longer(NoChunk, 2))
  BY <1>1, LenIsSum
<1>5. TotalLen(NoChunk) = 0 + 0 BY <1>3, <1>4
<1>6. QED BY <1>1, <1>5

\* If no chunk is longer than announced, chunks that add up to the block are all there.
LEMMA EnoughIsWhole ==
  ASSUME NEW row \in [Chunks -> Slots], \A c \in Chunks : row[c] # "long"
  PROVE  /\ TotalLen(row) <= NumChunks
         /\ TotalLen(row) >= NumChunks => Whole(row) /\ \A c \in Chunks : ChunkLen(row[c]) = 1
<1>1. \A c \in Chunks : ChunkLen(row[c]) \in {0, 1} BY DEF Slots, Contents, ChunkLen
<1>2. Longer(row, 2) = {} BY <1>1 DEF Longer
<1> DEFINE ones == Longer(row, 1)
<1>3. ones \in SUBSET Chunks BY DEF Longer
<1>4. IsFiniteSet(ones) /\ Cardinality(ones) <= NumChunks /\ (Cardinality(ones) = NumChunks => ones = Chunks)
  BY <1>3, ChunksFinite, FS_Subset
<1>5. Cardinality(ones) \in Nat BY <1>4, FS_CardinalityType
<1>6. TotalLen(row) = Cardinality(ones)
  <2>1. Cardinality(Longer(row, 2)) = 0 BY <1>2, FS_EmptySet
  <2>2. TotalLen(row) = Cardinality(ones) + Cardinality(Longer(row, 2)) BY LenIsSum
  <2>3. TotalLen(row) = Cardinality(ones) + 0 BY <2>1, <2>2
  <2>4. QED BY <1>5, <2>3
<1>7. ASSUME TotalLen(row) >= NumChunks PROVE Whole(row) /\ \A c \in Chunks : ChunkLen(row[c]) = 1
  <2>1. ones = Chunks BY <1>4, <1>5, <1>6, <1>7, ChunksFinite
  <2>2. \A c \in Chunks : ChunkLen(row[c]) = 1
    <3>1. TAKE c \in Chunks
    <3>2. ChunkLen(row[c]) >= 1 BY <2>1 DEF Longer
    <3>3. QED BY <1>1, <3>2
  <2>3. \A c \in Chunks : row[c] # "none" BY <2>2 DEF ChunkLen
  <2>4. Held(row) = Chunks BY <2>3 DEF Held
  <2>5. \A c \in Chunks : 0 .. c \subseteq Chunks BY ChunksFinite DEF Chunks
  <2>6. QED BY <1>7, <2>2, <2>4, <2>5 DEF Whole, GapFree
<1>8. QED BY <1>4, <1>6, <1>7

-----------------------------------------------------------------------------
(* The receiver never spins before it gives the file up.                   *)

\* What is counted of a block is what its map holds, unless it is being verified.
CountTrue == rxActive => \A b \in Blocks : verifying[b] = "idle" => bytes[b] = TotalLen(chunks[b])

\* Only a receiver that gave the file up spins, and it never gets any further.
SpinsAfterEnd == rxHung => ~rxActive /\ verified # Blocks

SpinInv == IInv /\ CountTrue /\ SpinsAfterEnd

LEMMA SpinTypes ==
  ASSUME TypeOK
  PROVE  /\ chunks \in [Blocks -> [Chunks -> Slots]] /\ bytes \in [Blocks -> Int]
         /\ verifying \in [Blocks -> {"idle", "hash", "write"}] /\ verified \subseteq Blocks
         /\ ctl \in [CtlMsgs -> Nat] /\ data \in [Frames -> Nat]
         /\ ends \subseteq Blocks /\ {rxActive, rxHung} \subseteq BOOLEAN
  BY DEF TypeOK, ReceiverTypeOK, RoutesTypeOK

\* A step that leaves alone what is counted
LEMMA NothingCounted ==
  ASSUME SpinInv, UNCHANGED <<chunks, bytes, verified, rxHung>>, rxActive' => rxActive,
         \A b \in Blocks : verifying'[b] = "idle" => verifying[b] = "idle"
  PROVE  CountTrue' /\ SpinsAfterEnd'
  BY DEF SpinInv, CountTrue, SpinsAfterEnd

\* A block that is forgotten counts nothing.
LEMMA ForgottenCounts ==
  ASSUME SpinInv, ~rxHung, NEW b \in Blocks, Forget(b), verifying' = [verifying EXCEPT ![b] = "idle"],
         UNCHANGED <<rxActive, rxHung>>
  PROVE  CountTrue' /\ SpinsAfterEnd'
<1>1. TypeOK BY DEF SpinInv, IInv
<1>2. chunks'[b] = NoChunk /\ bytes'[b] = 0
      /\ \A c \in Blocks \ {b} : chunks'[c] = chunks[c] /\ bytes'[c] = bytes[c] /\ verifying'[c] = verifying[c]
  BY <1>1, SpinTypes DEF Forget
<1>3. CountTrue' BY <1>2, NothingHeld DEF SpinInv, CountTrue
<1>4. QED BY <1>3 DEF SpinsAfterEnd

\* tryVerifyBlock, entered for a block whose map and count agree
LEMMA TryVerifyCounts ==
  ASSUME "long" \notin DamageKinds, SpinInv, rxActive, NEW b \in Blocks, NEW row \in [Chunks -> Slots],
         NEW size \in Int, NEW known, NEW net, TryVerify(b, row, size, known, verifying[b], net),
         verifying[b] = "idle" => size = TotalLen(row), UNCHANGED <<verified, rxActive>>
  PROVE  CountTrue' /\ SpinsAfterEnd'
<1>1. TypeOK /\ ~rxHung BY DEF SpinInv, IInv, SpinsAfterEnd
<1>2. CASE /\ chunks' = [chunks EXCEPT ![b] = row] /\ bytes' = [bytes EXCEPT ![b] = size]
           /\ verifying' = [verifying EXCEPT ![b] = verifying[b]] /\ UNCHANGED rxHung
  <2>1. /\ chunks'[b] = row /\ bytes'[b] = size /\ verifying'[b] = verifying[b]
        /\ \A c \in Blocks \ {b} : chunks'[c] = chunks[c] /\ bytes'[c] = bytes[c] /\ verifying'[c] = verifying[c]
    BY <1>1, <1>2, SpinTypes
  <2>2. CountTrue' BY <2>1 DEF SpinInv, CountTrue
  <2>3. QED BY <1>1, <1>2, <2>2 DEF SpinsAfterEnd
<1>3. CASE /\ Looks(b, row, known, verifying[b]) /\ ~Whole(row) /\ size >= NumChunks
  <2>1. \A c \in Chunks : row[c] # "long" BY DEF Slots, Contents
  <2>2. TotalLen(row) >= NumChunks BY <1>3 DEF Looks
  <2>3. QED BY <1>3, <2>1, <2>2, EnoughIsWhole
<1>4. CASE Forget(b) /\ verifying' = [verifying EXCEPT ![b] = "idle"] /\ UNCHANGED rxHung
  BY <1>1, <1>4, ForgottenCounts
<1>5. CASE /\ chunks' = [chunks EXCEPT ![b] = Detached(b, row)] /\ bytes' = [bytes EXCEPT ![b] = size]
           /\ verifying' = [verifying EXCEPT ![b] = "hash"] /\ UNCHANGED rxHung
  <2>1. /\ verifying'[b] = "hash"
        /\ \A c \in Blocks \ {b} : chunks'[c] = chunks[c] /\ bytes'[c] = bytes[c] /\ verifying'[c] = verifying[c]
    BY <1>1, <1>5, SpinTypes
  <2>2. CountTrue' BY <2>1 DEF SpinInv, CountTrue
  <2>3. QED BY <1>1, <1>5, <2>2 DEF SpinsAfterEnd
<1>6. CASE /\ Looks(b, row, known, verifying[b])
           /\ chunks' = [chunks EXCEPT ![b] = row] /\ bytes' = [bytes EXCEPT ![b] = size]
           /\ verifying' = [verifying EXCEPT ![b] = "idle"] /\ UNCHANGED rxHung
  <2>1. verifying[b] = "idle" BY <1>6 DEF Looks
  <2>2. QED BY <1>2, <1>6, <2>1
<1>7. QED BY <1>2, <1>3, <1>4, <1>5, <1>6 DEF TryVerify

\* The receiver gives the file up while it verifies block b.
LEMMA FailureEnds ==
  ASSUME SpinInv, NEW b \in Blocks, verifying[b] # "idle", FailAndLookAgain(b), UNCHANGED verified
  PROVE  CountTrue' /\ SpinsAfterEnd'
<1>1. b \notin verified BY DEF SpinInv, IInv, WritesMatch
<1>2. rxActive' = FALSE /\ verified' # Blocks BY <1>1 DEF FailAndLookAgain
<1>3. QED BY <1>2 DEF CountTrue, SpinsAfterEnd

LEMMA BlockEndCounts ==
  ASSUME "long" \notin DamageKinds, SpinInv, NEW b \in Blocks, NEW net, HandleBlockEnd(b, net)
  PROVE  CountTrue' /\ SpinsAfterEnd'
<1>1. TypeOK BY DEF SpinInv, IInv
<1>2. CASE UNCHANGED <<chunks, bytes, verifying, rxHung>>
  BY <1>2, NothingCounted DEF HandleBlockEnd
<1>3. CASE TryVerify(b, chunks[b], bytes[b], ends \cup {b}, verifying[b], net)
  <2> DEFINE row == chunks[b]
             size == bytes[b]
             known == ends \cup {b}
  <2>1. /\ row \in [Chunks -> Slots] /\ size \in Int /\ TryVerify(b, row, size, known, verifying[b], net)
        /\ rxActive /\ UNCHANGED <<verified, rxActive>>
        /\ verifying[b] = "idle" => size = TotalLen(row)
    BY <1>1, <1>3, SpinTypes DEF HandleBlockEnd, SpinInv, CountTrue
  <2> HIDE DEF row, size, known
  <2>2. QED BY <2>1, TryVerifyCounts
<1>4. QED BY <1>2, <1>3 DEF HandleBlockEnd

LEMMA FrameCounts ==
  ASSUME "long" \notin DamageKinds, SpinInv, NEW f \in Frames, FrameArrives(f)
  PROVE  CountTrue' /\ SpinsAfterEnd'
<1>1. TypeOK BY DEF SpinInv, IInv
<1>2. CASE f \in DataFrame /\ RecvChunk(f)
  <2> DEFINE b    == f.block
             row  == [chunks[b] EXCEPT ![f.chunk] = f.content]
             size == Recounted(f)
  <2>1. b \in Blocks /\ f.chunk \in Chunks /\ f.content \in Slots BY <1>2 DEF DataFrame, Slots
  <2>2. chunks[b] \in [Chunks -> Slots] /\ bytes[b] \in Int BY <1>1, <2>1, SpinTypes
  <2>3. row \in [Chunks -> Slots] BY <2>1, <2>2
  <2>4. chunks[b][f.chunk] \in Slots BY <2>1, <2>2
  <2>5. ChunkLen(f.content) \in {0, 1, 2} /\ ChunkLen(chunks[b][f.chunk]) \in {0, 1, 2}
    BY <2>1, <2>4, ChunkLenType
  <2>6. size = bytes[b] + ChunkLen(f.content) - ChunkLen(chunks[b][f.chunk]) BY DEF Recounted
  <2>7. size \in Int BY <2>2, <2>5, <2>6
  <2>8. /\ TryVerify(b, row, size, ends, verifying[b], ctl) /\ rxActive /\ UNCHANGED <<verified, rxActive>>
    BY <1>2 DEF RecvChunk
  <2>9. verifying[b] = "idle" => size = TotalLen(row)
    <3>1. TotalLen(row) = TotalLen(chunks[b]) + ChunkLen(f.content) - ChunkLen(chunks[b][f.chunk])
      BY <2>1, <2>2, Recount
    <3>2. verifying[b] = "idle" => bytes[b] = TotalLen(chunks[b]) BY <2>1, <2>8 DEF SpinInv, CountTrue
    <3>3. QED BY <2>6, <3>1, <3>2
  <2> HIDE DEF b, row, size
  <2>10. QED BY <2>1, <2>3, <2>7, <2>8, <2>9, TryVerifyCounts
<1>3. CASE f \in EndFrame /\ RecvInBandEnd(f.block)
  <2>1. f.block \in Blocks /\ HandleBlockEnd(f.block, ctl) BY <1>3 DEF EndFrame, RecvInBandEnd
  <2>2. QED BY <2>1, BlockEndCounts
<1>4. CASE IgnoreFrame(f)
  BY <1>4, NothingCounted DEF IgnoreFrame, receiverVars
<1>5. QED BY <1>2, <1>3, <1>4 DEF FrameArrives

LEMMA CtlCounts ==
  ASSUME "long" \notin DamageKinds, SpinInv, NEW m \in CtlMsgs, ReceiverHandles(m)
  PROVE  CountTrue' /\ SpinsAfterEnd'
<1>1. CASE RecvCancelAtReceiver
  <2>1. UNCHANGED <<chunks, bytes, verified, rxHung, verifying>> /\ (rxActive' => rxActive)
    BY <1>1 DEF RecvCancelAtReceiver, StopReceiving, receiverVars
  <2>2. QED BY <2>1, NothingCounted
<1>2. ASSUME NEW b \in Blocks, RecvBlockEnd(b) PROVE CountTrue' /\ SpinsAfterEnd'
  <2> DEFINE net == Taken(ctl, BlockEnd(b))
  <2>1. HandleBlockEnd(b, net) BY <1>2 DEF RecvBlockEnd
  <2> HIDE DEF net
  <2>2. QED BY <2>1, BlockEndCounts
<1>3. ASSUME NEW b \in Blocks, IgnoreBlockEnd(b) PROVE CountTrue' /\ SpinsAfterEnd'
  BY <1>3, NothingCounted DEF IgnoreBlockEnd, receiverVars
<1>4. QED BY <1>1, <1>2, <1>3 DEF ReceiverHandles

LEMMA VerificationCounts ==
  ASSUME SpinInv, NEW b \in Blocks, Verification(b) \/ WriteFails(b)
  PROVE  CountTrue' /\ SpinsAfterEnd'
<1>1. TypeOK BY DEF SpinInv, IInv
<1>2. CASE HashMatches(b)
  <2>1. UNCHANGED <<chunks, bytes, verified, rxHung, rxActive>> BY <1>2 DEF HashMatches
  <2>2. \A c \in Blocks : verifying'[c] = "idle" => verifying[c] = "idle"
    BY <1>1, <1>2, SpinTypes DEF HashMatches
  <2>3. QED BY <2>1, <2>2, NothingCounted
<1>3. CASE FailAndLookAgain(b) /\ UNCHANGED verified /\ verifying[b] # "idle"
  BY <1>3, FailureEnds
<1>4. CASE HashDiffers(b)
  <2>1. CASE Forget(b) /\ verifying' = [verifying EXCEPT ![b] = "idle"] /\ UNCHANGED <<rxActive, rxHung>>
    BY <1>4, <2>1, ForgottenCounts DEF HashDiffers
  <2>2. QED BY <1>3, <1>4, <2>1 DEF HashDiffers
<1>5. CASE WriteDone(b)
  <2>1. /\ ~rxHung /\ Forget(b) /\ verifying' = [verifying EXCEPT ![b] = "idle"]
        /\ UNCHANGED <<rxActive, rxHung>>
    BY <1>5 DEF WriteDone
  <2>2. QED BY <2>1, ForgottenCounts
<1>6. QED BY <1>2, <1>3, <1>4, <1>5 DEF Verification, WriteFails

LEMMA OthersCount ==
  ASSUME SpinInv,
         \/ UNCHANGED receiverVars \/ (\E b \in Blocks : StallFires(b))
         \/ FileDone \/ ReceiverUser \/ FinalizeFails
  PROVE  CountTrue' /\ SpinsAfterEnd'
<1>1. UNCHANGED <<chunks, bytes, verified, rxHung, verifying>> /\ (rxActive' => rxActive)
  BY DEF receiverVars, StallFires, Stall, FileDone, Finalize, ReceiverUser, CancelReceiving, StopReceiving,
         FinalizeFails
<1>2. QED BY <1>1, NothingCounted

LEMMA InitSpin == Init => SpinInv
<1>1. SUFFICES ASSUME Init PROVE SpinInv OBVIOUS
<1>2. IInv BY <1>1, InitSafe
<1>3. CountTrue BY <1>1, NothingHeld DEF Init, ReceiverInit, CountTrue
<1>4. SpinsAfterEnd BY <1>1 DEF Init, ReceiverInit, SpinsAfterEnd
<1>5. QED BY <1>2, <1>3, <1>4 DEF SpinInv

LEMMA NextSpin ==
  ASSUME "long" \notin DamageKinds
  PROVE  SpinInv /\ [Next]_vars => SpinInv'
<1>1. SUFFICES ASSUME SpinInv, [Next]_vars PROVE SpinInv' OBVIOUS
<1>2. IInv' BY <1>1, NextSafe DEF SpinInv
<1>3. CASE UNCHANGED receiverVars BY <1>1, <1>2, <1>3, OthersCount DEF SpinInv
<1>4. CASE \E m \in CtlMsgs : ReceiverHandles(m) BY <1>1, <1>2, <1>4, CtlCounts DEF SpinInv
<1>5. CASE \E f \in Frames : FrameArrives(f) BY <1>1, <1>2, <1>5, FrameCounts DEF SpinInv
<1>6. CASE \E b \in Blocks : Verification(b) \/ StallFires(b) \/ WriteFails(b)
  BY <1>1, <1>2, <1>6, VerificationCounts, OthersCount DEF SpinInv
<1>7. CASE FileDone \/ ReceiverUser \/ FinalizeFails
  BY <1>1, <1>2, <1>7, OthersCount DEF SpinInv
<1>8. [Next]_vars =>
        \/ UNCHANGED receiverVars \/ (\E m \in CtlMsgs : ReceiverHandles(m))
        \/ (\E f \in Frames : FrameArrives(f))
        \/ (\E b \in Blocks : Verification(b) \/ StallFires(b) \/ WriteFails(b))
        \/ FileDone \/ ReceiverUser \/ FinalizeFails
  BY DEF Next, vars, PumpStep, SenderUser, UserResumes, SenderHandles, WatchdogFires, Faults, BySender,
         ByRoutes
<1>9. QED BY <1>1, <1>3, <1>4, <1>5, <1>6, <1>7, <1>8

\* As long as no frame is longer than the one that was cut, tryVerifyBlock does not call
\* itself for ever before the receiver gives the file up, for any number of blocks and
\* chunks, in whatever order late, lost and repeated chunks arrive.
THEOREM ReceiverNeverSpinsAlways ==
  ASSUME "long" \notin DamageKinds
  PROVE  Spec => []ReceiverNeverSpins
<1>1. SpinInv => ReceiverNeverSpins BY DEF SpinInv, SpinsAfterEnd, ReceiverNeverSpins
<1>2. SpinInv /\ [Next]_vars => SpinInv' BY NextSpin
<1>3. QED BY <1>1, <1>2, InitSpin, PTL DEF Spec

-----------------------------------------------------------------------------
(* The window is respected.                                                *)

PumpOn(b) == pump.at # "idle" /\ pump.block = b

OnWire(b) ==
  \/ \E f \in Frames : f.block = b /\ data[f] > 0
  \/ ctl[BlockEnd(b)] > 0
  \/ ctl[BlockAck(b)] > 0

\* Block b is being sent, on its way, at the receiver or through.
Busy(b) == PumpOn(b) \/ OnWire(b) \/ b \in stalls \cup verified \/ verifying[b] # "idle"

\* A block is in one place: in the queue, asked for by one message, or busy.
Apart(b) ==
  /\ Queued(b) => ~Busy(b) /\ b \notin timers /\ ctl[BlockRetry(b)] = 0
  /\ ctl[BlockRetry(b)] > 0 => ~Busy(b) /\ ctl[BlockRetry(b)] = 1

NoRepeats(queue) == \A i, j \in DOMAIN queue : queue[i] = queue[j] => i = j

\* Every chunk is as it was cut, and a verification finds that.
AllGood ==
  /\ \A f \in DataFrame : f.content # "good" => data[f] = 0
  /\ \A b \in Blocks : \A c \in Chunks : chunks[b][c] \in {"none", "good", "gone"}
  /\ \A b \in Blocks : verifying[b] = "hash" => snapshot[b] = "good"

\* The credits that are left, on their way, or spent on a block that is not verified yet
\* are never more than the first ones.
CreditsBound == credits + ctl[CreditGrant] + Cardinality(Outstanding) <= InitialCredits

WindowInv == IInv /\ NoRepeats(pending) /\ (\A b \in Blocks : Apart(b)) /\ AllGood /\ CreditsBound

WindowKept == NoRepeats(pending)' /\ (\A b \in Blocks : Apart(b)') /\ AllGood' /\ CreditsBound'

-----------------------------------------------------------------------------
LEMMA WindowTypes ==
  ASSUME TypeOK
  PROVE  /\ pending \in Seq(Blocks) /\ credits \in 0 .. MaxCredits /\ credits \in Nat
         /\ pump \in [at : PumpAt, block : Blocks, chunk : Chunks]
         /\ ctl \in [CtlMsgs -> Nat] /\ data \in [Frames -> Nat] /\ ctl[CreditGrant] \in Nat
         /\ \A b \in Blocks : /\ ctl[BlockRetry(b)] \in Nat /\ ctl[BlockEnd(b)] \in Nat
                              /\ ctl[BlockAck(b)] \in Nat
         /\ verifying \in [Blocks -> {"idle", "hash", "write"}] /\ timers \subseteq Blocks
         /\ verified \subseteq Blocks /\ chunks \in [Blocks -> [Chunks -> Slots]]
         /\ acked \subseteq Blocks /\ snapshot \in [Blocks -> {"good", "bad"}]
<1>1. /\ pending \in Seq(Blocks) /\ credits \in 0 .. MaxCredits /\ credits \in Nat
      /\ pump \in [at : PumpAt, block : Blocks, chunk : Chunks] /\ timers \subseteq Blocks
      /\ acked \subseteq Blocks
  BY DEF TypeOK, SenderTypeOK
<1>2. ctl \in [CtlMsgs -> Nat] /\ data \in [Frames -> Nat] BY DEF TypeOK, RoutesTypeOK
<1>3. /\ verifying \in [Blocks -> {"idle", "hash", "write"}] /\ verified \subseteq Blocks
      /\ chunks \in [Blocks -> [Chunks -> Slots]] /\ snapshot \in [Blocks -> {"good", "bad"}]
  BY DEF TypeOK, ReceiverTypeOK
<1>4. QED BY <1>1, <1>2, <1>3, MessageTypes

\* A set of blocks is finite, and one block more or less counts one.
LEMMA BlockCount ==
  ASSUME NEW S \in SUBSET Blocks
  PROVE  /\ Cardinality(S) \in Nat
         /\ \A T \in SUBSET S : Cardinality(T) <= Cardinality(S)
         /\ \A b \in Blocks : Cardinality(S \cup {b}) <= Cardinality(S) + 1
         /\ \A b \in S : Cardinality(S \ {b}) = Cardinality(S) - 1
<1>1. IsFiniteSet(S) BY BlocksFinite, FS_Subset
<1>2. Cardinality(S) \in Nat BY <1>1, FS_CardinalityType
<1>3. \A T \in SUBSET S : Cardinality(T) <= Cardinality(S) BY <1>1, FS_Subset
<1>4. ASSUME NEW b \in Blocks PROVE Cardinality(S \cup {b}) <= Cardinality(S) + 1
  <2>1. Cardinality(S \cup {b}) = IF b \in S THEN Cardinality(S) ELSE Cardinality(S) + 1
    BY <1>1, FS_AddElement
  <2>2. QED BY <1>2, <2>1
<1>5. ASSUME NEW b \in S PROVE Cardinality(S \ {b}) = Cardinality(S) - 1
  BY <1>1, FS_RemoveElement
<1>6. QED BY <1>2, <1>3, <1>4, <1>5

LEMMA OutstandingBlocks == Outstanding \in SUBSET Blocks /\ (Outstanding \in SUBSET Blocks)'
  BY DEF Outstanding

\* The pump takes the head of a queue without acknowledged blocks, or nothing.
Took(queue, cred) ==
  /\ queue # <<>> /\ cred > 0
  /\ pending' = Tail(queue)
  /\ credits' = cred - 1
  /\ pump' = [at |-> "gate", block |-> Head(queue), chunk |-> 0]

TookNone(queue, cred) ==
  /\ pending' = queue
  /\ credits' = cred
  /\ pump'.at # "idle" => pump' = pump

LEMMA PumpTakesHead ==
  ASSUME NEW queue \in Seq(Blocks), NEW cred \in Nat, NEW halt, Pump(queue, cred, halt),
         \A i \in DOMAIN queue : queue[i] \notin acked
  PROVE  /\ Took(queue, cred) \/ TookNone(queue, cred)
         /\ ~halt /\ cred > 0 /\ queue # <<>> => Took(queue, cred)
<1>1. Unacked(queue) = 1 .. Len(queue) /\ Len(queue) \in Nat BY DEF Unacked
<1>2. queue = <<>> <=> Unacked(queue) = {} BY <1>1
<1>3. Idle.at = "idle" BY DEF Idle
<1>4. ASSUME cred > 0, NEW i \in Unacked(queue), \A j \in Unacked(queue) : i <= j, TakeBlock(queue, i, cred)
      PROVE  Took(queue, cred)
  <2>1. i \in 1 .. Len(queue) /\ 1 \in Unacked(queue) BY <1>1, <1>4
  <2>2. i = 1 BY <1>1, <1>4, <2>1
  <2>3. queue # <<>> /\ Head(queue) = queue[1] /\ Tail(queue) = SubSeq(queue, 2, Len(queue))
    BY <2>1, HeadTailProperties
  <2>4. QED BY <1>4, <2>2, <2>3 DEF TakeBlock, Took
<1>5. QED BY <1>2, <1>3, <1>4 DEF Pump, TookNone

LEMMA KickTakesHead ==
  ASSUME NEW queue \in Seq(Blocks), NEW cred \in Nat, NEW halt, KickPump(queue, cred, halt),
         \A i \in DOMAIN queue : queue[i] \notin acked
  PROVE  \/ TookNone(queue, cred)
         \/ pump.at = "idle" /\ Took(queue, cred)
  BY PumpTakesHead DEF KickPump, TookNone

\* What is behind the head of a queue
LEMMA BehindHead ==
  ASSUME NEW queue \in Seq(Blocks), queue # <<>>, NoRepeats(queue)
  PROVE  /\ Tail(queue) \in Seq(Blocks) /\ Head(queue) \in Blocks /\ NoRepeats(Tail(queue))
         /\ Contains(queue, Head(queue))
         /\ \A b \in Blocks : Contains(Tail(queue), b) <=> Contains(queue, b) /\ b # Head(queue)
<1>1. /\ Tail(queue) \in Seq(Blocks) /\ Head(queue) \in Blocks /\ Len(queue) \in Nat \ {0}
      /\ Len(Tail(queue)) = Len(queue) - 1 /\ Head(queue) = queue[1]
      /\ \A i \in 1 .. Len(Tail(queue)) : Tail(queue)[i] = queue[i + 1]
  BY HeadTailProperties
<1> DEFINE rest == Tail(queue)
           n    == Len(queue)
<1>2. /\ n \in Nat \ {0} /\ DOMAIN queue = 1 .. n /\ DOMAIN rest = 1 .. n - 1
      /\ \A i \in 1 .. n - 1 : rest[i] = queue[i + 1]
      /\ Head(queue) = queue[1] /\ Len(rest) = n - 1 /\ n = Len(queue)
  BY <1>1
<1> HIDE DEF rest, n
<1>3. NoRepeats(rest)
  <2>1. SUFFICES ASSUME NEW i \in 1 .. n - 1, NEW j \in 1 .. n - 1, rest[i] = rest[j] PROVE i = j
    BY <1>2 DEF NoRepeats
  <2>2. i + 1 \in 1 .. n /\ j + 1 \in 1 .. n /\ queue[i + 1] = queue[j + 1] BY <1>2, <2>1
  <2>3. i + 1 = j + 1 BY <1>2, <2>2 DEF NoRepeats
  <2>4. QED BY <1>2, <2>3
<1>4. Contains(queue, Head(queue)) BY <1>2 DEF Contains
<1>5. ASSUME NEW b \in Blocks PROVE Contains(rest, b) <=> Contains(queue, b) /\ b # Head(queue)
  <2>1. ASSUME Contains(rest, b) PROVE Contains(queue, b) /\ b # Head(queue)
    <3>1. PICK i \in 1 .. n - 1 : rest[i] = b BY <1>2, <2>1 DEF Contains
    <3>2. i + 1 \in 1 .. n /\ queue[i + 1] = b /\ i + 1 # 1 /\ 1 \in 1 .. n BY <1>2, <3>1
    <3>3. queue[i + 1] # queue[1] BY <1>2, <3>2 DEF NoRepeats
    <3>4. QED BY <1>2, <3>2, <3>3 DEF Contains
  <2>2. ASSUME Contains(queue, b), b # Head(queue) PROVE Contains(rest, b)
    <3>1. PICK i \in 1 .. n : queue[i] = b BY <1>2, <2>2 DEF Contains
    <3>2. i # 1 BY <1>2, <2>2, <3>1
    <3>3. i - 1 \in 1 .. n - 1 /\ rest[i - 1] = queue[(i - 1) + 1] BY <1>2, <3>1, <3>2
    <3>4. (i - 1) + 1 = i BY <1>2, <3>1
    <3>5. QED BY <1>2, <3>1, <3>3, <3>4 DEF Contains
  <2>3. QED BY <2>1, <2>2
<1>6. QED BY <1>1, <1>3, <1>4, <1>5 DEF rest

-----------------------------------------------------------------------------
(* Steps of the sender.                                                    *)

\* A block that moves no further stays where it is.
LEMMA StaysApart ==
  ASSUME NEW b \in Blocks, Apart(b), ctl[BlockRetry(b)] \in Nat, ctl'[BlockRetry(b)] \in Nat,
         Queued(b)' => Queued(b), Busy(b)' => Busy(b), ctl'[BlockRetry(b)] <= ctl[BlockRetry(b)],
         b \in timers' => b \in timers \/ Busy(b)
  PROVE  Apart(b)'
<1>1. ASSUME Queued(b)' PROVE ~Busy(b)' /\ b \notin timers' /\ ctl'[BlockRetry(b)] = 0
  BY <1>1 DEF Apart
<1>2. ASSUME ctl'[BlockRetry(b)] > 0 PROVE ~Busy(b)' /\ ctl'[BlockRetry(b)] = 1
  <2>1. ctl[BlockRetry(b)] > 0 BY <1>2
  <2>2. QED BY <1>2, <2>1 DEF Apart
<1>3. QED BY <1>1, <1>2 DEF Apart

\* A block that is neither in the queue nor asked for is in one place.
LEMMA GoneOn ==
  ASSUME NEW b \in Blocks, ~Queued(b)', ctl'[BlockRetry(b)] = 0
  PROVE  Apart(b)'
  BY DEF Apart

TrafficKept == \A b \in Blocks : /\ ctl'[BlockEnd(b)] = ctl[BlockEnd(b)]
                                 /\ ctl'[BlockAck(b)] = ctl[BlockAck(b)]

MessagesKept == TrafficKept /\ \A b \in Blocks : ctl'[BlockRetry(b)] = ctl[BlockRetry(b)]

ReceiverKept == UNCHANGED <<verified, stalls, verifying, chunks, snapshot>>

\* What the sender does while the routes and the receiver keep what they have
LEMMA BusyStays ==
  ASSUME ReceiverKept, UNCHANGED data, TrafficKept, NEW b \in Blocks, PumpOn(b)' => PumpOn(b)
  PROVE  Busy(b)' => Busy(b)
  BY DEF ReceiverKept, TrafficKept, Busy, OnWire

LEMMA GoodStays == ASSUME AllGood, ReceiverKept, UNCHANGED data PROVE AllGood'
  BY DEF AllGood, ReceiverKept

\* No block in the queue was acknowledged.
LEMMA QueueUnacked ==
  ASSUME WindowInv
  PROVE  \A i \in DOMAIN pending : pending[i] \notin acked
<1>1. pending \in Seq(Blocks) /\ acked \subseteq verified BY WindowTypes DEF WindowInv, IInv, AcksFollow
<1>2. TAKE i \in DOMAIN pending
<1>3. pending[i] \in Blocks /\ Queued(pending[i]) BY <1>1 DEF Queued, Contains
<1>4. pending[i] \notin verified BY <1>3 DEF WindowInv, Apart, Busy
<1>5. QED BY <1>1, <1>4

LEMMA PumpedKeepsWindow ==
  ASSUME WindowInv, NEW cred \in Nat, Took(pending, cred) \/ TookNone(pending, cred),
         ReceiverKept, UNCHANGED data, MessagesKept, ctl'[CreditGrant] \in Nat,
         cred + ctl'[CreditGrant] <= credits + ctl[CreditGrant],
         \A b \in timers' : b \in timers \/ PumpOn(b)
  PROVE  WindowKept
<1>1. TypeOK BY DEF WindowInv, IInv
<1>2. AllGood' BY GoodStays DEF WindowInv
<1> DEFINE before == Outstanding
           after  == Outstanding'
           old == ctl[CreditGrant]
           new == ctl'[CreditGrant]
<1>3. before \in SUBSET Blocks /\ after \in SUBSET Blocks BY OutstandingBlocks
<1>4. Cardinality(before) \in Nat /\ Cardinality(after) \in Nat BY <1>3, BlockCount
<1>5. credits + old + Cardinality(before) <= InitialCredits BY DEF WindowInv, CreditsBound
<1>6. credits \in Nat /\ old \in Nat /\ InitialCredits \in Nat /\ new \in Nat
      /\ cred + new <= credits + old
  BY <1>1, WindowTypes, SenderAssumption DEF SenderAssumption
<1>7. \A b \in Blocks : b \in timers' => b \in timers \/ Busy(b) BY DEF Busy
<1>8. CASE TookNone(pending, cred)
  <2>1. pending' = pending /\ credits' = cred /\ \A b \in Blocks : PumpOn(b)' => PumpOn(b)
    BY <1>8 DEF TookNone, PumpOn
  <2>2. NoRepeats(pending)' BY <2>1 DEF WindowInv, NoRepeats
  <2>3. ASSUME NEW b \in Blocks PROVE Apart(b)'
    <3>1. Busy(b)' => Busy(b) BY <2>1, BusyStays DEF MessagesKept, TrafficKept
    <3>2. Queued(b)' => Queued(b) BY <2>1 DEF Queued
    <3>3. Apart(b) /\ ctl[BlockRetry(b)] \in Nat /\ ctl'[BlockRetry(b)] = ctl[BlockRetry(b)]
      BY <1>1, WindowTypes DEF WindowInv, MessagesKept
    <3>4. ctl'[BlockRetry(b)] \in Nat /\ ctl'[BlockRetry(b)] <= ctl[BlockRetry(b)] BY <3>3
    <3>5. QED BY <1>7, <3>1, <3>2, <3>3, <3>4, StaysApart
  <2>4. after = before BY <2>1 DEF Outstanding, ReceiverKept
  <2>5. credits' + new + Cardinality(after) <= InitialCredits
    <3> HIDE DEF before, after, old, new
    <3>1. QED BY <1>4, <1>5, <1>6, <2>1, <2>4
  <2>6. QED BY <1>2, <2>2, <2>3, <2>5 DEF WindowKept, CreditsBound
<1>9. CASE Took(pending, cred)
  <2>0. PICK h \in Blocks : h = Head(pending)
    BY <1>1, <1>9, WindowTypes, BehindHead DEF Took, WindowInv
  <2>1. /\ pending \in Seq(Blocks) /\ pending # <<>> /\ NoRepeats(pending)
        /\ pending' = Tail(pending) /\ credits' = cred - 1 /\ cred > 0
        /\ \A b \in Blocks : PumpOn(b)' => b = h
    BY <1>1, <1>9, <2>0, WindowTypes DEF Took, WindowInv, PumpOn
  <2>2. /\ h \in Blocks /\ NoRepeats(Tail(pending)) /\ Contains(pending, h)
        /\ \A b \in Blocks : Contains(Tail(pending), b) <=> Contains(pending, b) /\ b # h
    BY <2>0, <2>1, BehindHead
  <2>3. \A b \in Blocks : Queued(b)' <=> Queued(b) /\ b # h BY <2>1, <2>2 DEF Queued
  <2>4. NoRepeats(pending)' BY <2>1, <2>2 DEF NoRepeats
  <2>5. ASSUME NEW b \in Blocks PROVE Apart(b)'
    <3>1. Apart(b) /\ ctl[BlockRetry(b)] \in Nat /\ ctl'[BlockRetry(b)] = ctl[BlockRetry(b)]
      BY <1>1, WindowTypes DEF WindowInv, MessagesKept
    <3>2. CASE b = h
      <4>1. Queued(h) /\ ~Queued(h)' BY <2>2, <2>3 DEF Queued
      <4>2. QED BY <3>1, <3>2, <4>1, GoneOn DEF Apart
    <3>3. CASE b # h
      <4>1. Busy(b)' => Busy(b) BY <2>1, <3>3, BusyStays DEF MessagesKept, TrafficKept
      <4>2. ctl'[BlockRetry(b)] \in Nat /\ ctl'[BlockRetry(b)] <= ctl[BlockRetry(b)] BY <3>1
      <4>3. QED BY <1>7, <2>3, <3>1, <4>1, <4>2, StaysApart
    <3>4. QED BY <3>2, <3>3
  <2>6. after \subseteq before \cup {h} BY <2>3 DEF Outstanding, ReceiverKept, Queued
  <2>7. Cardinality(after) <= Cardinality(before) + 1
    <3>1. Cardinality(before \cup {h}) <= Cardinality(before) + 1 /\ before \cup {h} \in SUBSET Blocks
      BY <1>3, <2>2, BlockCount
    <3>2. Cardinality(after) <= Cardinality(before \cup {h}) /\ Cardinality(before \cup {h}) \in Nat
      <4> DEFINE both == before \cup {h}
      <4> HIDE DEF both, before, after
      <4>1. both \in SUBSET Blocks /\ after \in SUBSET both BY <2>6, <3>1 DEF both
      <4>2. QED BY <4>1, BlockCount DEF both
    <3> HIDE DEF before, after
    <3>3. QED BY <1>4, <3>1, <3>2
  <2>8. credits' + new + Cardinality(after) <= InitialCredits
    <3> DEFINE x == Cardinality(before)
               y == Cardinality(after)
    <3>1. x \in Nat /\ y \in Nat /\ y <= x + 1 /\ credits + old + x <= InitialCredits
      BY <1>4, <1>5, <2>7
    <3> HIDE DEF x, y, old, new
    <3>2. credits' + new + y <= InitialCredits BY <1>6, <2>1, <3>1
    <3>3. QED BY <3>2 DEF y
  <2>9. QED BY <1>2, <2>4, <2>5, <2>8 DEF WindowKept, CreditsBound
<1>10. QED BY <1>8, <1>9

\* A step that leaves the queue alone and makes no credit
LEMMA NoCreditMade ==
  ASSUME WindowInv, UNCHANGED <<pending, verified>>, AllGood',
         credits' \in Nat, ctl'[CreditGrant] \in Nat,
         credits' + ctl'[CreditGrant] <= credits + ctl[CreditGrant],
         \A b \in Blocks : Apart(b)'
  PROVE  WindowKept
<1>1. TypeOK BY DEF WindowInv, IInv
<1>2. NoRepeats(pending)' BY DEF WindowInv, NoRepeats
<1>3. Outstanding' = Outstanding BY DEF Outstanding
<1>4. Cardinality(Outstanding) \in Nat BY OutstandingBlocks, BlockCount
<1>5. credits + ctl[CreditGrant] + Cardinality(Outstanding) <= InitialCredits BY DEF WindowInv, CreditsBound
<1> DEFINE x == Cardinality(Outstanding)
           a == credits + ctl[CreditGrant]
           b == credits' + ctl'[CreditGrant]
<1>6. a \in Nat /\ b \in Nat /\ x \in Nat /\ InitialCredits \in Nat /\ b <= a /\ a + x <= InitialCredits
  BY <1>1, <1>4, <1>5, WindowTypes, SenderAssumption DEF SenderAssumption
<1> HIDE DEF x, a, b
<1>7. b + x <= InitialCredits BY <1>6
<1>8. CreditsBound' BY <1>3, <1>7 DEF CreditsBound, x, b
<1>9. QED BY <1>2, <1>8 DEF WindowKept

LEMMA QuietKeepsWindow ==
  ASSUME WindowInv, UNCHANGED <<pending, credits, verified>>, AllGood',
         ctl'[CreditGrant] \in Nat, ctl'[CreditGrant] <= ctl[CreditGrant],
         \A b \in Blocks : Apart(b)'
  PROVE  WindowKept
<1>1. credits \in Nat /\ ctl[CreditGrant] \in Nat BY WindowTypes DEF WindowInv, IInv
<1>2. credits' \in Nat /\ credits' + ctl'[CreditGrant] <= credits + ctl[CreditGrant] BY <1>1
<1>3. QED BY <1>2, NoCreditMade

\* The pump, started or going on with the queue as it is
LEMMA PumpKeepsWindow ==
  ASSUME WindowInv, NEW halt,
         Pump(pending, credits, halt) \/ KickPump(pending, credits, halt),
         ReceiverKept, UNCHANGED <<data, ctl>>,
         \A b \in timers' : b \in timers \/ PumpOn(b)
  PROVE  WindowKept
<1>1. pending \in Seq(Blocks) /\ credits \in Nat /\ ctl[CreditGrant] \in Nat
  BY WindowTypes DEF WindowInv, IInv
<1>2. Took(pending, credits) \/ TookNone(pending, credits)
  BY <1>1, QueueUnacked, PumpTakesHead, KickTakesHead
<1>3. MessagesKept /\ UNCHANGED data /\ ctl'[CreditGrant] = ctl[CreditGrant] BY DEF MessagesKept, TrafficKept
<1>4. credits + ctl'[CreditGrant] <= credits + ctl[CreditGrant] BY <1>1, <1>3
<1>5. QED BY <1>1, <1>2, <1>3, <1>4, PumpedKeepsWindow

\* A block that is busy may get busier; the others stay where they are.
LEMMA BusyKeepsWindow ==
  ASSUME WindowInv, UNCHANGED <<pending, credits, verified>>, AllGood',
         ctl'[CreditGrant] \in Nat, ctl'[CreditGrant] <= ctl[CreditGrant],
         NEW b \in Blocks, Busy(b), ctl'[BlockRetry(b)] = ctl[BlockRetry(b)],
         \A c \in Blocks \ {b} : /\ ctl'[BlockRetry(c)] = ctl[BlockRetry(c)]
                                 /\ Busy(c)' => Busy(c)
                                 /\ c \in timers' => c \in timers
  PROVE  WindowKept
<1>1. TypeOK BY DEF WindowInv, IInv
<1>2. \A c \in Blocks : Queued(c)' = Queued(c) BY DEF Queued
<1>3. ASSUME NEW c \in Blocks PROVE Apart(c)'
  <2>1. Apart(c) /\ ctl[BlockRetry(c)] \in Nat BY <1>1, WindowTypes DEF WindowInv
  <2>2. CASE c = b
    <3>1. ~Queued(b) /\ ~(ctl[BlockRetry(b)] > 0) BY <2>1, <2>2 DEF Apart
    <3>2. ctl'[BlockRetry(b)] = 0 BY <2>1, <2>2, <3>1
    <3>3. QED BY <1>2, <2>2, <3>1, <3>2, GoneOn
  <2>3. CASE c # b
    <3>1. ctl'[BlockRetry(c)] \in Nat /\ ctl'[BlockRetry(c)] <= ctl[BlockRetry(c)] BY <2>1, <2>3
    <3>2. QED BY <1>2, <2>1, <2>3, <3>1, StaysApart
  <2>4. QED BY <2>2, <2>3
<1>4. QED BY <1>3, QuietKeepsWindow

LEMMA PumpStepKeepsWindow ==
  ASSUME WindowInv, PumpStep
  PROVE  WindowKept
<1>1. TypeOK BY DEF WindowInv, IInv
<1>2. ReceiverKept BY DEF PumpStep, BySender, receiverVars, ReceiverKept
<1>3. CASE Start
  BY <1>2, <1>3, PumpKeepsWindow DEF Start
<1>4. CASE ChunkGate
  <2>1. UNCHANGED <<data, ctl, timers>> BY <1>4 DEF ChunkGate
  <2>2. CASE Pump(pending, credits, TRUE) BY <1>2, <2>1, <2>2, PumpKeepsWindow
  <2>3. CASE /\ pump.at \in {"gate", "held"} /\ UNCHANGED <<pending, credits>>
             /\ pump' = [pump EXCEPT !.at = IF paused THEN "held" ELSE "send"]
    <3>1. \A b \in Blocks : PumpOn(b)' => PumpOn(b) BY <1>1, <2>3, WindowTypes DEF PumpOn
    <3>2. MessagesKept /\ ctl'[CreditGrant] = ctl[CreditGrant] BY <2>1 DEF MessagesKept, TrafficKept
    <3>3. \A b \in Blocks : Apart(b)'
      <4>1. ASSUME NEW b \in Blocks PROVE Apart(b)'
        <5>1. Apart(b) /\ ctl[BlockRetry(b)] \in Nat BY <1>1, WindowTypes DEF WindowInv
        <5>2. Busy(b)' => Busy(b) BY <1>2, <2>1, <3>1, <3>2, BusyStays DEF MessagesKept, TrafficKept
        <5>3. ctl'[BlockRetry(b)] \in Nat /\ ctl'[BlockRetry(b)] <= ctl[BlockRetry(b)] BY <2>1, <5>1
        <5>4. Queued(b)' => Queued(b) BY <2>3 DEF Queued
        <5>5. QED BY <2>1, <5>1, <5>2, <5>3, <5>4, StaysApart
      <4>2. QED BY <4>1
    <3>4. ctl[CreditGrant] \in Nat /\ ctl'[CreditGrant] <= ctl[CreditGrant] BY <1>1, <3>2, WindowTypes
    <3>5. AllGood' BY <1>2, <2>1, GoodStays DEF WindowInv
    <3>6. UNCHANGED verified /\ ctl'[CreditGrant] \in Nat BY <1>2, <3>2, <3>4 DEF ReceiverKept
    <3>7. QED BY <2>3, <3>3, <3>4, <3>5, <3>6, QuietKeepsWindow
  <2>4. QED BY <1>4, <2>2, <2>3 DEF ChunkGate
<1>5. CASE SendChunk
  <2>0. PICK b \in Blocks : b = pump.block BY <1>1, WindowTypes
  <2>1. /\ PumpOn(b) /\ UNCHANGED <<pending, credits, verified, ctl, timers>> /\ pump'.block = b
    BY <1>1, <1>2, <1>5, <2>0, WindowTypes DEF SendChunk, PumpOn, ReceiverKept
  <2>2. PICK c \in Chunks : data' = Sent(data, Chunk(b, c)) BY <1>1, <1>5, <2>0, WindowTypes DEF SendChunk
  <2>3. Chunk(b, c) \in Frames /\ Chunk(b, c).block = b /\ Chunk(b, c).content = "good"
    BY MessageTypes DEF Chunk
  <2>4. \A f \in Frames : f # Chunk(b, c) => data'[f] = data[f] BY <1>1, <2>2, WindowTypes DEF Sent
  <2>5. AllGood'
    <3>1. \A f \in DataFrame : f.content # "good" => data'[f] = data[f] BY <2>3, <2>4 DEF Frames
    <3>2. QED BY <1>2, <3>1 DEF WindowInv, AllGood, ReceiverKept
  <2>6. ASSUME NEW d \in Blocks \ {b} PROVE Busy(d)' => Busy(d)
    <3>1. \A f \in Frames : f.block = d => data'[f] = data[f] BY <2>3, <2>4, <2>6
    <3>2. OnWire(d)' => OnWire(d) BY <2>1, <3>1 DEF OnWire
    <3>3. ~PumpOn(d)' BY <2>1, <2>6 DEF PumpOn
    <3>4. QED BY <1>2, <3>2, <3>3 DEF Busy, ReceiverKept
  <2>7. ctl[CreditGrant] \in Nat /\ ctl'[CreditGrant] <= ctl[CreditGrant] /\ Busy(b)
    BY <1>1, <2>1, WindowTypes DEF Busy
  <2>8. QED BY <2>1, <2>5, <2>6, <2>7, BusyKeepsWindow
<1>6. CASE SendBlockEnd
  <2>0. PICK b \in Blocks : b = pump.block BY <1>1, WindowTypes
  <2>1. /\ PumpOn(b) /\ UNCHANGED <<pending, credits, verified, timers>> /\ pump'.block = b
        /\ data' = Sent(data, InBandEnd(b)) /\ ctl' = Sent(ctl, BlockEnd(b))
    BY <1>1, <1>2, <1>6, <2>0, WindowTypes DEF SendBlockEnd, PumpOn, ReceiverKept
  <2>2. InBandEnd(b) \in Frames /\ InBandEnd(b).block = b /\ InBandEnd(b) \notin DataFrame
    BY MessageTypes DEF InBandEnd, DataFrame
  <2>3. \A f \in Frames : f # InBandEnd(b) => data'[f] = data[f] BY <1>1, <2>1, WindowTypes DEF Sent
  <2>4. \A m \in CtlMsgs : m # BlockEnd(b) => ctl'[m] = ctl[m] BY <1>1, <2>1, WindowTypes DEF Sent
  <2>5. AllGood'
    <3>1. \A f \in DataFrame : data'[f] = data[f] BY <2>2, <2>3 DEF Frames
    <3>2. QED BY <1>2, <3>1 DEF WindowInv, AllGood, ReceiverKept
  <2>6. ASSUME NEW d \in Blocks PROVE ctl'[BlockRetry(d)] = ctl[BlockRetry(d)] /\ ctl'[BlockAck(d)] = ctl[BlockAck(d)]
    BY <2>4, MessageTypes, MessagesApart
  <2>7. ASSUME NEW d \in Blocks \ {b} PROVE Busy(d)' => Busy(d)
    <3>1. \A f \in Frames : f.block = d => data'[f] = data[f] BY <2>2, <2>3, <2>7
    <3>2. ctl'[BlockEnd(d)] = ctl[BlockEnd(d)] BY <2>4, <2>7, MessageTypes, MessagesApart
    <3>3. OnWire(d)' => OnWire(d) BY <2>6, <3>1, <3>2 DEF OnWire
    <3>4. ~PumpOn(d)' BY <2>1, <2>7 DEF PumpOn
    <3>5. QED BY <1>2, <3>3, <3>4 DEF Busy, ReceiverKept
  <2>8. ctl[CreditGrant] \in Nat /\ ctl'[CreditGrant] = ctl[CreditGrant] /\ Busy(b)
    BY <1>1, <2>1, <2>4, WindowTypes, MessageTypes, MessagesApart DEF Busy
  <2>9. ctl'[CreditGrant] \in Nat /\ ctl'[CreditGrant] <= ctl[CreditGrant] BY <2>8
  <2>10. QED BY <2>1, <2>5, <2>6, <2>7, <2>8, <2>9, BusyKeepsWindow
<1>7. CASE ArmWatchdog
  <2>1. \A b \in timers' : b \in timers \/ PumpOn(b) BY <1>7 DEF ArmWatchdog, PumpOn
  <2> DEFINE halt == paused \/ cancelled \/ completed
  <2>2. Pump(pending, credits, halt) /\ UNCHANGED <<data, ctl>> BY <1>7 DEF ArmWatchdog
  <2> HIDE DEF halt
  <2>3. QED BY <1>2, <2>1, <2>2, PumpKeepsWindow
<1>8. QED BY <1>3, <1>4, <1>5, <1>6, <1>7 DEF PumpStep

-----------------------------------------------------------------------------
\* A block in front of a queue without it
LEMMA InFront ==
  ASSUME NEW b \in Blocks, NEW queue \in Seq(Blocks), NoRepeats(queue), ~Contains(queue, b)
  PROVE  /\ <<b>> \o queue \in Seq(Blocks) /\ <<b>> \o queue # <<>>
         /\ Head(<<b>> \o queue) = b /\ Tail(<<b>> \o queue) = queue /\ NoRepeats(<<b>> \o queue)
         /\ \A c \in Blocks : Contains(<<b>> \o queue, c) <=> Contains(queue, c) \/ c = b
<1> DEFINE q == <<b>> \o queue
           n == Len(queue)
<1>1. /\ q \in Seq(Blocks) /\ n \in Nat /\ Len(q) = n + 1 /\ q[1] = b
      /\ \A i \in 1 .. n : q[i + 1] = queue[i]
      /\ DOMAIN q = 1 .. n + 1 /\ DOMAIN queue = 1 .. n /\ n = Len(queue)
  OBVIOUS
<1>2. q # <<>> /\ Head(q) = b /\ Tail(q) = queue OBVIOUS
<1> HIDE DEF q, n
<1>3. \A i \in 2 .. n + 1 : i - 1 \in 1 .. n /\ q[i] = queue[i - 1]
  <2>1. TAKE i \in 2 .. n + 1
  <2>2. i - 1 \in 1 .. n /\ (i - 1) + 1 = i BY <1>1
  <2>3. q[(i - 1) + 1] = queue[i - 1] BY <1>1, <2>2
  <2>4. QED BY <2>2, <2>3
<1>4. \A i \in 1 .. n : queue[i] # b BY <1>1 DEF Contains
<1>5. NoRepeats(q)
  <2>1. SUFFICES ASSUME NEW i \in 1 .. n + 1, NEW j \in 1 .. n + 1, q[i] = q[j] PROVE i = j
    BY <1>1 DEF NoRepeats
  <2>2. CASE i = 1 /\ j = 1 BY <2>2
  <2>3. CASE i = 1 /\ j # 1
    <3>1. j \in 2 .. n + 1 BY <1>1, <2>3
    <3>2. QED BY <1>1, <1>3, <1>4, <2>1, <2>3, <3>1
  <2>4. CASE i # 1 /\ j = 1
    <3>1. i \in 2 .. n + 1 BY <1>1, <2>4
    <3>2. QED BY <1>1, <1>3, <1>4, <2>1, <2>4, <3>1
  <2>5. CASE i # 1 /\ j # 1
    <3>1. i \in 2 .. n + 1 /\ j \in 2 .. n + 1 BY <1>1, <2>5
    <3>2. queue[i - 1] = queue[j - 1] BY <1>3, <2>1, <3>1
    <3>3. i - 1 = j - 1 BY <1>1, <1>3, <3>1, <3>2 DEF NoRepeats
    <3>4. QED BY <1>1, <3>3
  <2>6. QED BY <2>2, <2>3, <2>4, <2>5
<1>6. ASSUME NEW c \in Blocks PROVE Contains(q, c) <=> Contains(queue, c) \/ c = b
  <2>1. ASSUME Contains(q, c), c # b PROVE Contains(queue, c)
    <3>1. PICK i \in 1 .. n + 1 : q[i] = c BY <1>1, <2>1 DEF Contains
    <3>2. i \in 2 .. n + 1 BY <1>1, <2>1, <3>1
    <3>3. QED BY <1>1, <1>3, <3>1, <3>2 DEF Contains
  <2>2. ASSUME Contains(queue, c) PROVE Contains(q, c)
    <3>1. PICK i \in 1 .. n : queue[i] = c BY <1>1, <2>2 DEF Contains
    <3>2. i + 1 \in 1 .. n + 1 /\ q[i + 1] = c BY <1>1, <3>1
    <3>3. QED BY <1>1, <3>2 DEF Contains
  <2>3. 1 \in 1 .. n + 1 BY <1>1
  <2>4. Contains(q, b) BY <1>1, <2>3 DEF Contains
  <2>5. QED BY <2>1, <2>2, <2>4
<1>7. QED BY <1>1, <1>2, <1>5, <1>6 DEF q

\* retryBlock, for a block that is not queued: the pump takes it at once, or it goes back to
\* the queue, and the credit that is made out of nothing is the one it was taken for.
LEMMA RetryKeepsWindow ==
  ASSUME WindowInv, NEW b \in Blocks, RetryBlock(b), ReceiverKept, UNCHANGED data, TrafficKept,
         ctl'[BlockRetry(b)] = 0, ctl'[CreditGrant] = ctl[CreditGrant],
         \A c \in Blocks \ {b} : ctl'[BlockRetry(c)] = ctl[BlockRetry(c)],
         ~Queued(b), pump.at # "idle" => ~Busy(b)
  PROVE  WindowKept
<1>1. TypeOK BY DEF WindowInv, IInv
<1>2. AllGood' BY GoodStays DEF WindowInv
<1>3. timers' = timers \ {b} BY DEF RetryBlock
<1>4. ctl[CreditGrant] \in Nat /\ credits \in Nat /\ UNCHANGED verified
  BY <1>1, WindowTypes DEF ReceiverKept
<1>5. ASSUME NEW c \in Blocks \ {b}, Queued(c)' => Queued(c), PumpOn(c)' => PumpOn(c)
      PROVE  Apart(c)'
  <2>1. Apart(c) /\ ctl[BlockRetry(c)] \in Nat BY <1>1, WindowTypes DEF WindowInv
  <2>2. Busy(c)' => Busy(c) BY <1>5, BusyStays
  <2>3. ctl'[BlockRetry(c)] \in Nat /\ ctl'[BlockRetry(c)] <= ctl[BlockRetry(c)] BY <1>5, <2>1
  <2>4. c \in timers' => c \in timers BY <1>3
  <2>5. QED BY <1>5, <2>1, <2>2, <2>3, <2>4, StaysApart
<1>6. CASE UNCHANGED <<pending, credits, pump>>
  <2>1. \A c \in Blocks : Queued(c)' = Queued(c) /\ PumpOn(c)' = PumpOn(c) BY <1>6 DEF Queued, PumpOn
  <2>2. ~Queued(b)' BY <2>1
  <2>3. Apart(b)' BY <2>2, GoneOn
  <2>4. \A c \in Blocks : Apart(c)' BY <1>5, <2>1, <2>3
  <2>5. ctl'[CreditGrant] \in Nat /\ ctl'[CreditGrant] <= ctl[CreditGrant] BY <1>4
  <2>6. QED BY <1>2, <1>4, <1>6, <2>4, <2>5, QuietKeepsWindow
<1>7. ASSUME b \notin acked,
             KickPump(<<b>> \o pending, IF credits = 0 THEN 1 ELSE credits, FALSE)
      PROVE  WindowKept
  <2> DEFINE queue == <<b>> \o pending
             cred  == IF credits = 0 THEN 1 ELSE credits
  <2>1. pending \in Seq(Blocks) /\ NoRepeats(pending) /\ ~Contains(pending, b)
    BY <1>1, WindowTypes DEF WindowInv, Queued
  <2>2. /\ queue \in Seq(Blocks) /\ queue # <<>> /\ Head(queue) = b /\ Tail(queue) = pending
        /\ NoRepeats(queue) /\ \A c \in Blocks : Contains(queue, c) <=> Contains(pending, c) \/ c = b
    BY <2>1, InFront
  <2>3. \A i \in DOMAIN queue : queue[i] \notin acked
    <3> DEFINE n == Len(pending)
    <3>1. n \in Nat /\ DOMAIN queue = 1 .. n + 1 /\ queue[1] = b /\ DOMAIN pending = 1 .. n
          /\ \A i \in 1 .. n : queue[i + 1] = pending[i]
      BY <2>1
    <3>2. TAKE i \in DOMAIN queue
    <3> HIDE DEF n, queue
    <3>3. CASE i = 1 BY <1>7, <3>1, <3>3
    <3>4. CASE i # 1
      <4>1. i - 1 \in 1 .. n /\ (i - 1) + 1 = i BY <3>1, <3>2, <3>4
      <4>2. queue[(i - 1) + 1] = pending[i - 1] BY <3>1, <4>1
      <4>3. QED BY <3>1, <4>1, <4>2, QueueUnacked
    <3>5. QED BY <3>3, <3>4
  <2>4. cred \in Nat /\ cred > 0 /\ cred <= credits + 1 /\ cred - 1 <= credits /\ cred - 1 \in Nat BY <1>4
  <2>5. KickPump(queue, cred, FALSE) BY <1>7
  <2> HIDE DEF queue, cred
  <2>6. CASE pump.at = "idle"
    <3>1. Pump(queue, cred, FALSE) BY <2>5, <2>6 DEF KickPump
    <3> DEFINE halt == FALSE
    <3>2. Pump(queue, cred, halt) /\ ~halt BY <3>1
    <3> HIDE DEF halt
    <3>3. Took(queue, cred) BY <2>2, <2>3, <2>4, <3>2, PumpTakesHead
    <3>4. pending' = pending /\ credits' = cred - 1 /\ pump'.block = b BY <2>2, <3>3 DEF Took
    <3>5. \A c \in Blocks : Queued(c)' = Queued(c) BY <3>4 DEF Queued
    <3>6. ~Queued(b)' BY <3>5
    <3>7. Apart(b)' BY <3>6, GoneOn
    <3>8. \A c \in Blocks \ {b} : ~PumpOn(c)' BY <3>4 DEF PumpOn
    <3>9. \A c \in Blocks : Apart(c)' BY <1>5, <3>5, <3>7, <3>8
    <3>10. /\ credits' \in Nat /\ ctl'[CreditGrant] \in Nat
           /\ credits' + ctl'[CreditGrant] <= credits + ctl[CreditGrant]
      BY <1>4, <2>4, <3>4
    <3>11. QED BY <1>2, <1>4, <3>4, <3>9, <3>10, NoCreditMade
  <2>7. CASE pump.at # "idle"
    <3>1. pending' = queue /\ credits' = cred /\ UNCHANGED pump BY <2>5, <2>7 DEF KickPump
    <3>2. \A c \in Blocks : (Queued(c)' <=> Queued(c) \/ c = b) /\ PumpOn(c)' = PumpOn(c)
      BY <2>2, <3>1 DEF Queued, PumpOn
    <3>3. ~Busy(b)' BY <2>7, <3>2, BusyStays
    <3>4. Apart(b)' BY <1>3, <3>3 DEF Apart
    <3>5. \A c \in Blocks : Apart(c)' BY <1>5, <3>2, <3>4
    <3>6. NoRepeats(pending)' BY <2>2, <3>1 DEF NoRepeats
    <3> DEFINE before == Outstanding
               after  == Outstanding'
    <3>7. b \in before /\ after = before \ {b}
      <4>1. b \notin verified BY <2>7 DEF Busy
      <4>2. b \in before BY <4>1 DEF Outstanding, Queued
      <4>3. QED BY <1>4, <3>2, <4>2 DEF Outstanding, Queued
    <3>8. before \in SUBSET Blocks BY OutstandingBlocks
    <3>9. Cardinality(before) \in Nat /\ Cardinality(after) = Cardinality(before) - 1
      <4> HIDE DEF before, after
      <4>1. QED BY <3>7, <3>8, BlockCount
    <3> DEFINE x == Cardinality(before)
               y == Cardinality(after)
               old == ctl[CreditGrant]
    <3>10. /\ x \in Nat /\ y = x - 1 /\ old \in Nat /\ credits \in Nat /\ InitialCredits \in Nat
           /\ credits + old + x <= InitialCredits /\ cred \in Nat /\ cred <= credits + 1
      BY <1>4, <2>4, <3>9, SenderAssumption DEF SenderAssumption, WindowInv, CreditsBound
    <3> HIDE DEF x, y, old
    <3>11. cred + old + y <= InitialCredits BY <3>10
    <3>12. CreditsBound' BY <3>1, <3>11 DEF CreditsBound, y, old
    <3>13. QED BY <1>2, <3>5, <3>6, <3>12 DEF WindowKept
  <2>8. QED BY <2>6, <2>7
<1>8. CASE b \notin acked
  <2>1. CASE UNCHANGED <<pending, credits, pump>> BY <1>6, <2>1
  <2>2. CASE KickPump(IF Contains(pending, b) THEN pending ELSE <<b>> \o pending,
                      IF credits = 0 THEN 1 ELSE credits, FALSE)
    BY <1>7, <1>8, <2>2 DEF Queued
  <2>3. QED BY <2>1, <2>2 DEF RetryBlock
<1>9. QED BY <1>6, <1>8 DEF RetryBlock

\* A control message that is taken off the route and changes nothing but flags
LEMMA TakenKeepsWindow ==
  ASSUME WindowInv, UNCHANGED <<pending, credits, pump, data>>, ReceiverKept,
         NEW m \in CtlMsgs, ctl[m] > 0, ctl' = Taken(ctl, m), timers' \subseteq timers
  PROVE  WindowKept
<1>1. TypeOK BY DEF WindowInv, IInv
<1>2. AllGood' /\ UNCHANGED verified BY GoodStays DEF WindowInv, ReceiverKept
<1>3. \A x \in CtlMsgs : ctl'[x] \in Nat /\ ctl'[x] <= ctl[x] BY <1>1, WindowTypes DEF Taken
<1>4. ASSUME NEW b \in Blocks PROVE Apart(b)'
  <2>1. Apart(b) /\ ctl[BlockRetry(b)] \in Nat BY <1>1, WindowTypes DEF WindowInv
  <2>2. {BlockEnd(b), BlockAck(b), BlockRetry(b)} \subseteq CtlMsgs BY MessageTypes
  <2>3. ctl'[BlockRetry(b)] \in Nat /\ ctl'[BlockRetry(b)] <= ctl[BlockRetry(b)] BY <1>3, <2>2
  <2>4. ctl'[BlockEnd(b)] > 0 => ctl[BlockEnd(b)] > 0 BY <1>1, <1>3, <2>2, WindowTypes
  <2>5. ctl'[BlockAck(b)] > 0 => ctl[BlockAck(b)] > 0 BY <1>1, <1>3, <2>2, WindowTypes
  <2>6. Busy(b)' => Busy(b) BY <2>4, <2>5 DEF Busy, OnWire, PumpOn, ReceiverKept
  <2>7. Queued(b)' => Queued(b) BY DEF Queued
  <2>8. QED BY <2>1, <2>3, <2>6, <2>7, StaysApart
<1>5. ctl'[CreditGrant] \in Nat /\ ctl'[CreditGrant] <= ctl[CreditGrant] BY <1>3, MessageTypes
<1>6. QED BY <1>2, <1>4, <1>5, QuietKeepsWindow

\* A credit that arrives is one of those that were on their way.
LEMMA CreditKeepsWindow ==
  ASSUME WindowInv, RecvCredit, ReceiverKept
  PROVE  WindowKept
<1>1. TypeOK BY DEF WindowInv, IInv
<1> DEFINE halt == paused \/ cancelled \/ completed
           cred == Granted(credits)
<1>2. KickPump(pending, cred, halt) /\ UNCHANGED <<data, timers>> BY DEF RecvCredit
<1>3. cred \in Nat /\ cred <= credits + 1 BY <1>1, WindowTypes, SenderAssumption DEF SenderAssumption, Granted
<1> HIDE DEF halt, cred
<1>4. pending \in Seq(Blocks) /\ credits \in Nat /\ ctl[CreditGrant] \in Nat BY <1>1, WindowTypes
<1>5. Took(pending, cred) \/ TookNone(pending, cred) BY <1>2, <1>3, <1>4, QueueUnacked, KickTakesHead
<1>6. /\ ctl'[CreditGrant] = ctl[CreditGrant] - 1 /\ ctl[CreditGrant] > 0
      /\ \A x \in CtlMsgs \ {CreditGrant} : ctl'[x] = ctl[x]
  BY <1>1, WindowTypes, MessageTypes DEF RecvCredit, Taken
<1>7. MessagesKept BY <1>6, MessageTypes, MessagesApart DEF MessagesKept, TrafficKept
<1>8. ctl'[CreditGrant] \in Nat /\ cred + ctl'[CreditGrant] <= credits + ctl[CreditGrant]
  BY <1>3, <1>4, <1>6
<1>9. \A b \in timers' : b \in timers \/ PumpOn(b) BY <1>2
<1>10. QED BY <1>2, <1>3, <1>5, <1>7, <1>8, <1>9, PumpedKeepsWindow

LEMMA SenderHandlesKeepsWindow ==
  ASSUME WindowInv, NEW m \in CtlMsgs, SenderHandles(m)
  PROVE  WindowKept
<1>1. TypeOK /\ ReceiverKept BY DEF WindowInv, IInv, SenderHandles, BySender, receiverVars, ReceiverKept
<1>2. CASE m = CreditGrant /\ RecvCredit BY <1>1, <1>2, CreditKeepsWindow
<1>3. CASE IgnoreCtl(m)
  BY <1>1, <1>3, TakenKeepsWindow DEF IgnoreCtl, senderVars
<1>4. CASE m = CancelAtSender /\ RecvCancelAtSender
  BY <1>1, <1>4, TakenKeepsWindow DEF RecvCancelAtSender, StopSending
<1>5. ASSUME NEW b \in Blocks, m = BlockAck(b), RecvAck(b) PROVE WindowKept
  BY <1>1, <1>5, TakenKeepsWindow DEF RecvAck
<1>6. ASSUME NEW b \in Blocks, m = BlockRetry(b), RecvRetry(b) PROVE WindowKept
  <2>1. ctl' = Taken(ctl, m) /\ ctl[m] > 0 /\ UNCHANGED data /\ RetryBlock(b) BY <1>6 DEF RecvRetry
  <2>2. Apart(b) /\ ctl[BlockRetry(b)] \in Nat BY <1>1, WindowTypes DEF WindowInv
  <2>3. ctl[BlockRetry(b)] = 1 /\ ~Busy(b) /\ ~Queued(b) BY <1>6, <2>1, <2>2 DEF Apart
  <2>4. ctl'[m] = ctl[m] - 1 /\ \A x \in CtlMsgs \ {m} : ctl'[x] = ctl[x]
    BY <1>1, <2>1, WindowTypes DEF Taken
  <2>5. ctl'[BlockRetry(b)] = 0 BY <1>6, <2>3, <2>4
  <2>6. TrafficKept /\ ctl'[CreditGrant] = ctl[CreditGrant]
    BY <1>6, <2>4, MessageTypes, MessagesApart DEF TrafficKept
  <2>7. \A c \in Blocks \ {b} : ctl'[BlockRetry(c)] = ctl[BlockRetry(c)]
    BY <1>6, <2>4, MessageTypes, MessagesApart
  <2>8. QED BY <1>1, <2>1, <2>3, <2>5, <2>6, <2>7, RetryKeepsWindow
<1>7. QED BY <1>2, <1>3, <1>4, <1>5, <1>6 DEF SenderHandles

\* A watchdog that is never early finds the sender quiet, so that its block goes out at once.
LEMMA WatchdogKeepsWindow ==
  ASSUME MaxEarly = 0, WindowInv, NEW b \in Blocks, WatchdogFires(b)
  PROVE  WindowKept
<1>1. TypeOK BY DEF WindowInv, IInv
<1>2. ReceiverKept /\ UNCHANGED <<data, ctl>>
  BY DEF WatchdogFires, Watchdog, receiverVars, ReceiverKept
<1>3. SenderIsQuiet BY <1>1 DEF WatchdogFires, Timeout, TypeOK
<1>4. pump.at = "idle" /\ NothingInFlight(b) BY <1>3 DEF SenderIsQuiet, BlockIsQuiet
<1>5. BlockRetry(b) \in BlockMsgs /\ BlockRetry(b).block = b BY DEF BlockRetry, BlockMsgs
<1>6. ctl[BlockRetry(b)] = 0 BY <1>4, <1>5 DEF NothingInFlight
<1>7. b \in timers BY DEF WatchdogFires, Watchdog
<1>8. ~Queued(b) BY <1>7 DEF WindowInv, Apart
<1>9. CASE RetryBlock(b)
  BY <1>2, <1>4, <1>6, <1>8, <1>9, RetryKeepsWindow DEF TrafficKept
<1>10. CASE timers' = timers \ {b} /\ UNCHANGED <<pending, credits, pump>>
  <2>1. ASSUME NEW c \in Blocks PROVE Apart(c)'
    <3>1. Apart(c) /\ ctl[BlockRetry(c)] \in Nat BY <1>1, WindowTypes DEF WindowInv
    <3>2. Busy(c)' => Busy(c) BY <1>2, <1>10, BusyStays DEF TrafficKept, PumpOn
    <3>3. Queued(c)' => Queued(c) BY <1>10 DEF Queued
    <3>4. ctl'[BlockRetry(c)] \in Nat /\ ctl'[BlockRetry(c)] <= ctl[BlockRetry(c)] BY <1>2, <3>1
    <3>5. QED BY <1>10, <3>1, <3>2, <3>3, <3>4, StaysApart
  <2>2. ctl'[CreditGrant] \in Nat /\ ctl'[CreditGrant] <= ctl[CreditGrant] BY <1>1, <1>2, WindowTypes
  <2>3. AllGood' /\ UNCHANGED verified BY <1>2, GoodStays DEF WindowInv, ReceiverKept
  <2>4. QED BY <1>10, <2>1, <2>2, <2>3, QuietKeepsWindow
<1>11. QED BY <1>9, <1>10 DEF WatchdogFires, Watchdog

LEMMA SenderUserKeepsWindow ==
  ASSUME WindowInv, SenderUser \/ UserResumes \/ (ReadFails /\ BySender)
  PROVE  WindowKept
<1>1. TypeOK /\ ReceiverKept
  BY DEF WindowInv, IInv, SenderUser, UserResumes, BySender, receiverVars, ReceiverKept
<1>2. CASE Resume
  <2> DEFINE halt == cancelled \/ completed
  <2>1. KickPump(pending, credits, halt) /\ UNCHANGED <<data, ctl, timers>> BY <1>2 DEF Resume
  <2> HIDE DEF halt
  <2>2. QED BY <1>1, <2>1, PumpKeepsWindow
<1>3. CASE Pause \/ CancelSending \/ ReadFails
  <2>1. /\ UNCHANGED <<pending, credits, data>> /\ timers' \subseteq timers
        /\ pump' = pump \/ pump' = Idle
    BY <1>3 DEF Pause, CancelSending, StopSending, ReadFails
  <2>2. \A b \in Blocks : PumpOn(b)' => PumpOn(b) BY <2>1 DEF PumpOn, Idle
  <2>3. ctl' = ctl \/ ctl' = Sent(ctl, CancelAtReceiver)
    BY <1>3 DEF Pause, CancelSending, ReadFails
  <2>4. \A x \in CtlMsgs : x # CancelAtReceiver => ctl'[x] = ctl[x]
    BY <1>1, <2>3, WindowTypes, MessageTypes DEF Sent
  <2>5. MessagesKept BY <2>4, MessageTypes, MessagesApart DEF MessagesKept, TrafficKept
  <2>6. CreditGrant # CancelAtReceiver BY DEF CreditGrant, CancelAtReceiver
  <2>7. ctl'[CreditGrant] \in Nat /\ ctl'[CreditGrant] <= ctl[CreditGrant]
    BY <1>1, <2>4, <2>6, WindowTypes, MessageTypes
  <2>8. ASSUME NEW c \in Blocks PROVE Apart(c)'
    <3>1. Apart(c) /\ ctl[BlockRetry(c)] \in Nat BY <1>1, WindowTypes DEF WindowInv
    <3>2. Busy(c)' => Busy(c) BY <1>1, <2>1, <2>2, <2>5, BusyStays DEF MessagesKept
    <3>3. Queued(c)' => Queued(c) BY <2>1 DEF Queued
    <3>4. ctl'[BlockRetry(c)] \in Nat /\ ctl'[BlockRetry(c)] <= ctl[BlockRetry(c)]
      BY <2>5, <3>1 DEF MessagesKept
    <3>5. QED BY <2>1, <3>1, <3>2, <3>3, <3>4, StaysApart
  <2>9. AllGood' /\ UNCHANGED verified BY <1>1, <2>1, GoodStays DEF WindowInv, ReceiverKept
  <2>10. QED BY <2>1, <2>7, <2>8, <2>9, QuietKeepsWindow
<1>4. QED BY <1>2, <1>3 DEF SenderUser, UserResumes

-----------------------------------------------------------------------------
(* Steps of the receiver and of the routes.                                *)

\* Frames only disappear.
FramesFewer == data' \in [Frames -> Nat] /\ \A f \in Frames : data'[f] > 0 => data[f] > 0

LEMMA TakenFrame ==
  ASSUME TypeOK, NEW f \in Frames, data[f] > 0, data' = Taken(data, f) \/ data' = data
  PROVE  FramesFewer
<1>1. data \in [Frames -> Nat] BY WindowTypes
<1>2. CASE data' = data BY <1>1, <1>2 DEF FramesFewer
<1>3. CASE data' = Taken(data, f) BY <1>1, <1>3 DEF FramesFewer, Taken
<1>4. QED BY <1>2, <1>3

LEMMA FewerStayGood ==
  ASSUME TypeOK, AllGood, FramesFewer
  PROVE  \A f \in DataFrame : f.content # "good" => data'[f] = 0
<1>1. TAKE f \in DataFrame
<1>2. f \in Frames /\ data[f] \in Nat /\ data'[f] \in Nat BY WindowTypes DEF Frames, FramesFewer
<1>3. QED BY <1>2 DEF AllGood, FramesFewer

LEMMA NothingMovesOn ==
  ASSUME WindowInv, UNCHANGED senderVars, ReceiverKept, FramesFewer, MessagesKept,
         ctl'[CreditGrant] = ctl[CreditGrant]
  PROVE  WindowKept
<1>1. TypeOK /\ AllGood BY DEF WindowInv, IInv
<1>2. AllGood' BY <1>1, FewerStayGood DEF AllGood, ReceiverKept
<1>3. UNCHANGED <<pending, credits, verified, timers, pump>> BY DEF senderVars, ReceiverKept
<1>4. ASSUME NEW b \in Blocks PROVE Apart(b)'
  <2>1. Apart(b) /\ ctl[BlockRetry(b)] \in Nat BY <1>1, WindowTypes DEF WindowInv
  <2>2. Busy(b)' => Busy(b)
    BY <1>3 DEF Busy, PumpOn, OnWire, ReceiverKept, FramesFewer, MessagesKept, TrafficKept
  <2>3. Queued(b)' => Queued(b) BY <1>3 DEF Queued
  <2>4. ctl'[BlockRetry(b)] \in Nat /\ ctl'[BlockRetry(b)] <= ctl[BlockRetry(b)]
    BY <2>1 DEF MessagesKept
  <2>5. QED BY <1>3, <2>1, <2>2, <2>3, <2>4, StaysApart
<1>5. ctl'[CreditGrant] \in Nat /\ ctl'[CreditGrant] <= ctl[CreditGrant] BY <1>1, WindowTypes
<1>6. QED BY <1>2, <1>3, <1>4, <1>5, QuietKeepsWindow

\* A step of the receiver about a busy block
LEMMA ReceiverKeepsWindow ==
  ASSUME WindowInv, UNCHANGED senderVars, UNCHANGED verified, AllGood', FramesFewer,
         ctl'[CreditGrant] = ctl[CreditGrant], NEW b \in Blocks, Busy(b),
         \A c \in Blocks : ctl'[BlockRetry(c)] = ctl[BlockRetry(c)],
         \A c \in Blocks \ {b} : /\ verifying'[c] = verifying[c]
                                 /\ c \in stalls' => c \in stalls
                                 /\ ctl'[BlockEnd(c)] = ctl[BlockEnd(c)]
                                 /\ ctl'[BlockAck(c)] = ctl[BlockAck(c)]
  PROVE  WindowKept
<1>1. TypeOK BY DEF WindowInv, IInv
<1>2. UNCHANGED <<pending, credits, timers, pump>> BY DEF senderVars
<1>3. ASSUME NEW c \in Blocks \ {b} PROVE Busy(c)' => Busy(c)
  <2>1. OnWire(c)' => OnWire(c) BY <1>3 DEF OnWire, FramesFewer
  <2>2. PumpOn(c)' => PumpOn(c) BY <1>2 DEF PumpOn
  <2>3. QED BY <1>3, <2>1, <2>2 DEF Busy
<1>4. ctl'[CreditGrant] \in Nat /\ ctl'[CreditGrant] <= ctl[CreditGrant] BY <1>1, WindowTypes
<1>5. QED BY <1>2, <1>3, <1>4, BusyKeepsWindow

GoodRow(row) == \A c \in Chunks : row[c] \in {"none", "good", "gone"}

\* tryVerifyBlock with chunks as they were cut: it never has too many bytes, and what goes
\* to the verifier is worth what it should be.
LEMMA GoodVerify ==
  ASSUME WindowInv, NEW b \in Blocks, NEW row \in [Chunks -> Slots], GoodRow(row),
         NEW size, NEW known, NEW state, state = verifying[b] \/ state = "idle",
         NEW net, TryVerify(b, row, size, known, state, net)
  PROVE  /\ ctl' = net
         /\ \A d \in Blocks : GoodRow(chunks'[d])
         /\ \A d \in Blocks : verifying'[d] = "hash" => snapshot'[d] = "good"
         /\ \A d \in Blocks \ {b} : verifying'[d] = verifying[d]
<1>1. TypeOK /\ AllGood BY DEF WindowInv, IInv
<1>2. /\ chunks \in [Blocks -> [Chunks -> Slots]] /\ snapshot \in [Blocks -> {"good", "bad"}]
      /\ verifying \in [Blocks -> {"idle", "hash", "write"}]
  BY <1>1, WindowTypes
<1>3. \A d \in Blocks : GoodRow(chunks[d]) /\ (verifying[d] = "hash" => snapshot[d] = "good")
  BY <1>1 DEF AllGood, GoodRow
<1>4. \A c \in Chunks : row[c] # "long" BY DEF GoodRow
<1>5. TotalLen(row) <= NumChunks /\ TotalLen(row) \in Nat
      /\ (TotalLen(row) >= NumChunks => \A c \in Chunks : ChunkLen(row[c]) = 1)
  BY <1>4, EnoughIsWhole, LenIsSum
<1>6. CASE /\ ctl' = net /\ chunks' = [chunks EXCEPT ![b] = row] /\ UNCHANGED snapshot
           /\ verifying' \in {[verifying EXCEPT ![b] = state], [verifying EXCEPT ![b] = "idle"]}
  <2>1. \A d \in Blocks : chunks'[d] = IF d = b THEN row ELSE chunks[d] BY <1>2, <1>6
  <2>2. \A d \in Blocks \ {b} : verifying'[d] = verifying[d] BY <1>2, <1>6
  <2>3. verifying'[b] = verifying[b] \/ verifying'[b] = "idle" BY <1>2, <1>6
  <2>4. \A d \in Blocks : verifying'[d] = "hash" => verifying[d] = "hash" BY <2>2, <2>3
  <2>5. \A d \in Blocks : GoodRow(chunks'[d]) BY <1>3, <2>1
  <2>6. QED BY <1>3, <1>6, <2>2, <2>4, <2>5
<1>7. CASE /\ Whole(row) /\ TotalLen(row) # NumChunks
  <2>1. TotalLen(row) >= NumChunks BY <1>7 DEF Whole
  <2>2. QED BY <1>5, <1>7, <2>1, ChunksFinite
<1>8. CASE /\ TotalLen(row) = NumChunks /\ ctl' = net
           /\ chunks' = [chunks EXCEPT ![b] = Detached(b, row)]
           /\ verifying' = [verifying EXCEPT ![b] = "hash"]
           /\ snapshot' = [snapshot EXCEPT ![b] = Worth(row)]
  <2>1. \A c \in Chunks : ChunkLen(row[c]) = 1 BY <1>5, <1>8, ChunksFinite
  <2>2. \A c \in Chunks : row[c] = "good" BY <2>1 DEF GoodRow, ChunkLen
  <2>3. Worth(row) = "good" BY <2>2 DEF Worth
  <2>4. GoodRow(Detached(b, row)) BY DEF Detached, GoodRow
  <2>5. \A d \in Blocks : chunks'[d] = IF d = b THEN Detached(b, row) ELSE chunks[d] BY <1>2, <1>8
  <2>6. \A d \in Blocks : GoodRow(chunks'[d]) BY <1>3, <2>4, <2>5
  <2>7. snapshot'[b] = "good"
        /\ \A d \in Blocks \ {b} : verifying'[d] = verifying[d] /\ snapshot'[d] = snapshot[d]
    BY <1>2, <1>8, <2>3
  <2>8. QED BY <1>3, <1>8, <2>6, <2>7
<1>9. QED BY <1>6, <1>7, <1>8 DEF TryVerify

LEMMA BlockEndKeepsWindow ==
  ASSUME WindowInv, NEW b \in Blocks, Busy(b), NEW net \in [CtlMsgs -> Nat], HandleBlockEnd(b, net),
         \A m \in CtlMsgs \ {BlockEnd(b)} : net[m] = ctl[m], UNCHANGED senderVars, FramesFewer
  PROVE  WindowKept
<1>1. TypeOK /\ AllGood BY DEF WindowInv, IInv
<1>2. \A f \in DataFrame : f.content # "good" => data'[f] = 0 BY <1>1, FewerStayGood
<1>3. UNCHANGED verified BY DEF HandleBlockEnd
<1>4. \A m \in CtlMsgs : m \notin {BlockEnd(b), BlockAck(b)} => Sent(net, BlockAck(b))[m] = ctl[m] BY DEF Sent
<1>5. ASSUME ctl' = net \/ ctl' = Sent(net, BlockAck(b))
      PROVE  /\ ctl'[CreditGrant] = ctl[CreditGrant]
             /\ \A c \in Blocks : ctl'[BlockRetry(c)] = ctl[BlockRetry(c)]
             /\ \A c \in Blocks \ {b} : /\ ctl'[BlockEnd(c)] = ctl[BlockEnd(c)]
                                        /\ ctl'[BlockAck(c)] = ctl[BlockAck(c)]
  <2>1. \A m \in CtlMsgs : m \notin {BlockEnd(b), BlockAck(b)} => ctl'[m] = ctl[m] BY <1>4, <1>5
  <2>2. QED BY <2>1, MessageTypes, MessagesApart
<1>6. CASE ctl' = Sent(net, BlockAck(b)) /\ UNCHANGED <<chunks, stalls, verifying, snapshot>>
  <2>1. AllGood' BY <1>1, <1>2, <1>6 DEF AllGood
  <2>2. QED BY <1>3, <1>5, <1>6, <2>1, ReceiverKeepsWindow
<1>7. CASE TryVerify(b, chunks[b], bytes[b], ends \cup {b}, verifying[b], net) /\ stalls' = Armed(b)
  <2> DEFINE row == chunks[b]
             size == bytes[b]
             known == ends \cup {b}
             state == verifying[b]
  <2>1. row \in [Chunks -> Slots] /\ GoodRow(row) BY <1>1, WindowTypes DEF AllGood, GoodRow
  <2>2. TryVerify(b, row, size, known, state, net) /\ state = verifying[b] BY <1>7
  <2> HIDE DEF row, size, known, state
  <2>3. /\ ctl' = net
        /\ \A d \in Blocks : GoodRow(chunks'[d])
        /\ \A d \in Blocks : verifying'[d] = "hash" => snapshot'[d] = "good"
        /\ \A d \in Blocks \ {b} : verifying'[d] = verifying[d]
    BY <2>1, <2>2, GoodVerify
  <2>4. AllGood' BY <1>2, <2>3 DEF AllGood, GoodRow
  <2>5. \A c \in Blocks \ {b} : c \in stalls' => c \in stalls BY <1>7 DEF Armed
  <2>6. QED BY <1>3, <1>5, <2>3, <2>4, <2>5, ReceiverKeepsWindow
<1>8. QED BY <1>6, <1>7 DEF HandleBlockEnd

LEMMA FrameKeepsWindow ==
  ASSUME WindowInv, NEW f \in Frames, FrameArrives(f)
  PROVE  WindowKept
<1>1. TypeOK /\ AllGood BY DEF WindowInv, IInv
<1>2. UNCHANGED senderVars BY DEF FrameArrives, ByReceiver
<1>3. data[f] > 0 /\ data' = Taken(data, f)
  <2>1. f \in EndFrame => InBandEnd(f.block) = f BY DEF EndFrame, InBandEnd
  <2>2. QED BY <2>1 DEF FrameArrives, RecvChunk, RecvInBandEnd, IgnoreFrame
<1>4. FramesFewer BY <1>1, <1>3, TakenFrame
<1>5. \A g \in DataFrame : g.content # "good" => data'[g] = 0 BY <1>1, <1>4, FewerStayGood
<1>6. f.block \in Blocks BY DEF Frames, DataFrame, EndFrame
<1>7. Busy(f.block) BY <1>3 DEF Busy, OnWire
<1>8. CASE f \in DataFrame /\ RecvChunk(f)
  <2>0. PICK b \in Blocks : b = f.block BY <1>6
  <2> DEFINE row   == [chunks[b] EXCEPT ![f.chunk] = f.content]
             armed == IF b \in ends THEN Armed(b) ELSE stalls
             size  == Recounted(f)
             state == verifying[b]
  <2>1. /\ TryVerify(b, row, size, ends, state, ctl) /\ state = verifying[b]
        /\ stalls' = StallsAfter(b, row, ends, state, armed) /\ UNCHANGED verified
    BY <1>8, <2>0 DEF RecvChunk
  <2>2. f.content = "good" /\ f.chunk \in Chunks BY <1>1, <1>3, <1>8 DEF AllGood, DataFrame
  <2>3. row \in [Chunks -> Slots] /\ GoodRow(row)
    <3>1. chunks[b] \in [Chunks -> Slots] /\ GoodRow(chunks[b]) BY <1>1, WindowTypes DEF AllGood, GoodRow
    <3>2. "good" \in Slots BY DEF Slots, Contents
    <3>3. QED BY <2>2, <3>1, <3>2 DEF GoodRow
  <2>4. stalls' \subseteq stalls \cup {b} BY <2>1 DEF StallsAfter, Armed
  <2> HIDE DEF row, armed, size, state
  <2>5. /\ ctl' = ctl
        /\ \A d \in Blocks : GoodRow(chunks'[d])
        /\ \A d \in Blocks : verifying'[d] = "hash" => snapshot'[d] = "good"
        /\ \A d \in Blocks \ {b} : verifying'[d] = verifying[d]
    BY <2>1, <2>3, GoodVerify
  <2>6. AllGood' BY <1>5, <2>5 DEF AllGood, GoodRow
  <2>7. Busy(b) /\ \A c \in Blocks \ {b} : c \in stalls' => c \in stalls BY <1>7, <2>0, <2>4
  <2>8. QED BY <1>2, <1>4, <2>1, <2>5, <2>6, <2>7, ReceiverKeepsWindow
<1>9. CASE f \in EndFrame /\ RecvInBandEnd(f.block)
  <2>1. HandleBlockEnd(f.block, ctl) BY <1>9 DEF RecvInBandEnd
  <2>2. ctl \in [CtlMsgs -> Nat] BY <1>1, WindowTypes
  <2>3. QED BY <1>2, <1>4, <1>6, <1>7, <2>1, <2>2, BlockEndKeepsWindow
<1>10. CASE IgnoreFrame(f)
  <2>1. ReceiverKept /\ UNCHANGED ctl BY <1>10 DEF IgnoreFrame, receiverVars, ReceiverKept
  <2>2. QED BY <1>2, <1>4, <2>1, NothingMovesOn DEF MessagesKept, TrafficKept
<1>11. QED BY <1>8, <1>9, <1>10 DEF FrameArrives

LEMMA CtlKeepsWindow ==
  ASSUME WindowInv, NEW m \in CtlMsgs, ReceiverHandles(m)
  PROVE  WindowKept
<1>1. TypeOK BY DEF WindowInv, IInv
<1>2. UNCHANGED senderVars BY DEF ReceiverHandles, ByReceiver
<1>3. UNCHANGED <<pending, credits, pump, timers>> BY <1>2 DEF senderVars
<1>4. CASE m = CancelAtReceiver /\ RecvCancelAtReceiver
  <2>1. ctl[m] > 0 /\ ctl' = Taken(ctl, m) /\ UNCHANGED data /\ ReceiverKept
    BY <1>4 DEF RecvCancelAtReceiver, StopReceiving, receiverVars, ReceiverKept
  <2>2. QED BY <1>3, <2>1, TakenKeepsWindow
<1>5. ASSUME NEW b \in Blocks, m = BlockEnd(b), IgnoreBlockEnd(b) PROVE WindowKept
  <2>1. ctl[m] > 0 /\ ctl' = Taken(ctl, m) /\ UNCHANGED data /\ ReceiverKept
    BY <1>5 DEF IgnoreBlockEnd, receiverVars, ReceiverKept
  <2>2. QED BY <1>3, <2>1, TakenKeepsWindow
<1>6. ASSUME NEW b \in Blocks, m = BlockEnd(b), RecvBlockEnd(b) PROVE WindowKept
  <2>1. ctl[m] > 0 /\ HandleBlockEnd(b, Taken(ctl, m)) /\ UNCHANGED data BY <1>6 DEF RecvBlockEnd
  <2>2. Busy(b) BY <1>6, <2>1 DEF Busy, OnWire
  <2> DEFINE net == Taken(ctl, m)
  <2>3. net \in [CtlMsgs -> Nat] /\ \A x \in CtlMsgs \ {BlockEnd(b)} : net[x] = ctl[x]
    BY <1>1, <1>6, <2>1, WindowTypes, TakenType, TakingLeaves
  <2>4. HandleBlockEnd(b, net) BY <2>1
  <2>5. FramesFewer BY <1>1, <2>1, WindowTypes DEF FramesFewer
  <2> HIDE DEF net
  <2>6. QED BY <1>2, <2>2, <2>3, <2>4, <2>5, BlockEndKeepsWindow
<1>7. QED BY <1>4, <1>5, <1>6 DEF ReceiverHandles

\* A block that is written returns its credit.
LEMMA WriteKeepsWindow ==
  ASSUME WindowInv, NEW b \in Blocks, WriteDone(b), UNCHANGED senderVars
  PROVE  WindowKept
<1>1. TypeOK /\ AllGood /\ WritesMatch BY DEF WindowInv, IInv
<1>2. UNCHANGED <<pending, credits, pump, timers, data>> BY DEF senderVars, WriteDone
<1>3. verifying[b] = "write" /\ b \notin verified BY <1>1 DEF WriteDone, WritesMatch
<1>4. Apart(b) /\ Busy(b) /\ ctl[BlockRetry(b)] \in Nat BY <1>1, <1>3, WindowTypes DEF WindowInv, Busy
<1>5. ~Queued(b) /\ ctl[BlockRetry(b)] = 0 BY <1>4 DEF Apart
<1>6. /\ verified' = verified \cup {b} /\ UNCHANGED snapshot /\ stalls' \subseteq stalls
      /\ verifying' = [verifying EXCEPT ![b] = "idle"] /\ chunks' = [chunks EXCEPT ![b] = NoChunk]
      /\ ctl' = Sent(Sent(ctl, BlockAck(b)), CreditGrant)
  BY DEF WriteDone, Forget
<1>7. /\ ctl'[CreditGrant] = ctl[CreditGrant] + 1
      /\ \A m \in CtlMsgs \ {CreditGrant, BlockAck(b)} : ctl'[m] = ctl[m]
  <2> DEFINE mid == Sent(ctl, BlockAck(b))
  <2>1. mid \in [CtlMsgs -> Nat] /\ \A m \in CtlMsgs \ {BlockAck(b)} : mid[m] = ctl[m]
    BY <1>1, WindowTypes, MessageTypes, SentType DEF Sent
  <2>2. ctl' = Sent(mid, CreditGrant) BY <1>6
  <2> HIDE DEF mid
  <2>3. ctl'[CreditGrant] = mid[CreditGrant] + 1 /\ \A m \in CtlMsgs \ {CreditGrant} : ctl'[m] = mid[m]
    BY <2>1, <2>2, MessageTypes DEF Sent
  <2>4. QED BY <2>1, <2>3, MessageTypes, MessagesApart
<1>8. \A c \in Blocks : ctl'[BlockRetry(c)] = ctl[BlockRetry(c)] BY <1>7, MessageTypes, MessagesApart
<1>9. ASSUME NEW c \in Blocks PROVE Apart(c)'
  <2>1. Apart(c) /\ ctl[BlockRetry(c)] \in Nat BY <1>1, WindowTypes DEF WindowInv
  <2>2. Queued(c)' = Queued(c) BY <1>2 DEF Queued
  <2>3. CASE c = b BY <1>5, <1>8, <2>2, <2>3, GoneOn
  <2>4. CASE c # b
    <3>1. ctl'[BlockEnd(c)] = ctl[BlockEnd(c)] /\ ctl'[BlockAck(c)] = ctl[BlockAck(c)]
      BY <1>7, <2>4, MessageTypes, MessagesApart
    <3>2. verifying'[c] = verifying[c] BY <1>1, <1>6, <2>4, WindowTypes
    <3>3. Busy(c)' => Busy(c) BY <1>2, <1>6, <2>4, <3>1, <3>2 DEF Busy, OnWire, PumpOn
    <3>4. ctl'[BlockRetry(c)] \in Nat /\ ctl'[BlockRetry(c)] <= ctl[BlockRetry(c)] BY <1>8, <2>1
    <3>5. QED BY <1>2, <2>1, <2>2, <3>3, <3>4, StaysApart
  <2>5. QED BY <2>3, <2>4
<1>10. AllGood'
  <2>1. \A d \in Blocks : chunks'[d] = IF d = b THEN NoChunk ELSE chunks[d] BY <1>1, <1>6, WindowTypes
  <2>2. \A d \in Blocks : \A c \in Chunks : chunks'[d][c] \in {"none", "good", "gone"}
    BY <1>1, <2>1 DEF AllGood, NoChunk
  <2>3. \A d \in Blocks : verifying'[d] = "hash" => verifying[d] = "hash" BY <1>1, <1>6, WindowTypes
  <2>4. QED BY <1>1, <1>2, <1>6, <2>2, <2>3 DEF AllGood
<1> DEFINE before == Outstanding
           after  == Outstanding'
<1>11. b \in before /\ after = before \ {b} BY <1>2, <1>3, <1>5, <1>6 DEF Outstanding, Queued
<1>12. Cardinality(before) \in Nat /\ Cardinality(after) = Cardinality(before) - 1
  <2>1. before \in SUBSET Blocks BY OutstandingBlocks
  <2> HIDE DEF before, after
  <2>2. QED BY <1>11, <2>1, BlockCount
<1> DEFINE x == Cardinality(before)
           y == Cardinality(after)
           old == ctl[CreditGrant]
           new == ctl'[CreditGrant]
<1>13. /\ x \in Nat /\ y = x - 1 /\ old \in Nat /\ new = old + 1 /\ credits \in Nat
       /\ InitialCredits \in Nat /\ credits + old + x <= InitialCredits
  BY <1>1, <1>7, <1>12, WindowTypes, SenderAssumption DEF SenderAssumption, WindowInv, CreditsBound
<1> HIDE DEF x, y, old, new
<1>14. credits + new + y <= InitialCredits BY <1>13
<1>15. CreditsBound' BY <1>2, <1>14 DEF CreditsBound, y, new
<1>16. NoRepeats(pending)' BY <1>2 DEF WindowInv, NoRepeats
<1>17. QED BY <1>9, <1>10, <1>15, <1>16 DEF WindowKept

LEMMA VerificationKeepsWindow ==
  ASSUME WindowInv, NEW b \in Blocks, Verification(b) \/ (WriteFails(b) /\ ByReceiver)
  PROVE  WindowKept
<1>1. TypeOK /\ AllGood BY DEF WindowInv, IInv
<1>2. UNCHANGED senderVars BY DEF Verification, ByReceiver
<1>3. CASE WriteDone(b) BY <1>2, <1>3, WriteKeepsWindow
<1>4. CASE HashDiffers(b) BY <1>1, <1>4 DEF HashDiffers, AllGood
<1>5. CASE HashMatches(b)
  <2>1. /\ verifying[b] = "hash" /\ verifying' = [verifying EXCEPT ![b] = "write"]
        /\ UNCHANGED <<data, ctl, verified, stalls, chunks, snapshot>>
    BY <1>5 DEF HashMatches, routeVars
  <2>2. Busy(b) BY <2>1 DEF Busy
  <2>3. FramesFewer BY <1>1, <2>1, WindowTypes DEF FramesFewer
  <2>4. \A d \in Blocks \ {b} : verifying'[d] = verifying[d] BY <1>1, <2>1, WindowTypes
  <2>5. verifying'[b] = "write" BY <1>1, <2>1, WindowTypes
  <2>6. AllGood' BY <1>1, <2>1, <2>4, <2>5 DEF AllGood
  <2>7. QED BY <1>2, <2>1, <2>2, <2>3, <2>4, <2>6, ReceiverKeepsWindow
<1>6. CASE WriteFails(b)
  <2> DEFINE row == chunks[b]
             size == bytes[b]
             state == "idle"
  <2>1. /\ verifying[b] = "write" /\ UNCHANGED <<data, verified>> /\ stalls' \subseteq stalls
        /\ TryVerify(b, row, size, ends, state, ctl) /\ state = "idle"
    BY <1>6 DEF WriteFails, FailAndLookAgain, StallsAfter
  <2>2. row \in [Chunks -> Slots] /\ GoodRow(row) BY <1>1, WindowTypes DEF AllGood, GoodRow
  <2> HIDE DEF row, size, state
  <2>3. /\ ctl' = ctl
        /\ \A d \in Blocks : GoodRow(chunks'[d])
        /\ \A d \in Blocks : verifying'[d] = "hash" => snapshot'[d] = "good"
        /\ \A d \in Blocks \ {b} : verifying'[d] = verifying[d]
    BY <2>1, <2>2, GoodVerify
  <2>4. AllGood' BY <1>1, <2>1, <2>3 DEF AllGood, GoodRow
  <2>5. FramesFewer BY <1>1, <2>1, WindowTypes DEF FramesFewer
  <2>6. Busy(b) BY <2>1 DEF Busy
  <2>7. QED BY <1>2, <2>1, <2>3, <2>4, <2>5, <2>6, ReceiverKeepsWindow
<1>7. QED BY <1>3, <1>4, <1>5, <1>6 DEF Verification

\* A stall timer that is never early asks for a block about which nothing is on its way.
LEMMA StallKeepsWindow ==
  ASSUME MaxEarly = 0, WindowInv, NEW b \in Blocks, StallFires(b)
  PROVE  WindowKept
<1>1. TypeOK /\ AllGood BY DEF WindowInv, IInv
<1>2. UNCHANGED <<pending, credits, pump, timers, verified, verifying, chunks, snapshot, data>>
  BY DEF StallFires, senderVars, Stall
<1>3. b \in stalls /\ stalls' = stalls \ {b} BY DEF StallFires, Stall
<1>4. BlockIsQuiet(b) BY <1>1 DEF StallFires, Timeout, TypeOK
<1>5. ~PumpOn(b) /\ verifying[b] = "idle" /\ NothingInFlight(b) BY <1>4 DEF BlockIsQuiet, PumpOn
<1>6. \A m \in {BlockEnd(b), BlockAck(b), BlockRetry(b)} : ctl[m] = 0
  BY <1>5 DEF NothingInFlight, BlockMsgs, BlockEnd, BlockAck, BlockRetry
<1>7. ~Queued(b) BY <1>3 DEF WindowInv, Apart, Busy
<1>8. ctl' = ctl \/ (b \notin verified /\ ctl' = Sent(ctl, BlockRetry(b))) BY DEF StallFires, Stall
<1>9. \A m \in CtlMsgs \ {BlockRetry(b)} : ctl'[m] = ctl[m] BY <1>1, <1>8, WindowTypes, MessageTypes DEF Sent
<1>10. AllGood' BY <1>1, <1>2 DEF AllGood
<1>11. ASSUME NEW c \in Blocks PROVE Apart(c)'
  <2>1. Apart(c) /\ ctl[BlockRetry(c)] \in Nat BY <1>1, WindowTypes DEF WindowInv
  <2>2. Queued(c)' = Queued(c) BY <1>2 DEF Queued
  <2>3. ctl'[BlockEnd(c)] = ctl[BlockEnd(c)] /\ ctl'[BlockAck(c)] = ctl[BlockAck(c)]
    BY <1>9, MessageTypes, MessagesApart
  <2>4. CASE c = b
    <3>1. CASE ctl' = ctl BY <1>6, <1>7, <2>2, <2>4, <3>1, GoneOn
    <3>2. CASE b \notin verified /\ ctl' = Sent(ctl, BlockRetry(b))
      <4>1. \A f \in Frames : f.block = b => data[f] = 0 BY <1>5 DEF NothingInFlight
      <4>2. ~OnWire(b)' BY <1>2, <1>6, <2>3, <2>4, <4>1 DEF OnWire
      <4>3. ~Busy(b)' BY <1>2, <1>3, <1>5, <3>2, <4>2 DEF Busy, PumpOn
      <4>4. ctl'[BlockRetry(b)] = 1 BY <1>1, <1>6, <3>2, WindowTypes, MessageTypes DEF Sent
      <4>5. QED BY <1>7, <2>2, <2>4, <4>3, <4>4 DEF Apart
    <3>3. QED BY <1>8, <3>1, <3>2
  <2>5. CASE c # b
    <3>1. ctl'[BlockRetry(c)] = ctl[BlockRetry(c)] BY <1>9, <2>5, MessageTypes, MessagesApart
    <3>2. ctl'[BlockRetry(c)] \in Nat /\ ctl'[BlockRetry(c)] <= ctl[BlockRetry(c)] BY <2>1, <3>1
    <3>3. Busy(c)' => Busy(c) BY <1>2, <1>3, <2>3 DEF Busy, OnWire, PumpOn
    <3>4. QED BY <1>2, <2>1, <2>2, <3>2, <3>3, StaysApart
  <2>6. QED BY <2>4, <2>5
<1>12. ctl'[CreditGrant] = ctl[CreditGrant] /\ ctl[CreditGrant] \in Nat
  BY <1>1, <1>9, WindowTypes, MessageTypes, MessagesApart
<1>13. ctl'[CreditGrant] \in Nat /\ ctl'[CreditGrant] <= ctl[CreditGrant] BY <1>12
<1>14. QED BY <1>2, <1>10, <1>11, <1>13, QuietKeepsWindow

LEMMA EndKeepsWindow ==
  ASSUME WindowInv, FileDone \/ ReceiverUser \/ (FinalizeFails /\ ByReceiver)
  PROVE  WindowKept
<1>1. TypeOK BY DEF WindowInv, IInv
<1>2. UNCHANGED senderVars /\ UNCHANGED data /\ ReceiverKept
  BY DEF FileDone, ReceiverUser, FinalizeFails, Finalize, ByReceiver, CancelReceiving, StopReceiving,
         routeVars, ReceiverKept
<1>3. ctl' = ctl \/ ctl' = Sent(ctl, CancelAtSender)
  BY DEF FileDone, ReceiverUser, FinalizeFails, Finalize, CancelReceiving, routeVars
<1>4. \A m \in CtlMsgs \ {CancelAtSender} : ctl'[m] = ctl[m] BY <1>1, <1>3, WindowTypes DEF Sent
<1>5. MessagesKept BY <1>4, MessageTypes, MessagesApart DEF MessagesKept, TrafficKept
<1>6. CreditGrant # CancelAtSender BY DEF CreditGrant, CancelAtSender
<1>7. ctl'[CreditGrant] = ctl[CreditGrant] BY <1>4, <1>6, MessageTypes
<1>8. FramesFewer BY <1>1, <1>2, WindowTypes DEF FramesFewer
<1>9. QED BY <1>2, <1>5, <1>7, <1>8, NothingMovesOn

LEMMA RouteFaultsKeepWindow ==
  ASSUME MaxDamage = 0, WindowInv, ByRoutes,
         (\E f \in Frames : LoseFrame(f)) \/ (\E m \in CtlMsgs : LoseCtl(m))
           \/ (\E f \in Frames, kind \in DamageKinds : DamageFrame(f, kind))
  PROVE  WindowKept
<1>1. TypeOK BY DEF WindowInv, IInv
<1>2. UNCHANGED senderVars /\ ReceiverKept BY DEF ByRoutes, receiverVars, ReceiverKept
<1>3. ASSUME NEW f \in Frames, LoseFrame(f) PROVE WindowKept
  <2>1. FramesFewer /\ UNCHANGED ctl BY <1>1, <1>3, TakenFrame DEF LoseFrame
  <2>2. MessagesKept /\ ctl'[CreditGrant] = ctl[CreditGrant] BY <2>1 DEF MessagesKept, TrafficKept
  <2>3. QED BY <1>2, <2>1, <2>2, NothingMovesOn
<1>4. ASSUME NEW m \in CtlMsgs, LoseCtl(m) PROVE WindowKept
  BY <1>2, <1>4, TakenKeepsWindow DEF LoseCtl, senderVars
<1>5. ~(\E f \in Frames, kind \in DamageKinds : DamageFrame(f, kind))
  <2>1. damaged \in Nat BY <1>1 DEF TypeOK, RoutesTypeOK
  <2>2. ~(damaged < MaxDamage) BY <2>1
  <2>3. QED BY <2>2 DEF DamageFrame
<1>6. QED BY <1>3, <1>4, <1>5

LEMMA InitWindow == Init => WindowInv
<1> SUFFICES ASSUME Init PROVE WindowInv
  OBVIOUS
<1>1. IInv BY InitSafe
<1>2. NumBlocks \in Nat \ {0} BY RoutesAssumption
<1>3. pending = [i \in 1 .. NumBlocks |-> i - 1] BY DEF Init, SenderInit
<1>4. NoRepeats(pending) BY <1>2, <1>3 DEF NoRepeats
<1>5. data = [f \in Frames |-> 0] /\ ctl = [m \in CtlMsgs |-> 0] BY DEF Init, RoutesInit
<1>6. pump.at = "idle" /\ timers = {} /\ credits = InitialCredits BY DEF Init, SenderInit, Idle
<1>7. /\ stalls = {} /\ verified = {} /\ verifying = [b \in Blocks |-> "idle"]
      /\ chunks = [b \in Blocks |-> NoChunk]
  BY DEF Init, ReceiverInit
<1>8. ASSUME NEW b \in Blocks PROVE Apart(b)
  <2>1. ctl[BlockEnd(b)] = 0 /\ ctl[BlockAck(b)] = 0 /\ ctl[BlockRetry(b)] = 0 BY <1>5, MessageTypes
  <2>2. ~OnWire(b) BY <1>5, <2>1 DEF OnWire
  <2>3. ~Busy(b) BY <1>6, <1>7, <2>2 DEF Busy, PumpOn
  <2>4. QED BY <1>6, <2>1, <2>3 DEF Apart
<1>9. AllGood BY <1>5, <1>7 DEF AllGood, NoChunk, Frames
<1>10. Outstanding = {}
  <2>1. ASSUME NEW b \in Blocks PROVE Contains(pending, b)
    <3>1. b + 1 \in 1 .. NumBlocks /\ (b + 1) - 1 = b BY <1>2 DEF Blocks
    <3>2. pending[b + 1] = b BY <1>3, <3>1
    <3>3. Len(pending) = NumBlocks BY <1>2, <1>3
    <3>4. QED BY <3>1, <3>2, <3>3 DEF Contains
  <2>2. QED BY <2>1 DEF Outstanding
<1>11. CreditsBound
  <2>1. Cardinality(Outstanding) = 0 /\ ctl[CreditGrant] = 0 BY <1>5, <1>10, FS_EmptySet, MessageTypes
  <2>2. InitialCredits \in Nat BY SenderAssumption DEF SenderAssumption
  <2>3. QED BY <1>6, <2>1, <2>2 DEF CreditsBound
<1>12. QED BY <1>1, <1>4, <1>8, <1>9, <1>11 DEF WindowInv

LEMMA NextWindow ==
  ASSUME MaxEarly = 0, MaxDamage = 0
  PROVE  WindowInv /\ [Next]_vars => WindowInv'
<1> SUFFICES ASSUME WindowInv, [Next]_vars PROVE WindowInv'
  OBVIOUS
<1>1. IInv' BY NextSafe DEF WindowInv
<1>2. SUFFICES WindowKept BY <1>1 DEF WindowKept, WindowInv
<1>3. CASE UNCHANGED vars
  <2>1. UNCHANGED senderVars /\ ReceiverKept /\ UNCHANGED <<data, ctl>>
    BY <1>3 DEF vars, receiverVars, routeVars, ReceiverKept
  <2>2. FramesFewer BY <2>1, WindowTypes DEF WindowInv, IInv, FramesFewer
  <2>3. QED BY <2>1, <2>2, NothingMovesOn DEF MessagesKept, TrafficKept
<1>4. CASE PumpStep BY <1>4, PumpStepKeepsWindow
<1>5. CASE SenderUser \/ UserResumes BY <1>5, SenderUserKeepsWindow
<1>6. CASE ReceiverUser \/ FileDone BY <1>6, EndKeepsWindow
<1>7. CASE Faults
  BY <1>7, SenderUserKeepsWindow, EndKeepsWindow, VerificationKeepsWindow, RouteFaultsKeepWindow DEF Faults
<1>8. ASSUME NEW m \in CtlMsgs, SenderHandles(m) \/ ReceiverHandles(m) PROVE WindowKept
  BY <1>8, SenderHandlesKeepsWindow, CtlKeepsWindow
<1>9. ASSUME NEW f \in Frames, FrameArrives(f) PROVE WindowKept
  BY <1>9, FrameKeepsWindow
<1>10. ASSUME NEW b \in Blocks, WatchdogFires(b) \/ StallFires(b) \/ Verification(b) PROVE WindowKept
  BY <1>10, WatchdogKeepsWindow, StallKeepsWindow, VerificationKeepsWindow
<1>11. QED BY <1>3, <1>4, <1>5, <1>6, <1>7, <1>8, <1>9, <1>10 DEF Next

\* As long as timers fire in order and frames arrive as they were cut, no more blocks than
\* the first credits allow are outstanding, for any number of blocks, chunks and credits, any
\* losses, failing disks, pauses and cancels: what retryBlock adds to an empty window
\* (sender/index.ts:144) is the credit that the block was taken for.
THEOREM WindowRespectedAlways ==
  ASSUME MaxEarly = 0, MaxDamage = 0
  PROVE  Spec => []WindowRespected
<1>1. WindowInv => WindowRespected
  <2> SUFFICES ASSUME WindowInv PROVE WindowRespected
    OBVIOUS
  <2> DEFINE x == Cardinality(Outstanding)
             old == ctl[CreditGrant]
  <2>1. x \in Nat BY OutstandingBlocks, BlockCount
  <2>2. /\ x \in Nat /\ old \in Nat /\ credits \in Nat /\ InitialCredits \in Nat
        /\ credits + old + x <= InitialCredits
    BY <2>1, WindowTypes, SenderAssumption DEF SenderAssumption, WindowInv, IInv, CreditsBound
  <2> HIDE DEF x, old
  <2>3. x <= InitialCredits BY <2>2
  <2>4. QED BY <2>3 DEF WindowRespected, x
<1>2. WindowInv /\ [Next]_vars => WindowInv' BY NextWindow
<1>3. QED BY <1>1, <1>2, InitWindow, PTL DEF Spec
=============================================================================
