------------------------ MODULE BlockTransferRefinement ------------------------
(***************************************************************************)
(* Proofs that the transfer implements FileDelivery.                       *)
(* They rest on StepShape: seen through what FileDelivery can see, every   *)
(* step of the pipelines, timers and routes has one of five shapes.        *)
(***************************************************************************)
EXTENDS BlockTransferProofs

\* What a step can change that a user of the transfer sees.
promised == <<verified, acked, disk, output, rxCancelled>>

CountsAck ==
  /\ \E b \in verified : acked' = acked \cup {b}
  /\ UNCHANGED <<verified, disk, output, rxCancelled>>

StoresBlock ==
  /\ \E b \in Blocks \ verified : /\ verified' = verified \cup {b}
                                  /\ disk' = [disk EXCEPT ![b] = snapshot[b]]
  /\ output = NoOutput
  /\ UNCHANGED <<acked, output, rxCancelled>>

AbortsWriter ==
  /\ output = NoOutput
  /\ rxCancelled'
  /\ UNCHANGED <<verified, acked, output>>

HandsOver ==
  /\ output = NoOutput
  /\ verified = Blocks
  /\ ~rxCancelled => disk = Intact
  /\ output' = disk
  /\ UNCHANGED <<verified, acked, disk, rxCancelled>>

StepShapes == UNCHANGED promised \/ CountsAck \/ StoresBlock \/ AbortsWriter \/ HandsOver

-----------------------------------------------------------------------------
LEMMA SenderShape ==
  ASSUME IInv, PumpStep \/ SenderUser \/ UserResumes \/ (ReadFails /\ BySender)
               \/ (\E b \in Blocks : WatchdogFires(b))
  PROVE  StepShapes
BY DEF PumpStep, SenderUser, UserResumes, WatchdogFires, BySender, Start, ChunkGate,
       SendChunk, SendBlockEnd, ArmWatchdog, Pause, CancelSending, StopSending, Resume,
       Watchdog, ReadFails, receiverVars, StepShapes, promised

LEMMA SenderHandlesShape ==
  ASSUME IInv, NEW m \in CtlMsgs, SenderHandles(m)
  PROVE  StepShapes
<1>1. UNCHANGED <<verified, disk, output, rxCancelled>>
  BY DEF SenderHandles, BySender, receiverVars
<1>2. ASSUME NEW b \in Blocks, RecvAck(b)
      PROVE  CountsAck
  BY <1>1, <1>2 DEF RecvAck, IInv, AcksFollow, CountsAck
<1>3. CASE RecvCredit \/ RecvCancelAtSender \/ IgnoreCtl(m) \/ (\E b \in Blocks : RecvRetry(b))
  BY <1>1, <1>3 DEF RecvCredit, RecvCancelAtSender, StopSending, IgnoreCtl, senderVars,
                    RecvRetry, StepShapes, promised
<1>4. QED
  BY <1>2, <1>3 DEF SenderHandles, StepShapes

LEMMA ReceiverHandlesShape ==
  ASSUME IInv, NEW m \in CtlMsgs, ReceiverHandles(m)
  PROVE  StepShapes
<1>1. UNCHANGED acked
  BY DEF ReceiverHandles, ByReceiver, senderVars
<1>2. CASE rxActive /\ StopReceiving
  BY <1>1, <1>2 DEF StopReceiving, IInv, ClosedOnce, StepShapes, AbortsWriter
<1>3. CASE UNCHANGED receiverVars
  BY <1>1, <1>3 DEF receiverVars, StepShapes, promised
<1>4. ASSUME NEW b \in Blocks, RecvBlockEnd(b)
      PROVE  StepShapes
  BY <1>1, <1>4 DEF RecvBlockEnd, HandleBlockEnd, StepShapes, promised
<1>5. QED
  BY <1>2, <1>3, <1>4 DEF ReceiverHandles, RecvCancelAtReceiver, IgnoreBlockEnd

LEMMA FrameArrivesShape ==
  ASSUME IInv, NEW f \in Frames, FrameArrives(f)
  PROVE  StepShapes
BY DEF FrameArrives, ByReceiver, senderVars, RecvChunk, RecvInBandEnd, HandleBlockEnd,
       IgnoreFrame, receiverVars, StepShapes, promised

LEMMA VerificationShape ==
  ASSUME IInv, NEW b \in Blocks,
         Verification(b) \/ (WriteFails(b) /\ ByReceiver) \/ StallFires(b)
  PROVE  StepShapes
<1>1. UNCHANGED acked
  BY DEF Verification, StallFires, ByReceiver, senderVars
<1>2. CASE WriteDone(b)
  <2>1. b \notin verified /\ output = NoOutput
    BY <1>2 DEF IInv, WritesMatch, ClosedOnce, WriteDone
  <2>2. QED
    BY <1>1, <1>2, <2>1 DEF WriteDone, StepShapes, StoresBlock
<1>3. CASE HashMatches(b) \/ HashDiffers(b) \/ WriteFails(b) \/ StallFires(b)
  BY <1>1, <1>3 DEF HashMatches, HashDiffers, WriteFails, StallFires, Stall,
                    StepShapes, promised
<1>4. QED
  BY <1>2, <1>3 DEF Verification

LEMMA FileDoneShape ==
  ASSUME IInv, FileDone \/ (FinalizeFails /\ ByReceiver) \/ ReceiverUser
  PROVE  StepShapes
<1>1. UNCHANGED acked
  BY DEF FileDone, ReceiverUser, ByReceiver, senderVars
<1>2. CASE FileDone
  <2>1. output = NoOutput /\ verified = Blocks
    BY <1>2 DEF FileDone, Finalize, IInv, ClosedOnce
  <2>2. ~rxCancelled => disk = Intact
    <3>1. ~rxCancelled => \A b \in Blocks : disk[b] = "good"
      BY <2>1 DEF IInv, WritesMatch
    <3>2. QED
      BY <3>1 DEF Intact, IInv, TypeOK, ReceiverTypeOK
  <2>3. QED
    BY <1>1, <1>2, <2>1, <2>2 DEF FileDone, Finalize, StepShapes, HandsOver
<1>3. CASE FinalizeFails
  BY <1>1, <1>3 DEF FinalizeFails, StepShapes, promised
<1>4. CASE ReceiverUser
  BY <1>1, <1>4 DEF ReceiverUser, CancelReceiving, StopReceiving, IInv, ClosedOnce,
                    StepShapes, AbortsWriter
<1>5. QED
  BY <1>2, <1>3, <1>4

LEMMA StepShape == IInv /\ [Next]_vars => StepShapes
<1> SUFFICES ASSUME IInv, [Next]_vars PROVE StepShapes
  OBVIOUS
<1>1. CASE UNCHANGED vars
  BY <1>1 DEF vars, senderVars, receiverVars, StepShapes, promised
<1>2. CASE ByRoutes
  BY <1>2 DEF ByRoutes, senderVars, receiverVars, StepShapes, promised
<1>3. CASE Next /\ ~ByRoutes
  BY <1>3, SenderShape, SenderHandlesShape, ReceiverHandlesShape, FrameArrivesShape,
     VerificationShape, FileDoneShape
  DEF Next, Faults
<1>4. QED
  BY <1>1, <1>2, <1>3

-----------------------------------------------------------------------------
(* Refinement.                                                             *)

LEMMA NothingIsNotAFile == \A S : \A d \in [Blocks -> S] : d # NoOutput
BY Zero DEF NoOutput

LEMMA RefinesInit == Init => Delivery!Init
BY DEF Init, SenderInit, ReceiverInit, Delivery!Init

LEMMA RefinesNext ==
  ASSUME IInv, StepShapes
  PROVE  [Delivery!Next]_(Delivery!deliveryVars)
<1> USE DEF Delivery!Next, Delivery!deliveryVars
<1>1. CASE UNCHANGED promised
  BY <1>1 DEF promised
<1>2. CASE CountsAck
  BY <1>2 DEF CountsAck, Delivery!Confirm, IInv, TypeOK, ReceiverTypeOK
<1>3. CASE StoresBlock
  BY <1>3 DEF StoresBlock, Delivery!Store
<1>4. CASE AbortsWriter
  BY <1>4 DEF AbortsWriter, Delivery!Abort, IInv, TypeOK, ReceiverTypeOK
<1>5. CASE HandsOver
  <2>1. disk # NoOutput
    BY NothingIsNotAFile DEF IInv, TypeOK, ReceiverTypeOK
  <2>2. CASE rxCancelled
    BY <1>5, <2>1, <2>2 DEF HandsOver, Delivery!DeliverAfterAbort
  <2>3. CASE ~rxCancelled
    BY <1>5, <2>1, <2>3 DEF HandsOver, Delivery!Deliver
  <2>4. QED
    BY <2>2, <2>3
<1>6. QED
  BY <1>1, <1>2, <1>3, <1>4, <1>5 DEF StepShapes

\* The two pipelines and the routes between them implement FileDelivery.
THEOREM TransferImplementsDelivery == Spec => ImplementsDelivery
<1>1. Init => Delivery!Init
  BY RefinesInit
<1>2. IInv /\ [Next]_vars => [Delivery!Next]_(Delivery!deliveryVars)
  BY StepShape, RefinesNext
<1>3. QED
  BY <1>1, <1>2, InvariantHolds, PTL DEF Spec, ImplementsDelivery, Delivery!Spec
=============================================================================
