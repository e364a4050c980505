---------------------------- MODULE BlockTransfer ----------------------------
(***************************************************************************)
(* One accepted file on its way: a sending pipeline, a receiving pipeline, *)
(* and the routes between them, with the timers of both ends.              *)
(***************************************************************************)
EXTENDS FileSender, FileReceiver

CONSTANTS
  MaxEarly,     \* bound: timeouts that fire although nothing is wrong
  AllowCancel   \* whether the users may cancel

ASSUME TransferAssumption == MaxEarly \in Nat /\ AllowCancel \in BOOLEAN

VARIABLE early  \* such timeouts so far (at most MaxEarly)

vars == <<senderVars, receiverVars, routeVars, faultVars, early>>

Init ==
  /\ SenderInit
  /\ ReceiverInit
  /\ RoutesInit
  /\ early = 0

TypeOK ==
  /\ SenderTypeOK
  /\ ReceiverTypeOK
  /\ RoutesTypeOK
  /\ early \in Nat

-----------------------------------------------------------------------------
\* A timeout is in order when nothing it waits for is on its way: the periods
\* (4.5 s to 7.5 s) are long against a round trip.  Otherwise it is early.
BlockIsQuiet(b) ==
  /\ NothingInFlight(b)
  /\ pump.at = "idle" \/ pump.block # b
  /\ verifying[b] = "idle"

\* The watchdog sets itself again after any activity of the sender.
SenderIsQuiet ==
  /\ pump.at = "idle"
  /\ ctl[CreditGrant] = 0
  /\ \A b \in Blocks : BlockIsQuiet(b)

Timeout(inOrder) ==
  \/ inOrder /\ UNCHANGED early
  \/ ~inOrder /\ early < MaxEarly /\ early' = early + 1

BySender   == UNCHANGED <<receiverVars, faultVars, early>>
ByReceiver == UNCHANGED <<senderVars, faultVars, early>>
ByRoutes   == UNCHANGED <<senderVars, receiverVars, early>>

PumpStep ==
  /\ Start \/ ChunkGate \/ SendChunk \/ SendBlockEnd \/ ArmWatchdog
  /\ BySender

SenderHandles(m) ==
  /\ \/ m = CreditGrant /\ RecvCredit
     \/ m = CancelAtSender /\ RecvCancelAtSender
     \/ \E b \in Blocks : m = BlockAck(b) /\ RecvAck(b)
     \/ \E b \in Blocks : m = BlockRetry(b) /\ RecvRetry(b)
     \/ m \notin {CancelAtReceiver} \cup {BlockEnd(b) : b \in Blocks} /\ IgnoreCtl(m)
  /\ BySender

WatchdogFires(b) ==
  /\ Watchdog(b)
  /\ Timeout(SenderIsQuiet)
  /\ UNCHANGED <<receiverVars, faultVars>>

SenderUser ==
  /\ Pause \/ (AllowCancel /\ CancelSending)
  /\ BySender

UserResumes == Resume /\ BySender

ReceiverHandles(m) ==
  /\ \/ m = CancelAtReceiver /\ RecvCancelAtReceiver
     \/ \E b \in Blocks : m = BlockEnd(b) /\ (RecvBlockEnd(b) \/ IgnoreBlockEnd(b))
  /\ ByReceiver

FrameArrives(f) ==
  /\ \/ f \in DataFrame /\ RecvChunk(f)
     \/ f \in EndFrame /\ RecvInBandEnd(f.block)
     \/ IgnoreFrame(f)
  /\ ByReceiver

Verification(b) ==
  /\ HashMatches(b) \/ HashDiffers(b) \/ WriteDone(b)
  /\ ByReceiver

StallFires(b) ==
  /\ Stall(b)
  /\ Timeout(BlockIsQuiet(b))
  /\ UNCHANGED <<senderVars, faultVars>>

FileDone == Finalize /\ ByReceiver

ReceiverUser == AllowCancel /\ CancelReceiving /\ ByReceiver

Faults ==
  \/ ReadFails /\ BySender
  \/ FinalizeFails /\ ByReceiver
  \/ \E b \in Blocks : WriteFails(b) /\ ByReceiver
  \/ \E f \in Frames : LoseFrame(f) /\ ByRoutes
  \/ \E m \in CtlMsgs : LoseCtl(m) /\ ByRoutes
  \/ \E f \in Frames, kind \in DamageKinds : DamageFrame(f, kind) /\ ByRoutes

Next ==
  \/ PumpStep
  \/ SenderUser
  \/ UserResumes
  \/ ReceiverUser
  \/ FileDone
  \/ Faults
  \/ \E m \in CtlMsgs : SenderHandles(m) \/ ReceiverHandles(m)
  \/ \E f \in Frames : FrameArrives(f)
  \/ \E b \in Blocks : WatchdogFires(b) \/ StallFires(b) \/ Verification(b)

Spec == Init /\ [][Next]_vars

\* The event loop of either tab runs every callback that is due; a message in
\* flight arrives unless it is lost; a user who paused resumes.
Fairness ==
  /\ WF_vars(PumpStep)
  /\ WF_vars(UserResumes)
  /\ WF_vars(FileDone)
  /\ \A m \in CtlMsgs : WF_vars(SenderHandles(m)) /\ WF_vars(ReceiverHandles(m))
  /\ \A f \in Frames : WF_vars(FrameArrives(f))
  /\ \A b \in Blocks : /\ WF_vars(WatchdogFires(b))
                       /\ WF_vars(StallFires(b))
                       /\ WF_vars(Verification(b))

FairSpec == Spec /\ Fairness

-----------------------------------------------------------------------------
(* What the protocol promises.                                             *)

Intact == [b \in Blocks |-> "good"]

\* The sender counts a block as acknowledged only after the receiver verified
\* it and, unless that end cancelled, holds its bytes on disk: whatever is
\* lost, overtaken or sent twice, an acknowledgement (handleBlockAck) never
\* runs ahead of writeBlock.
AckedIsStored ==
  \A b \in acked : b \in verified /\ (~rxCancelled => disk[b] = "good")

\* The file that onFileComplete hands over holds every block with the bytes
\* the sender cut, unless the transfer was cancelled at the receiving end.
DeliveredIntact ==
  output # NoOutput /\ ~rxCancelled => output = Intact

\* The file that is handed over is never incomplete or damaged, cancelled or
\* not: `Every transferred block is verified against its SHA-256 digest before
\* being committed, guaranteeing zero file corruption' (README.md:24).
NeverCorrupt == output # NoOutput => output = Intact

\* When the sender reports the file as sent, the receiver has the whole of it
\* verified: onFileCompleted is not reached with a block still missing.
CompletedIsWhole == completed => verified = Blocks

\* writeBlock is called once for each block, never after the writer was told to
\* finalize, and onFileComplete once for the file, however many late copies of
\* chunks, ends and retries arrive at whatever stage of a verification.
WrittenOnce ==
  [][ /\ \A b \in Blocks : WriteDone(b) => b \notin verified /\ final = "open"
      /\ Finalize => output = NoOutput ]_vars

\* Blocks taken from the queue and not yet verified.
Outstanding == {b \in Blocks \ verified : ~Contains(pending, b)}

\* At most InitialCredits blocks are outstanding: the receiver grants a window
\* and the sender stops taking blocks when it is used up (protocol.md:86-88).
WindowRespected == started => Cardinality(Outstanding) <= InitialCredits

\* Who will bring up block b again: the sender's queue, pump or watchdog...
DrivenBySender(b) ==
  \/ Contains(pending, b)
  \/ pump.at # "idle" /\ pump.block = b
  \/ b \in timers

\* ...or the receiver's verification or stall timer, or a message about it.
DrivenByReceiver(b) ==
  \/ b \in stalls
  \/ verifying[b] # "idle"
  \/ data[InBandEnd(b)] > 0
  \/ \E m \in BlockMsgs : m.block = b /\ ctl[m] > 0

\* A block whose acknowledgement has not arrived is never forgotten by both
\* ends at once: at least one timer, queue entry or message still leads to its
\* being sent or acknowledged again.  The watchdog that a pause switches off
\* (sender/index.ts:280-287) is what puts this in doubt; a lost control message
\* is what may end it, and a receiver that gives the file up.
BlocksNotForgotten ==
  txActive /\ started /\ ctlLost = 0 /\ (rxActive \/ verified = Blocks) =>
    \A b \in Blocks \ acked : DrivenBySender(b) \/ DrivenByReceiver(b)

\* tryVerifyBlock never calls itself for ever (receiver/index.ts:211-221),
\* which would freeze the tab, before the receiver gives the file up: late and
\* duplicate chunks of a block that the worker has taken away are counted
\* twice, but never past the length it needs.
ReceiverNeverSpins == rxActive \/ verified = Blocks => ~rxHung

\* Once the sender started, it learns that the whole file arrived.
SenderCompletes == started ~> completed

\* The same while no control message is lost.
SenderLearns == started ~> (completed \/ ctlLost > 0)

\* Once the sender started, the receiving user gets the file.
ReceiverDelivers == started ~> output # NoOutput

-----------------------------------------------------------------------------
\* The transfer implements FileDelivery.
Delivery == INSTANCE FileDelivery WITH
  Parts <- Blocks,
  stored <- verified,
  confirmed <- acked,
  file <- IF output = NoOutput THEN "none" ELSE IF output = Intact THEN "whole" ELSE "partial",
  aborted <- rxCancelled

\* Every step of the pipelines is a step FileDelivery allows, or changes
\* nothing it can see.
ImplementsDelivery == Delivery!Spec
-----------------------------------------------------------------------------
(* The inductive invariant behind AckedIsStored and DeliveredIntact.       *)

\* An acknowledgement on its way names a verified block, and so does one that
\* arrived; completion needs all of them.
AcksFollow ==
  /\ \A b \in Blocks : ctl[BlockAck(b)] > 0 => b \in verified
  /\ acked \subseteq verified
  /\ completed => acked = Blocks

\* Only bytes that matched their hash reach the writer, a verified block is no
\* longer under verification, and it stays on disk unless the writer is aborted.
WritesMatch ==
  /\ \A b \in Blocks : verifying[b] = "write" => snapshot[b] = "good"
  /\ \A b \in verified : verifying[b] = "idle"
  /\ ~rxCancelled => \A b \in verified : disk[b] = "good"

\* The file is closed once, with every block, and the pipeline forgotten.
ClosedOnce ==
  /\ final # "open" => verified = Blocks
  /\ output # NoOutput => final = "closed"
  /\ final = "closed" => ~rxActive
  /\ DeliveredIntact

IInv == TypeOK /\ AcksFollow /\ WritesMatch /\ ClosedOnce
=============================================================================
