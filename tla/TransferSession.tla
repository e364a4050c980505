-------------------------- MODULE TransferSession --------------------------
(***************************************************************************)
(* A session of two devices: one gives batches of files to sendFiles, the  *)
(* other one's user accepts or declines them, and the files go over one    *)
(* after another (services/network.ts). The pipelines of BlockTransfer     *)
(* appear as files that stream, finish, or fail.                           *)
(***************************************************************************)
EXTENDS SendSession, ReceiveSession

vars == <<sendVars, receiveVars, routeVars>>

SessionTypeOK ==
  /\ RoutesTypeOK
  /\ SendTypeOK
  /\ ReceiveTypeOK

Init ==
  /\ RoutesInit
  /\ SendInit
  /\ ReceiveInit

Sending(f) ==
  \/ SendFile(f)
  \/ RepeatRequest(f)
  \/ HandleAccept(f)
  \/ HandleDecline(f)
  \/ StartOpened(f)
  \/ SendFrame(f)
  \/ StreamStops(f)
  \/ FinishSending(f)
  \/ ReadFails(f)
  \/ UserCancelsSend(f)
  \/ HandleCancelAtSender(f)

Receiving(f) ==
  \/ HandleRequest(f)
  \/ HandleFrame(f)
  \/ VerificationEnds(f)
  \/ FinishReceiving(f)
  \/ VerifyFails(f)
  \/ UserCancelsReceive(f)
  \/ HandleCancelAtReceiver(f)

Next ==
  \/ \E f \in Files : Sending(f) /\ UNCHANGED receiveVars
  \/ \E b \in Batches : SendManifest(b) /\ UNCHANGED receiveVars
  \/ \E f \in Files : Receiving(f) /\ UNCHANGED sendVars
  \/ \E b \in Batches : HandlePrepare(b) /\ UNCHANGED sendVars
  \/ \E job \in jobs : Register(job) /\ UNCHANGED sendVars
  \/ \E job \in jobs : Refuse(job) /\ UNCHANGED sendVars
  \/ AcceptRequest /\ UNCHANGED sendVars
  \/ DeclineRequest /\ UNCHANGED sendVars
  \/ AutoAcceptEnds /\ UNCHANGED sendVars
  \/ \E m \in ctl : LoseCtl(m) /\ UNCHANGED <<sendVars, receiveVars>>

Spec == Init /\ [][Next]_vars

\* Callbacks and timers that are due run, messages that are not lost arrive,
\* and a user who is asked answers. A pipeline goes on sending until the file
\* is complete (BlockTransfer's ReceiverDelivers), so that one of the frames
\* that keep coming completes it. Nobody has to cancel, and nothing has to fail.
Fairness ==
  /\ \A f \in Files :
       /\ WF_vars((SendFile(f) \/ RepeatRequest(f)) /\ UNCHANGED receiveVars)
       /\ WF_vars(HandleAccept(f) /\ UNCHANGED receiveVars)
       /\ WF_vars(HandleDecline(f) /\ UNCHANGED receiveVars)
       /\ WF_vars(FinishSending(f) /\ UNCHANGED receiveVars)
       /\ WF_vars((StartOpened(f) \/ StreamStops(f)) /\ UNCHANGED receiveVars)
       /\ WF_vars(SendFrame(f) /\ UNCHANGED receiveVars)
       /\ WF_vars(HandleRequest(f) /\ UNCHANGED sendVars)
       /\ WF_vars(HandleFrame(f) /\ UNCHANGED sendVars)
       /\ SF_vars((FinishReceiving(f) \/ VerifyFails(f)) /\ UNCHANGED sendVars)
  /\ \A b \in Batches :
       /\ WF_vars(SendManifest(b) /\ UNCHANGED receiveVars)
       /\ WF_vars(HandlePrepare(b) /\ UNCHANGED sendVars)
  /\ WF_vars((\E job \in jobs : Register(job) \/ Refuse(job)) /\ UNCHANGED sendVars)
  /\ WF_vars((AcceptRequest \/ DeclineRequest) /\ UNCHANGED sendVars)

FairSpec == Spec /\ Fairness

-----------------------------------------------------------------------------
\* The files to one peer go over one after another, `sequentially 1-by-1 ...
\* with zero contention' (network.ts:1485-1486): of the pipelines that were not
\* stopped, at most one sends, as long as nobody cancels, every file can be read
\* (Undisturbed below), and no prompt is answered twice (see AnsweredOnce).
OneAtATime == ~revived => Cardinality(streaming \ stopped) <= 1

\* The queue never stands still: whatever finished, failed, was declined or
\* cancelled last, and in whatever order the acceptances came, a file that
\* waits has one before it that the service knows and that sends, or is about
\* to (network.ts:1510-1554).
NoIdleSlot ==
  sendQueue # <<>> => running # {} /\ running \subseteq senders \cap (opening \cup streaming)

\* Nothing is sent before the other side has registered a receiver for it, so
\* that no block of a file that was never accepted leaves the device; a file
\* that was declined is never sent, unless it could be accepted as well (see
\* AnsweredOnce).
StreamOnlyAccepted ==
  \A f \in streaming \cup opening :
    rStatus[f] # "none" /\ (sStatus[f] = "declined" => revived)

\* Each file is answered by one loop, once: with a request, its repetitions and
\* the manifest on their way, in any order, and verifications that go on behind
\* an error or a cancel, there are never two writers and two receivers for one
\* file (network.ts:1609, 1650). The exception is real: a receiver that was
\* forgotten reports progress (2131) while a prompt is open, the peer counts as
\* one that sends (327-332), and the next manifest has the prompt's first file
\* answered (1629) while the user still can.
InJob(job, f) == \E i \in DOMAIN job : job[i].file = f

OneLoopEach ==
  /\ \A f \in Files, j, k \in jobs : InJob(j, f) /\ InJob(k, f) => j = k
  /\ \A j \in jobs : \A i, k \in DOMAIN j : j[i].file = j[k].file => i = k
  /\ \A f \in Files, j \in jobs : InJob(j, f) => rStatus[f] = "none"

AnsweredOnce == ~revived => OneLoopEach

\* Without the user's word nothing is received: until the first prompt is
\* accepted no request is answered by itself (network.ts:325-338).
NothingUnasked ==
  autoAccept \/ jobs # {} \/ (\E f \in Files : rStatus[f] # "none") => approved # {}

\* A file that is through, failed or was declined stays so (network.ts:1708-1715,
\* 1905-1925): nothing that is still under way brings it back, as long as no
\* prompt is answered twice (see AnsweredOnce).
SettledStays ==
  [][~revived => \A f \in Files : sStatus[f] \in Settled => sStatus'[f] = sStatus[f]]_vars

\* Every file that is given to sendFiles is in the end sent or declined.
EveryFileSettles == \A f \in Files : <>(sStatus[f] \in Settled)
-----------------------------------------------------------------------------
\* What makes these inductive. A file waits, opens or sends only after it was
\* accepted, in one of the three ways; the file that has the slot is known to
\* the service and was not stopped, and a cancelled sender is not known.
Waiting == {sendQueue[i] : i \in DOMAIN sendQueue}

SlotInv ==
  /\ \A i, j \in DOMAIN sendQueue : sendQueue[i] = sendQueue[j] => i = j
  /\ Waiting \cap (running \cup opening \cup streaming) = {}
  /\ Waiting \cup running \cup opening \cup streaming \subseteq accepted
  /\ opening \cap streaming = {}
  /\ \A f, g \in running : f = g
  /\ running \subseteq senders \cap (opening \cup streaming)
  /\ sendQueue # <<>> => running # {}
  /\ stopped \cap senders = {}
  /\ \A f \in Files : sStatus[f] = "none" => f \notin senders \cup stopped \cup timers
  /\ \A f \in Files : f \in timers \/ sStatus[f] = "none" => attempts[f] <= MaxAttempts

\* A file is asked for once, and is then in a prompt or a loop; it is received
\* only behind the user's word.
Prompted  == {prompts[i] : i \in DOMAIN prompts}
Answering == {f \in Files : \E job \in jobs : InJob(job, f)}

PromptInv ==
  /\ \A i, j \in DOMAIN prompts : prompts[i] = prompts[j] => i = j
  /\ <<>> \notin jobs
  /\ Prompted \cup Answering \subseteq asked
  /\ \A f \in Files : rStatus[f] # "none" => f \in asked
  /\ \A f \in receivers : rStatus[f] \in {"queued", "transferring"}
  /\ jobs # {} => autoAccept
  /\ NothingUnasked

\* Until a forgotten receiver goes on while a prompt is open: a file is in one
\* prompt or in one loop, and leaves it to be received or declined. There is no
\* prompt while files are accepted by themselves.
TurnInv ==
  ~revived =>
    /\ OneLoopEach
    /\ \A f \in Prompted \cup Answering : rStatus[f] = "none"
    /\ prompts # <<>> => ~autoAccept /\ ~HasActive

\* What is in flight agrees with both ends: only a file that was registered is
\* accepted, one that was declined never is, and the last acknowledgement
\* follows a verification, which follows a frame, which follows the start.
MessageInv ==
  /\ \A f \in Files :
       Msg("accept-transfer", f) \in ctl \/ f \in accepted => rStatus[f] # "none"
  /\ \A f \in Files :
       Msg("decline-transfer", f) \in ctl \/ sStatus[f] = "declined"
         => /\ f \in asked
            /\ ~revived => rStatus[f] = "none" /\ f \notin Prompted \cup Answering
  /\ \A f \in Files :
       f \in frames \cup early \cup verifying \/ Msg("last-ack", f) \in ctl
         => f \in accepted \ (Waiting \cup opening)

\* While nobody cancels and every file can be read, what opens or sends has the
\* slot, and what is settled is no longer known.
Undisturbed == Faults \cap {"read", "cancel"} = {}

UndisturbedInv ==
  Undisturbed /\ ~revived =>
    /\ opening \cup streaming \subseteq running
    /\ \A m \in ctl : m.type \notin {"cancel-at-sender", "cancel-at-receiver"}
    /\ \A f \in senders : sStatus[f] \notin Settled
    /\ \A f \in Files : sStatus[f] \in Settled => sStatus[f] = "declined" \/ f \in accepted

SessionInv ==
  /\ SessionTypeOK
  /\ SlotInv
  /\ PromptInv
  /\ TurnInv
  /\ MessageInv
  /\ UndisturbedInv
=============================================================================
