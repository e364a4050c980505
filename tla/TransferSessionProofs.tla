----------------------- MODULE TransferSessionProofs -----------------------
(***************************************************************************)
(* What a session keeps for any number of files, batches, repetitions and  *)
(* lost messages: the inductive invariant SessionInv and what follows.     *)
(***************************************************************************)
EXTENDS TransferSession, FiniteSetTheorems, SequenceTheorems, TLAPS

\* Messages differ when their types or files do.
LEMMA MsgFacts ==
  ASSUME NEW t \in FileMsgs, NEW f \in Files
  PROVE  /\ Msg(t, f) \in Msgs
         /\ Msg(t, f).type = t
         /\ \A u \in FileMsgs, g \in Files : Msg(t, f) = Msg(u, g) => t = u /\ f = g
         /\ \A b \in Batches : Msg(t, f) # PrepareUpload(b)
  BY DEF Msgs, Msg, PrepareUpload, FileMsgs

LEMMA PrepareFacts ==
  ASSUME NEW b \in Batches
  PROVE  PrepareUpload(b) \in Msgs /\ PrepareUpload(b).type = "prepare-upload"
  BY DEF Msgs, PrepareUpload

-----------------------------------------------------------------------------
(* The queue of accepted files. *)

Elems(q) == {q[i] : i \in DOMAIN q}
NoRepeats(q) == \A i, j \in DOMAIN q : q[i] = q[j] => i = j

\* What pumpAcceptedSenders does: it starts no file, or one from the queue when
\* none is running; afterwards nothing waits without a file that runs.
PumpEffect(started, queue, busy, known, status, sending, halted) ==
  /\ started \subseteq known \cap Elems(queue)
  /\ \A f, g \in started : f = g
  /\ started # {} => busy = {}
  /\ sendQueue' \in Seq(Files)
  /\ NoRepeats(sendQueue')
  /\ Elems(sendQueue') \subseteq Elems(queue) \ started
  /\ sendQueue' # <<>> => running' # {}
  /\ running' = busy \cup started
  /\ streaming' \cup opening' = sending \cup opening \cup started
  /\ sending \subseteq streaming' /\ streaming' \subseteq sending \cup started
  /\ opening \subseteq opening' /\ opening' \subseteq opening \cup started
  /\ started \cap streaming' \cap opening' \subseteq sending \cup opening
  /\ stopped' \subseteq halted
  /\ sStatus' \in [Files -> {"none", "waiting", "queued", "transferring"} \cup Settled]
  /\ \A f \in Files : sStatus'[f] = IF f \in started THEN "transferring" ELSE status[f]

LEMMA PumpDoes ==
  ASSUME NEW queue \in Seq(Files), NEW busy \in SUBSET Files, NEW known \in SUBSET Files,
         NEW status \in [Files -> {"none", "waiting", "queued", "transferring"} \cup Settled],
         NEW sending, NEW halted,
         NoRepeats(queue),
         PumpAccepted(queue, busy, known, status, sending, halted)
  PROVE  \E started \in SUBSET Files :
           PumpEffect(started, queue, busy, known, status, sending, halted)
<1>1. CASE /\ busy # {} \/ \A i \in DOMAIN queue : queue[i] \notin known
           /\ sendQueue' = IF busy = {} THEN <<>> ELSE queue
           /\ running' = busy
           /\ sStatus' = status
           /\ streaming' = sending
           /\ stopped' = halted
           /\ UNCHANGED opening
  <2>1. NoRepeats(sendQueue') /\ Elems(sendQueue') \subseteq Elems(queue)
    BY <1>1 DEF NoRepeats, Elems
  <2>2. sendQueue' \in Seq(Files)
    BY <1>1
  <2>3. PumpEffect({}, queue, busy, known, status, sending, halted)
    BY <1>1, <2>1, <2>2 DEF PumpEffect
  <2> QED BY <2>3
<1>2. ASSUME busy = {},
             NEW i \in DOMAIN queue,
             queue[i] \in known,
             sendQueue' = SubSeq(queue, i + 1, Len(queue)),
             running' = busy \cup {queue[i]},
             sStatus' = [status EXCEPT ![queue[i]] = "transferring"],
             Start(queue[i], sending, halted)
      PROVE  PumpEffect({queue[i]}, queue, busy, known, status, sending, halted)
  <2>1. i \in 1 .. Len(queue) /\ queue[i] \in Files
    BY <1>2
  <2>2. sendQueue' \in Seq(Files) /\ NoRepeats(sendQueue')
    <3>1. /\ sendQueue' \in Seq(Files)
          /\ DOMAIN sendQueue' = 1 .. (Len(queue) - i)
          /\ \A k \in DOMAIN sendQueue' : sendQueue'[k] = queue[k + i]
      BY <1>2, <2>1
    <3>2. \A k \in DOMAIN sendQueue' : k + i \in DOMAIN queue
      BY <2>1, <3>1
    <3> QED BY <2>1, <3>1, <3>2 DEF NoRepeats
  <2>3. Elems(sendQueue') \subseteq Elems(queue) \ {queue[i]}
    <3>1. /\ DOMAIN sendQueue' = 1 .. (Len(queue) - i)
          /\ \A k \in DOMAIN sendQueue' : sendQueue'[k] = queue[k + i]
      BY <1>2, <2>1
    <3>2. ASSUME NEW k \in DOMAIN sendQueue'
          PROVE  k + i \in DOMAIN queue /\ k + i # i
      BY <2>1, <3>1
    <3> QED BY <3>1, <3>2 DEF Elems, NoRepeats
  <2>4. queue[i] \in Elems(queue)
    BY DEF Elems
  <2>5. sStatus' \in [Files -> {"none", "waiting", "queued", "transferring"} \cup Settled]
    BY <1>2
  <2>6. \A f \in Files : sStatus'[f] = IF f \in {queue[i]} THEN "transferring" ELSE status[f]
    BY <1>2, <2>1
  <2>7. /\ streaming' \cup opening' = sending \cup opening \cup {queue[i]}
        /\ sending \subseteq streaming' /\ streaming' \subseteq sending \cup {queue[i]}
        /\ opening \subseteq opening' /\ opening' \subseteq opening \cup {queue[i]}
        /\ {queue[i]} \cap streaming' \cap opening' \subseteq sending \cup opening
        /\ stopped' \subseteq halted
    BY <1>2 DEF Start
  <2> QED BY <1>2, <2>2, <2>3, <2>4, <2>5, <2>6, <2>7 DEF PumpEffect
<1>3. \/ /\ busy # {} \/ \A i \in DOMAIN queue : queue[i] \notin known
         /\ sendQueue' = IF busy = {} THEN <<>> ELSE queue
         /\ running' = busy
         /\ sStatus' = status
         /\ streaming' = sending
         /\ stopped' = halted
         /\ UNCHANGED opening
      \/ \E i \in DOMAIN queue :
           /\ busy = {}
           /\ queue[i] \in known
           /\ sendQueue' = SubSeq(queue, i + 1, Len(queue))
           /\ running' = busy \cup {queue[i]}
           /\ sStatus' = [status EXCEPT ![queue[i]] = "transferring"]
           /\ Start(queue[i], sending, halted)
  BY Zenon DEF PumpAccepted, PumpIf
<1> QED
  <2>1. CASE \E i \in DOMAIN queue :
           /\ busy = {}
           /\ queue[i] \in known
           /\ sendQueue' = SubSeq(queue, i + 1, Len(queue))
           /\ running' = busy \cup {queue[i]}
           /\ sStatus' = [status EXCEPT ![queue[i]] = "transferring"]
           /\ Start(queue[i], sending, halted)
    <3>1. PICK i \in DOMAIN queue :
           /\ busy = {}
           /\ queue[i] \in known
           /\ sendQueue' = SubSeq(queue, i + 1, Len(queue))
           /\ running' = busy \cup {queue[i]}
           /\ sStatus' = [status EXCEPT ![queue[i]] = "transferring"]
           /\ Start(queue[i], sending, halted)
      BY <2>1
    <3>2. PumpEffect({queue[i]}, queue, busy, known, status, sending, halted)
      BY <1>2, <3>1
    <3>3. {queue[i]} \in SUBSET Files
      OBVIOUS
    <3> QED BY <3>2, <3>3
  <2> QED BY <1>1, <1>3, <2>1

\* PumpDoes at the calls of pumpAcceptedSenders: behind an acceptance, behind
\* the end of a file, and behind a cancel.
Statuses == {"none", "waiting", "queued", "transferring"} \cup Settled

LEMMA AcceptDoes ==
  ASSUME SendTypeOK, SlotInv, NEW f \in Files, f \notin accepted, EnqueueAccepted(f)
  PROVE  \E started \in SUBSET Files, status \in [Files -> Statuses] :
           /\ PumpEffect(started, Append(sendQueue, f), running, senders, status, streaming, stopped)
           /\ \A g \in Files \ {f} : status[g] = sStatus[g]
           /\ status[f] \in {"queued", sStatus[f]}
           /\ Elems(Append(sendQueue, f)) = Waiting \cup {f}
<1> DEFINE queue == Append(sendQueue, f)
           status == IF running # {} THEN [sStatus EXCEPT ![f] = "queued"] ELSE sStatus
<1>1. /\ queue \in Seq(Files)
      /\ DOMAIN queue = 1 .. Len(sendQueue) + 1
      /\ \A i \in DOMAIN sendQueue : queue[i] = sendQueue[i]
      /\ queue[Len(sendQueue) + 1] = f
      /\ DOMAIN sendQueue = 1 .. Len(sendQueue)
      /\ Len(sendQueue) \in Nat
  BY DEF SendTypeOK
<1>2. Elems(queue) = Waiting \cup {f}
  <2>1. ASSUME NEW i \in DOMAIN queue PROVE i \in DOMAIN sendQueue \/ i = Len(sendQueue) + 1
    BY <1>1
  <2>2. DOMAIN sendQueue \subseteq DOMAIN queue /\ Len(sendQueue) + 1 \in DOMAIN queue
    BY <1>1
  <2> HIDE DEF queue
  <2> QED BY <1>1, <2>1, <2>2 DEF Elems, Waiting
<1>3. NoRepeats(queue)
  <2>1. f \notin Waiting
    BY DEF SlotInv
  <2>2. ASSUME NEW i \in DOMAIN queue PROVE i \in DOMAIN sendQueue \/ i = Len(sendQueue) + 1
    BY <1>1
  <2>3. \A i \in DOMAIN sendQueue : sendQueue[i] # f
    BY <2>1 DEF Waiting
  <2> HIDE DEF queue
  <2> QED BY <1>1, <2>2, <2>3 DEF NoRepeats, SlotInv
<1>4. status \in [Files -> Statuses]
  BY DEF SendTypeOK, Statuses
<1>5. PumpAccepted(queue, running, senders, status, streaming, stopped)
  BY DEF EnqueueAccepted
<1>6. \E started \in SUBSET Files :
         PumpEffect(started, queue, running, senders, status, streaming, stopped)
  <2> HIDE DEF queue, status
  <2> QED BY <1>1, <1>3, <1>4, <1>5, PumpDoes DEF SendTypeOK, Statuses
<1>7. /\ \A g \in Files \ {f} : status[g] = sStatus[g]
      /\ status[f] \in {"queued", sStatus[f]}
  BY DEF SendTypeOK
<1> HIDE DEF status, queue
<1>8. PICK started \in SUBSET Files :
         PumpEffect(started, queue, running, senders, status, streaming, stopped)
  BY <1>6
<1> QED BY <1>2, <1>4, <1>7, <1>8 DEF queue

LEMMA FinishedDoes ==
  ASSUME SendTypeOK, SlotInv, NEW f \in Files, NEW st \in Settled, NEW sending,
         Finished(f, st, sending)
  PROVE  \E started \in SUBSET Files :
           PumpEffect(started, sendQueue, running \ {f}, senders \ {f},
                      [sStatus EXCEPT ![f] = st], sending, stopped)
<1>1. sendQueue \in Seq(Files) /\ NoRepeats(sendQueue)
  BY DEF SendTypeOK, SlotInv, NoRepeats
<1>2. running \ {f} \in SUBSET Files /\ senders \ {f} \in SUBSET Files
  BY DEF SendTypeOK
<1>3. [sStatus EXCEPT ![f] = st]
        \in [Files -> {"none", "waiting", "queued", "transferring"} \cup Settled]
  BY DEF SendTypeOK
<1>4. PumpAccepted(sendQueue, running \ {f}, senders \ {f}, [sStatus EXCEPT ![f] = st],
                   sending, stopped)
  BY DEF Finished
<1> QED BY <1>1, <1>2, <1>3, <1>4, PumpDoes

LEMMA CancelDoes ==
  ASSUME SendTypeOK, SlotInv, NEW f \in Files, CancelSend(f)
  PROVE  \E started \in SUBSET Files :
           PumpEffect(started, sendQueue, running \ {f}, senders,
                      [sStatus EXCEPT ![f] = "cancelled"], streaming,
                      IF f \in senders THEN stopped \cup {f} ELSE stopped)
<1>1. sendQueue \in Seq(Files) /\ NoRepeats(sendQueue)
  BY DEF SendTypeOK, SlotInv, NoRepeats
<1>2. running \ {f} \in SUBSET Files /\ senders \in SUBSET Files
  BY DEF SendTypeOK
<1>3. [sStatus EXCEPT ![f] = "cancelled"]
        \in [Files -> {"none", "waiting", "queued", "transferring"} \cup Settled]
  BY DEF SendTypeOK, Settled
<1>4. PumpAccepted(sendQueue, running \ {f}, senders, [sStatus EXCEPT ![f] = "cancelled"],
                   streaming, IF f \in senders THEN stopped \cup {f} ELSE stopped)
  BY DEF CancelSend
<1> QED BY <1>1, <1>2, <1>3, <1>4, PumpDoes

-----------------------------------------------------------------------------
(* The sending side. *)

\* What a call of pumpAcceptedSenders leaves behind, when what it was given was
\* in order.
LEMMA SlotAfterPump ==
  ASSUME SendTypeOK, SlotInv,
         NEW queue, NEW busy \in SUBSET Files, NEW known \in SUBSET Files,
         NEW status \in [Files -> Statuses], NEW sending \in SUBSET Files,
         NEW halted \in SUBSET Files, NEW started \in SUBSET Files,
         PumpEffect(started, queue, busy, known, status, sending, halted),
         Elems(queue) \cap (busy \cup opening \cup sending) = {},
         Elems(queue) \cup busy \cup opening \cup sending \subseteq accepted',
         opening \cap sending = {},
         \A f, g \in busy : f = g,
         busy \subseteq senders' \cap (opening \cup sending),
         busy = {} => known \cap Elems(queue) \subseteq senders',
         halted \cap senders' = {},
         \A f \in Files : status[f] = "none" => f \notin senders' \cup halted \cup timers',
         \A f \in Files : f \in timers' \/ status[f] = "none" => attempts'[f] <= MaxAttempts,
         senders' \subseteq Files, timers' \subseteq Files, prepared' \subseteq Batches,
         accepted' \subseteq Files,
         attempts' \in [Files -> 0 .. MaxAttempts + 1]
  PROVE  SendTypeOK' /\ SlotInv'
<1> USE DEF PumpEffect
<1>1. SendTypeOK'
  <2>1. /\ running' \subseteq Files /\ stopped' \subseteq Files
        /\ opening' \subseteq Files /\ streaming' \subseteq Files
    BY DEF SendTypeOK
  <2> QED BY <2>1 DEF SendTypeOK
<1>2. Waiting' = Elems(sendQueue')
  BY DEF Waiting, Elems
<1>3. \A i, j \in DOMAIN sendQueue' : sendQueue'[i] = sendQueue'[j] => i = j
  BY DEF NoRepeats
<1>4. Waiting' \cap (running' \cup opening' \cup streaming') = {}
  BY <1>2
<1>5. Waiting' \cup running' \cup opening' \cup streaming' \subseteq accepted'
  BY <1>2
<1>6. opening' \cap streaming' = {}
  OBVIOUS
<1>7. /\ \A f, g \in running' : f = g
      /\ running' \subseteq senders' \cap (opening' \cup streaming')
      /\ stopped' \cap senders' = {}
  OBVIOUS
<1>8. \A f \in Files : sStatus'[f] = "none" => f \notin senders' \cup stopped' \cup timers'
  OBVIOUS
<1>9. \A f \in Files : f \in timers' \/ sStatus'[f] = "none" => attempts'[f] <= MaxAttempts
  OBVIOUS
<1> QED BY <1>1, <1>3, <1>4, <1>5, <1>6, <1>7, <1>8, <1>9 DEF SlotInv

LEMMA SendingKeepsSlot ==
  ASSUME SendTypeOK, SlotInv, NEW f \in Files, Sending(f)
  PROVE  SendTypeOK' /\ SlotInv'
<1>1. CASE SendFile(f)
  <2>1. SendTypeOK'
    BY <1>1 DEF SendFile, SendTypeOK
  <2>2. \A g \in Files : sStatus'[g] = "none" => sStatus[g] = "none" /\ g # f
    BY <1>1 DEF SendFile, SendTypeOK
  <2>3. f \notin stopped /\ attempts[f] <= MaxAttempts
    BY <1>1 DEF SendFile, SlotInv
  <2>4. SlotInv'
    BY <1>1, <2>2, <2>3 DEF SendFile, SlotInv, Waiting
  <2> QED BY <2>1, <2>4
<1>2. CASE RepeatRequest(f)
  <2>1. attempts' \in [Files -> 0 .. MaxAttempts + 1]
    <3>1. attempts[f] \in 0 .. MaxAttempts + 1 /\ attempts[f] <= MaxAttempts
      BY <1>2 DEF RepeatRequest, SlotInv, SendTypeOK
    <3>2. attempts[f] + 1 \in 0 .. MaxAttempts + 1
      BY <3>1, AttemptsAssumption
    <3>3. attempts' = [attempts EXCEPT ![f] = attempts[f] + 1]
      BY <1>2 DEF RepeatRequest
    <3> QED BY <3>2, <3>3 DEF SendTypeOK
  <2>2. SendTypeOK'
    BY <1>2, <2>1 DEF RepeatRequest, SendTypeOK
  <2>3. \A g \in Files : g \in timers' \/ sStatus'[g] = "none" => attempts'[g] <= MaxAttempts
    <3>1. ASSUME NEW g \in Files, g \in timers' \/ sStatus'[g] = "none"
          PROVE  attempts'[g] <= MaxAttempts
      <4>1. CASE g # f
        BY <1>2, <3>1, <4>1 DEF RepeatRequest, SlotInv, SendTypeOK
      <4>2. CASE g = f /\ f \in timers'
        <5>1. attempts[f] < MaxAttempts /\ attempts[f] \in Nat
          BY <1>2, <4>2 DEF RepeatRequest, SendTypeOK
        <5>2. attempts'[f] = attempts[f] + 1
          BY <1>2 DEF RepeatRequest, SendTypeOK
        <5> QED BY <4>2, <5>1, <5>2, AttemptsAssumption
      <4>3. CASE g = f /\ f \notin timers'
        BY <1>2, <3>1, <4>3 DEF RepeatRequest, SlotInv
      <4> QED BY <4>1, <4>2, <4>3
    <3> QED BY <3>1
  <2>4. SlotInv'
    BY <1>2, <2>3 DEF RepeatRequest, SlotInv, SendTypeOK, Waiting
  <2> QED BY <2>2, <2>4
<1>3. CASE HandleAccept(f)
  <2>1. CASE f \notin accepted /\ f \in senders /\ EnqueueAccepted(f)
    <3>1. PICK started \in SUBSET Files, status \in [Files -> Statuses] :
           /\ PumpEffect(started, Append(sendQueue, f), running, senders, status, streaming, stopped)
           /\ \A g \in Files \ {f} : status[g] = sStatus[g]
           /\ status[f] \in {"queued", sStatus[f]}
           /\ Elems(Append(sendQueue, f)) = Waiting \cup {f}
      BY <2>1, AcceptDoes
    <3>2. /\ senders' = senders /\ timers' = timers \ {f} /\ prepared' = prepared
          /\ accepted' = accepted \cup {f} /\ attempts' = attempts
      BY <1>3 DEF HandleAccept
    <3>3. Waiting \subseteq Files
      BY DEF SendTypeOK, SlotInv
    <3>4. \A g \in Files : status[g] = "none" => sStatus[g] = "none"
      BY <3>1
    <3> DEFINE queue == Append(sendQueue, f)
    <3>5. Elems(queue) = Waiting \cup {f}
      BY <3>1
    <3>6. PumpEffect(started, queue, running, senders, status, streaming, stopped)
      BY <3>1
    <3> HIDE DEF queue
    <3>7. /\ Elems(queue) \cap (running \cup opening \cup streaming) = {}
          /\ Elems(queue) \cup running \cup opening \cup streaming \subseteq accepted'
          /\ opening \cap streaming = {}
          /\ \A g, h \in running : g = h
          /\ running \subseteq senders' \cap (opening \cup streaming)
          /\ running = {} => senders \cap Elems(queue) \subseteq senders'
          /\ stopped \cap senders' = {}
      BY <2>1, <3>2, <3>5 DEF SlotInv
    <3>8. /\ \A g \in Files : status[g] = "none" => g \notin senders' \cup stopped \cup timers'
          /\ \A g \in Files : g \in timers' \/ status[g] = "none" => attempts'[g] <= MaxAttempts
      BY <3>2, <3>4 DEF SlotInv
    <3>9. /\ senders' \subseteq Files /\ timers' \subseteq Files /\ prepared' \subseteq Batches
          /\ accepted' \subseteq Files /\ attempts' \in [Files -> 0 .. MaxAttempts + 1]
          /\ running \in SUBSET Files /\ senders \in SUBSET Files
          /\ streaming \in SUBSET Files /\ stopped \in SUBSET Files
      BY <3>2 DEF SendTypeOK
    <3> QED BY <3>6, <3>7, <3>8, <3>9, SlotAfterPump
  <2>2. CASE UNCHANGED <<sStatus, sendQueue, running, opening, streaming, stopped>>
    <3>1. SendTypeOK'
      BY <1>3, <2>2 DEF HandleAccept, SendTypeOK
    <3>2. SlotInv'
      BY <1>3, <2>2 DEF HandleAccept, SlotInv, SendTypeOK, Waiting
    <3> QED BY <3>1, <3>2
  <2> QED BY <1>3, <2>1, <2>2 DEF HandleAccept
<1>4. ASSUME NEW st \in Settled, NEW sending \in SUBSET streaming,
             streaming \subseteq sending \cup {f},
             Finished(f, st, sending),
             UNCHANGED <<attempts, prepared, accepted>>
      PROVE  SendTypeOK' /\ SlotInv'
  <2> DEFINE status == [sStatus EXCEPT ![f] = st]
             busy == running \ {f}
             known == senders \ {f}
  <2>1. PICK started \in SUBSET Files :
          PumpEffect(started, sendQueue, busy, known, status, sending, stopped)
    BY <1>4, FinishedDoes
  <2>2. /\ status \in [Files -> Statuses]
        /\ \A g \in Files : status[g] = "none" => sStatus[g] = "none"
    BY DEF SendTypeOK, Statuses, Settled
  <2>3. senders' = senders \ {f} /\ timers' = timers \ {f}
    BY <1>4 DEF Finished
  <2>4. Elems(sendQueue) = Waiting
    BY DEF Elems, Waiting
  <2>5. /\ Elems(sendQueue) \cap (busy \cup opening \cup sending) = {}
        /\ Elems(sendQueue) \cup busy \cup opening \cup sending \subseteq accepted'
        /\ opening \cap sending = {}
        /\ \A g, h \in busy : g = h
        /\ busy \subseteq senders' \cap (opening \cup sending)
        /\ busy = {} => known \cap Elems(sendQueue) \subseteq senders'
        /\ stopped \cap senders' = {}
    BY <1>4, <2>3, <2>4 DEF SlotInv
  <2>6. /\ \A g \in Files : status[g] = "none" => g \notin senders' \cup stopped \cup timers'
        /\ \A g \in Files : g \in timers' \/ status[g] = "none" => attempts'[g] <= MaxAttempts
    BY <1>4, <2>2, <2>3 DEF SlotInv
  <2>7. /\ senders' \subseteq Files /\ timers' \subseteq Files /\ prepared' \subseteq Batches
        /\ accepted' \subseteq Files /\ attempts' \in [Files -> 0 .. MaxAttempts + 1]
        /\ busy \in SUBSET Files /\ known \in SUBSET Files
        /\ sending \in SUBSET Files /\ stopped \in SUBSET Files
    BY <1>4, <2>3 DEF SendTypeOK
  <2> HIDE DEF status, busy, known
  <2> QED BY <2>1, <2>2, <2>5, <2>6, <2>7, SlotAfterPump
<1>5. ASSUME CancelSend(f), UNCHANGED <<attempts, prepared, accepted>>
      PROVE  SendTypeOK' /\ SlotInv'
  <2> DEFINE status == [sStatus EXCEPT ![f] = "cancelled"]
             busy == running \ {f}
             halted == IF f \in senders THEN stopped \cup {f} ELSE stopped
  <2>1. PICK started \in SUBSET Files :
          PumpEffect(started, sendQueue, busy, senders, status, streaming, halted)
    BY <1>5, CancelDoes
  <2>2. /\ status \in [Files -> Statuses]
        /\ \A g \in Files : status[g] = "none" => sStatus[g] = "none" /\ g # f
    BY DEF SendTypeOK, Statuses, Settled
  <2>3. senders' = senders \ {f} /\ timers' = timers \ {f}
    BY <1>5 DEF CancelSend
  <2>4. Elems(sendQueue) = Waiting
    BY DEF Elems, Waiting
  <2>5. halted \in SUBSET Files /\ halted \subseteq stopped \cup {f}
    BY DEF SendTypeOK
  <2>6. busy = {} => senders \cap Waiting \subseteq senders'
    <3>1. CASE running = {}
      <4>1. Waiting = {}
        BY <3>1 DEF SlotInv, Waiting, SendTypeOK
      <4> QED BY <4>1
    <3>2. CASE f \in running
      BY <2>3, <3>2 DEF SlotInv
    <3> QED BY <3>1, <3>2
  <2>7. /\ Elems(sendQueue) \cap (busy \cup opening \cup streaming) = {}
        /\ Elems(sendQueue) \cup busy \cup opening \cup streaming \subseteq accepted'
        /\ opening \cap streaming = {}
        /\ \A g, h \in busy : g = h
        /\ busy \subseteq senders' \cap (opening \cup streaming)
        /\ busy = {} => senders \cap Elems(sendQueue) \subseteq senders'
        /\ halted \cap senders' = {}
    BY <1>5, <2>3, <2>4, <2>5, <2>6 DEF SlotInv
  <2>8. /\ \A g \in Files : status[g] = "none" => g \notin senders' \cup halted \cup timers'
        /\ \A g \in Files : g \in timers' \/ status[g] = "none" => attempts'[g] <= MaxAttempts
    BY <1>5, <2>2, <2>3, <2>5 DEF SlotInv
  <2>9. /\ senders' \subseteq Files /\ timers' \subseteq Files /\ prepared' \subseteq Batches
        /\ accepted' \subseteq Files /\ attempts' \in [Files -> 0 .. MaxAttempts + 1]
        /\ busy \in SUBSET Files /\ senders \in SUBSET Files
        /\ streaming \in SUBSET Files
    BY <1>5, <2>3 DEF SendTypeOK
  <2> HIDE DEF status, busy, halted
  <2> QED BY <2>1, <2>2, <2>5, <2>7, <2>8, <2>9, SlotAfterPump
<1>6. CASE HandleDecline(f)
  BY <1>4, <1>6 DEF HandleDecline, Settled
<1>7. CASE StartOpened(f)
  <2>1. SendTypeOK'
    BY <1>7 DEF StartOpened, SendTypeOK
  <2>2. SlotInv'
    BY <1>7 DEF StartOpened, SlotInv, Waiting
  <2> QED BY <2>1, <2>2
<1>8. CASE SendFrame(f)
  <2>1. SendTypeOK'
    BY <1>8 DEF SendFrame, SendTypeOK
  <2>2. \A g \in Files : sStatus'[g] = "none" => sStatus[g] = "none"
    BY <1>8 DEF SendFrame, SendTypeOK
  <2>3. SlotInv'
    BY <1>8, <2>2 DEF SendFrame, SlotInv, Waiting
  <2> QED BY <2>1, <2>3
<1>9. CASE StreamStops(f)
  <2>1. SendTypeOK'
    BY <1>9 DEF StreamStops, SendTypeOK
  <2>2. SlotInv'
    BY <1>9 DEF StreamStops, SlotInv, Waiting
  <2> QED BY <2>1, <2>2
<1>10. CASE FinishSending(f)
  <2>1. CASE Finished(f, "completed", streaming \ {f})
    BY <1>4, <1>10, <2>1 DEF FinishSending, Settled
  <2>2. CASE UNCHANGED <<sStatus, senders, timers, sendQueue, running, opening, streaming, stopped>>
    <3>1. SendTypeOK'
      BY <1>10, <2>2 DEF FinishSending, SendTypeOK
    <3>2. SlotInv'
      BY <1>10, <2>2 DEF FinishSending, SlotInv, Waiting
    <3> QED BY <3>1, <3>2
  <2> QED BY <1>10, <2>1, <2>2 DEF FinishSending
<1>11. CASE ReadFails(f)
  BY <1>4, <1>11 DEF ReadFails, Settled
<1>12. CASE UserCancelsSend(f)
  BY <1>5, <1>12 DEF UserCancelsSend
<1>13. CASE HandleCancelAtSender(f)
  BY <1>5, <1>13 DEF HandleCancelAtSender
<1> QED
  BY <1>1, <1>2, <1>3, <1>6, <1>7, <1>8, <1>9, <1>10, <1>11, <1>12, <1>13 DEF Sending

-----------------------------------------------------------------------------
(* The receiving side. *)

JobsInOrder ==
  /\ \A f \in Files, j, k \in jobs : InJob(j, f) /\ InJob(k, f) => j = k
  /\ \A j \in jobs : \A i, k \in DOMAIN j : j[i].file = j[k].file => i = k

LEMMA JobsAreInOrder == TurnInv /\ ~revived => JobsInOrder
  BY DEF TurnInv, OneLoopEach, JobsInOrder

LEMMA FilesFinite ==
  ASSUME NEW files \in SUBSET Files
  PROVE  IsFiniteSet(files) /\ Cardinality(files) \in Nat
<1>1. IsFiniteSet(Files)
  BY FS_Interval, SessionAssumption DEF Files
<1> QED BY <1>1, FS_Subset, FS_CardinalityType

\* A loop for one file.
Single(f) == <<[file |-> f, queued |-> HasActive]>>

LEMMA SingleFacts ==
  ASSUME NEW f \in Files
  PROVE  /\ Single(f) \in Seq(Answers) /\ Single(f) # <<>>
         /\ \A i \in DOMAIN Single(f) : i = 1 /\ Single(f)[i].file = f
         /\ \A g : InJob(Single(f), g) => g = f
<1>1. HasActive \in BOOLEAN
  BY DEF HasActive
<1>2. [file |-> f, queued |-> HasActive] \in Answers
  BY <1>1 DEF Answers
<1> QED BY <1>2 DEF InJob, Single

\* Files are put into the prompt or, while files are accepted by themselves, into
\* a loop each.
LEMMA EnqueueKeeps ==
  ASSUME ReceiveTypeOK, PromptInv, NEW files \in SUBSET Files,
         files \cap Prompted = {} \/ autoAccept \/ HasActive, Enqueue(files)
  PROVE  /\ prompts' \in Seq(Files) /\ jobs' \subseteq Seq(Answers) /\ autoAccept' \in BOOLEAN
         /\ \A i, j \in DOMAIN prompts' : prompts'[i] = prompts'[j] => i = j
         /\ <<>> \notin jobs'
         /\ Prompted' \cup Answering' \subseteq Prompted \cup Answering \cup files
         /\ jobs' # {} => autoAccept'
         /\ autoAccept' \/ jobs' # {} => autoAccept \/ HasActive
<1>1. CASE autoAccept \/ HasActive
  <2>1. /\ jobs' = jobs \cup {Single(f) : f \in files}
        /\ autoAccept' = (autoAccept \/ files # {})
        /\ prompts' = prompts
    BY <1>1 DEF Enqueue, Single
  <2>2. jobs' \subseteq Seq(Answers) /\ <<>> \notin jobs'
    BY <2>1, SingleFacts DEF ReceiveTypeOK, PromptInv
  <2>3. Answering' \subseteq Answering \cup files
    BY <2>1, SingleFacts DEF Answering, InJob
  <2>4. Prompted' = Prompted
    BY <2>1 DEF Prompted
  <2> QED BY <1>1, <2>1, <2>2, <2>3, <2>4 DEF ReceiveTypeOK, PromptInv
<1>2. CASE ~(autoAccept \/ HasActive)
  <2>1. PICK inOrder \in [1 .. Cardinality(files) -> files] :
          /\ \A i, j \in DOMAIN inOrder : i < j => inOrder[i] < inOrder[j]
          /\ prompts' = prompts \o inOrder
    BY <1>2 DEF Enqueue
  <2>2. jobs' = jobs /\ autoAccept' = autoAccept
    BY <1>2 DEF Enqueue
  <2>3. inOrder \in Seq(Files) /\ DOMAIN inOrder = 1 .. Cardinality(files) /\ prompts \in Seq(Files)
    BY FilesFinite DEF ReceiveTypeOK
  <2>4. /\ prompts' \in Seq(Files)
        /\ DOMAIN prompts' = 1 .. Len(prompts) + Cardinality(files)
        /\ \A i \in DOMAIN prompts : prompts'[i] = prompts[i]
        /\ \A i \in DOMAIN inOrder : prompts'[i + Len(prompts)] = inOrder[i]
        /\ Len(prompts) \in Nat /\ DOMAIN prompts = 1 .. Len(prompts)
    BY <2>1, <2>3, FilesFinite
  <2>5. ASSUME NEW i \in DOMAIN prompts'
        PROVE  \/ i \in DOMAIN prompts /\ prompts'[i] = prompts[i]
               \/ /\ i - Len(prompts) \in DOMAIN inOrder /\ i \notin DOMAIN prompts
                  /\ prompts'[i] = inOrder[i - Len(prompts)]
                  /\ prompts'[i] \in files
    <3>1. CASE i \in DOMAIN prompts
      BY <2>4, <3>1
    <3>2. CASE i \notin DOMAIN prompts
      <4>1. i - Len(prompts) \in 1 .. Cardinality(files)
        BY <2>4, <3>2, FilesFinite
      <4>2. (i - Len(prompts)) + Len(prompts) = i
        BY <2>4
      <4> QED BY <2>1, <2>3, <2>4, <3>2, <4>1, <4>2
    <3> QED BY <3>1, <3>2
  <2>6. \A i, j \in DOMAIN inOrder : inOrder[i] = inOrder[j] => i = j
    <3>1. ASSUME NEW i \in DOMAIN inOrder, NEW j \in DOMAIN inOrder, inOrder[i] = inOrder[j]
          PROVE  i = j
      <4>1. i \in Int /\ j \in Int
        BY <2>3, FilesFinite
      <4>2. inOrder[i] \in Files
        BY <2>1, <3>1
      <4>3. inOrder[i] \in Int
        BY <4>2 DEF Files
      <4>4. (i < j => inOrder[i] < inOrder[j]) /\ (j < i => inOrder[j] < inOrder[i])
        BY <2>1, <3>1
      <4> QED BY <3>1, <4>1, <4>3, <4>4
    <3> QED BY <3>1
  <2>7. Prompted' \subseteq Prompted \cup files
    BY <2>5 DEF Prompted
  <2>8. \A i, j \in DOMAIN prompts' : prompts'[i] = prompts'[j] => i = j
    <3>1. ASSUME NEW i \in DOMAIN prompts', NEW j \in DOMAIN prompts', prompts'[i] = prompts'[j]
          PROVE  i = j
      <4>1. CASE i \in DOMAIN prompts /\ j \in DOMAIN prompts
        BY <2>4, <3>1, <4>1 DEF PromptInv
      <4>2. CASE i \notin DOMAIN prompts /\ j \notin DOMAIN prompts
        <5>1. i - Len(prompts) = j - Len(prompts)
          BY <2>5, <2>6, <3>1, <4>2
        <5>2. i \in Int /\ j \in Int /\ Len(prompts) \in Int
          BY <2>4, FilesFinite
        <5> QED BY <5>1, <5>2
      <4>3. CASE i \in DOMAIN prompts /\ j \notin DOMAIN prompts
        BY <1>2, <2>5, <3>1, <4>3 DEF Prompted
      <4>4. CASE i \notin DOMAIN prompts /\ j \in DOMAIN prompts
        BY <1>2, <2>5, <3>1, <4>4 DEF Prompted
      <4> QED BY <4>1, <4>2, <4>3, <4>4
    <3> QED BY <3>1
  <2>9. Answering' = Answering /\ <<>> \notin jobs'
    BY <2>2 DEF Answering, PromptInv
  <2> QED
    BY <1>2, <2>2, <2>4, <2>7, <2>8, <2>9 DEF ReceiveTypeOK, PromptInv
<1> QED BY <1>1, <1>2

\* Files that are in no prompt and in no loop are put into one or the other.
LEMMA EnqueueInTurn ==
  ASSUME ReceiveTypeOK, PromptInv, TurnInv, ~revived, NEW files \in SUBSET Files,
         files \cap (Prompted \cup Answering) = {}, Enqueue(files)
  PROVE  /\ JobsInOrder'
         /\ prompts' # <<>> => ~autoAccept' /\ ~HasActive
<1>1. CASE autoAccept \/ HasActive
  <2>1. /\ jobs' = jobs \cup {Single(f) : f \in files}
        /\ prompts' = prompts
    BY <1>1 DEF Enqueue, Single
  <2>2. ASSUME NEW j \in jobs' PROVE \A i, k \in DOMAIN j : j[i].file = j[k].file => i = k
    BY <2>1, SingleFacts, JobsAreInOrder DEF JobsInOrder
  <2>3. ASSUME NEW f \in Files, NEW j \in jobs', NEW k \in jobs', InJob(j, f), InJob(k, f)
        PROVE  j = k
    <3>1. CASE j \in jobs /\ k \in jobs
      BY <2>3, <3>1, JobsAreInOrder DEF JobsInOrder
    <3>2. CASE \E g \in files : j = Single(g)
      <4>1. f \in files /\ j = Single(f)
        BY <2>3, <3>2, SingleFacts
      <4>2. k \notin jobs
        BY <2>3, <4>1 DEF Answering
      <4> QED BY <2>1, <2>3, <4>1, <4>2, SingleFacts
    <3>3. CASE \E g \in files : k = Single(g)
      <4>1. f \in files /\ k = Single(f)
        BY <2>3, <3>3, SingleFacts
      <4>2. j \notin jobs
        BY <2>3, <4>1 DEF Answering
      <4> QED BY <2>1, <2>3, <4>1, <4>2, SingleFacts
    <3> QED BY <2>1, <3>1, <3>2, <3>3
  <2>4. JobsInOrder'
    BY <2>2, <2>3 DEF JobsInOrder, InJob
  <2>5. prompts = <<>>
    BY <1>1 DEF TurnInv
  <2> QED BY <2>1, <2>4, <2>5
<1>2. CASE ~(autoAccept \/ HasActive)
  <2>1. jobs' = jobs /\ autoAccept' = autoAccept
    BY <1>2 DEF Enqueue
  <2>2. JobsInOrder'
    BY <2>1, JobsAreInOrder DEF JobsInOrder
  <2> QED BY <1>2, <2>1, <2>2
<1> QED BY <1>1, <1>2

\* What a loop and its rest are made of.
LEMMA JobFacts ==
  ASSUME ReceiveTypeOK, PromptInv, NEW job \in jobs
  PROVE  /\ 1 \in DOMAIN job
         /\ job[1].file \in Files /\ job[1].queued \in BOOLEAN
         /\ InJob(job, job[1].file)
         /\ Tail(job) \in Seq(Answers)
         /\ Len(job) > 1 => Tail(job) # <<>>
         /\ \A i \in DOMAIN Tail(job) :
              /\ i \in Int /\ i + 1 \in DOMAIN job /\ i + 1 # 1
              /\ Tail(job)[i] = job[i + 1]
<1>1. /\ job \in Seq(Answers) /\ job # <<>>
  BY DEF ReceiveTypeOK, PromptInv
<1>2. /\ 1 \in DOMAIN job /\ DOMAIN job = 1 .. Len(job) /\ Len(job) \in Nat
      /\ \A i \in DOMAIN job : job[i] \in Answers
  BY <1>1
<1>3. /\ job[1].file \in Files /\ job[1].queued \in BOOLEAN
      /\ InJob(job, job[1].file)
  <2>1. job[1] \in Answers
    BY <1>2
  <2>2. job[1].file \in Files /\ job[1].queued \in BOOLEAN
    BY <2>1 DEF Answers
  <2>3. InJob(job, job[1].file)
    BY <1>2, Zenon DEF InJob
  <2> QED BY <2>2, <2>3
<1>4. /\ Tail(job) \in Seq(Answers)
      /\ DOMAIN Tail(job) = 1 .. Len(job) - 1
      /\ \A i \in DOMAIN Tail(job) : Tail(job)[i] = job[i + 1]
      /\ Len(job) > 1 => Tail(job) # <<>>
  <2>1. /\ Tail(job) \in Seq(Answers)
        /\ Len(Tail(job)) = Len(job) - 1
        /\ \A i \in 1 .. Len(job) - 1 : Tail(job)[i] = job[i + 1]
    BY <1>1, HeadTailProperties
  <2>2. Len(job) > 1 => Tail(job) # <<>>
    <3>1. Len(job) > 1 => Len(Tail(job)) # 0
      BY <1>2, <2>1
    <3> QED BY <3>1
  <2> QED BY <2>1, <2>2
<1>5. \A i \in DOMAIN Tail(job) : i \in Int /\ i + 1 \in DOMAIN job /\ i + 1 # 1
  BY <1>2, <1>4
<1> QED BY <1>2, <1>3, <1>4, <1>5

\* A loop of respondToRequest that goes on brings no file that was not in it.
LEMMA JobKeeps ==
  ASSUME ReceiveTypeOK, PromptInv, NEW job \in jobs, JobMovesOn(job)
  PROVE  /\ job[1].file \in Answering
         /\ jobs' \subseteq Seq(Answers)
         /\ <<>> \notin jobs'
         /\ Answering' \subseteq Answering
<1>1. /\ jobs' \subseteq (jobs \ {job}) \cup {Tail(job)}
      /\ Tail(job) \in jobs' => Tail(job) \in jobs \ {job} \/ Len(job) > 1
  BY DEF JobMovesOn
<1>2. jobs' \subseteq Seq(Answers)
  BY <1>1, JobFacts DEF ReceiveTypeOK
<1>3. <<>> \notin jobs'
  BY <1>1, JobFacts DEF PromptInv
<1>4. \A f : InJob(Tail(job), f) => InJob(job, f)
  BY JobFacts DEF InJob
<1>5. Answering' \subseteq Answering
  BY <1>1, <1>4 DEF Answering, InJob
<1>6. job[1].file \in Answering
  BY JobFacts DEF Answering
<1> QED BY <1>2, <1>3, <1>5, <1>6

\* Where every file is in one loop, the loop leaves its file.
LEMMA JobInTurn ==
  ASSUME ReceiveTypeOK, PromptInv, TurnInv, ~revived, NEW job \in jobs, JobMovesOn(job)
  PROVE  /\ JobsInOrder'
         /\ Answering' \subseteq Answering \ {job[1].file}
<1>1. \A f : InJob(Tail(job), f) => InJob(job, f) /\ f # job[1].file
  <2>1. ASSUME NEW f, NEW i \in DOMAIN Tail(job), Tail(job)[i].file = f
        PROVE  InJob(job, f) /\ f # job[1].file
    <3>1. /\ i + 1 \in DOMAIN job /\ job[i + 1].file = f /\ i + 1 # 1 /\ 1 \in DOMAIN job
      BY <2>1, JobFacts
    <3>2. \A k, l \in DOMAIN job : job[k].file = job[l].file => k = l
      BY JobsAreInOrder DEF JobsInOrder
    <3> QED BY <3>1, <3>2 DEF InJob
  <2> QED BY <2>1 DEF InJob
<1>2. jobs' \subseteq (jobs \ {job}) \cup {Tail(job)}
  BY DEF JobMovesOn
<1>3. JobsInOrder'
  <2>1. ASSUME NEW f \in Files, NEW j \in jobs', NEW k \in jobs', InJob(j, f), InJob(k, f)
        PROVE  j = k
    <3>1. CASE j \in jobs \ {job} /\ k \in jobs \ {job}
      BY <2>1, <3>1, JobsAreInOrder DEF JobsInOrder
    <3>2. CASE j = Tail(job) /\ k \in jobs \ {job}
      <4>1. InJob(job, f)
        BY <1>1, <2>1, <3>2
      <4> QED BY <2>1, <3>2, <4>1, JobsAreInOrder DEF JobsInOrder
    <3>3. CASE j \in jobs \ {job} /\ k = Tail(job)
      <4>1. InJob(job, f)
        BY <1>1, <2>1, <3>3
      <4> QED BY <2>1, <3>3, <4>1, JobsAreInOrder DEF JobsInOrder
    <3> QED BY <1>2, <3>1, <3>2, <3>3
  <2>2. ASSUME NEW j \in jobs', NEW i \in DOMAIN j, NEW k \in DOMAIN j, j[i].file = j[k].file
        PROVE  i = k
    <3>1. CASE j \in jobs
      BY <2>2, <3>1, JobsAreInOrder DEF JobsInOrder
    <3>2. CASE j = Tail(job)
      <4>1. /\ i \in Int /\ k \in Int /\ i + 1 \in DOMAIN job /\ k + 1 \in DOMAIN job
            /\ job[i + 1].file = job[k + 1].file
        BY <2>2, <3>2, JobFacts
      <4>2. i + 1 = k + 1
        BY <4>1, JobsAreInOrder DEF JobsInOrder
      <4> QED BY <4>1, <4>2
    <3> QED BY <1>2, <3>1, <3>2
  <2> QED BY <2>1, <2>2 DEF JobsInOrder, InJob
<1>4. Answering' \subseteq Answering \ {job[1].file}
  <2>1. ASSUME NEW f \in Answering' PROVE f \in Answering /\ f # job[1].file
    <3>1. f \in Files
      BY DEF Answering
    <3>2. PICK j \in jobs' : InJob(j, f)
      BY Zenon DEF Answering, InJob
    <3>3. CASE j = Tail(job)
      BY <1>1, <3>1, <3>2, <3>3 DEF Answering
    <3>4. CASE j \in jobs \ {job}
      BY <3>1, <3>2, <3>4, JobFacts, JobsAreInOrder DEF Answering, JobsInOrder
    <3> QED BY <1>2, <3>2, <3>3, <3>4
  <2> QED BY <2>1
<1> QED BY <1>3, <1>4

\* The two invariants behind a step, from their parts.
LEMMA PromptFromParts ==
  ASSUME \A i, j \in DOMAIN prompts' : prompts'[i] = prompts'[j] => i = j,
         <<>> \notin jobs',
         Prompted' \cup Answering' \subseteq asked',
         \A f \in Files : rStatus'[f] # "none" => f \in asked',
         \A f \in receivers' : rStatus'[f] \in {"queued", "transferring"},
         jobs' # {} => autoAccept',
         autoAccept' \/ (\E f \in Files : rStatus'[f] # "none") => approved' # {}
  PROVE  PromptInv'
BY DEF PromptInv, NothingUnasked

LEMMA TurnFromParts ==
  ASSUME ~revived' => /\ JobsInOrder'
                      /\ \A f \in Prompted' \cup Answering' : rStatus'[f] = "none"
                      /\ prompts' # <<>> => ~autoAccept' /\ ~HasActive'
  PROVE  TurnInv'
<1> SUFFICES ASSUME ~revived'
             PROVE  TurnInv'
  BY DEF TurnInv
<1>1. \A f \in Files, j \in jobs' : InJob(j, f) => rStatus'[f] = "none"
  BY DEF Answering, InJob
<1>2. OneLoopEach'
  BY <1>1 DEF OneLoopEach, JobsInOrder, InJob
<1> QED BY <1>2 DEF TurnInv

\* A handler that leaves prompts and loops alone, and marks no new file as
\* received.
LEMMA OthersKeepAnswers ==
  ASSUME ReceiveTypeOK, PromptInv, TurnInv, revived => revived',
         UNCHANGED <<prompts, jobs, asked, approved>>,
         jobs # {} => autoAccept', autoAccept' => autoAccept,
         \A f \in Files : rStatus'[f] = "none" <=> rStatus[f] = "none",
         ~revived' /\ prompts # <<>> => (HasActive' => HasActive),
         \A f \in receivers' : rStatus'[f] \in {"queued", "transferring"}
  PROVE  PromptInv' /\ TurnInv'
<1>1. Prompted' = Prompted /\ Answering' = Answering
  BY DEF Prompted, Answering, InJob
<1>2. Prompted \subseteq Files /\ Answering \subseteq Files
  BY DEF Prompted, Answering, ReceiveTypeOK
<1>3. PromptInv'
  BY <1>1, PromptFromParts DEF PromptInv, NothingUnasked
<1>4. TurnInv'
  <2>1. ASSUME ~revived'
        PROVE  /\ JobsInOrder'
               /\ \A f \in Prompted' \cup Answering' : rStatus'[f] = "none"
               /\ prompts' # <<>> => ~autoAccept' /\ ~HasActive'
    <3>1. JobsInOrder'
      BY <2>1, JobsAreInOrder DEF JobsInOrder, InJob
    <3> QED BY <1>1, <1>2, <2>1, <3>1 DEF TurnInv
  <2> QED BY <2>1, TurnFromParts
<1> QED BY <1>3, <1>4

LEMMA ReceivingKeepsAnswers ==
  ASSUME ReceiveTypeOK, PromptInv, TurnInv, MessageInv, NEW f \in Files, Receiving(f)
  PROVE  ReceiveTypeOK' /\ PromptInv' /\ TurnInv'
<1>0. f \in verifying => rStatus[f] # "none"
  BY DEF MessageInv
<1>1. CASE HandleRequest(f)
  <2>1. UNCHANGED <<rStatus, receivers, early, verifying, approved, revived>> /\ HasActive' = HasActive
    BY <1>1 DEF HandleRequest, HasActive
  <2>2. CASE f \in receivers /\ UNCHANGED <<asked, prompts, autoAccept, jobs>>
    <3>1. ReceiveTypeOK'
      BY <2>1, <2>2 DEF ReceiveTypeOK
    <3>2. PromptInv' /\ TurnInv'
      BY <2>1, <2>2, OthersKeepAnswers DEF PromptInv
    <3> QED BY <3>1, <3>2
  <2>3. CASE f \notin receivers /\ asked' = asked \cup {f} /\ Enqueue({f} \ asked)
    <3> DEFINE files == {f} \ asked
    <3>1. files \in SUBSET Files /\ files \cap (Prompted \cup Answering) = {}
      BY DEF PromptInv
    <3>2. Enqueue(files) /\ files \subseteq asked'
      BY <2>3
    <3>3. \A g \in files : rStatus[g] = "none"
      BY DEF PromptInv
    <3> HIDE DEF files
    <3>4. /\ prompts' \in Seq(Files) /\ jobs' \subseteq Seq(Answers) /\ autoAccept' \in BOOLEAN
          /\ \A i, j \in DOMAIN prompts' : prompts'[i] = prompts'[j] => i = j
          /\ <<>> \notin jobs'
          /\ Prompted' \cup Answering' \subseteq Prompted \cup Answering \cup files
          /\ jobs' # {} => autoAccept'
          /\ autoAccept' \/ jobs' # {} => autoAccept \/ HasActive
      BY <3>1, <3>2, EnqueueKeeps
    <3>5. ReceiveTypeOK'
      BY <2>1, <2>3, <3>4 DEF ReceiveTypeOK
    <3>6. PromptInv'
      BY <2>1, <2>3, <3>2, <3>4, PromptFromParts DEF PromptInv, NothingUnasked, HasActive
    <3>7. ASSUME ~revived'
          PROVE  /\ JobsInOrder'
                 /\ \A g \in Prompted' \cup Answering' : rStatus'[g] = "none"
                 /\ prompts' # <<>> => ~autoAccept' /\ ~HasActive'
      <4>1. JobsInOrder' /\ (prompts' # <<>> => ~autoAccept' /\ ~HasActive)
        BY <2>1, <3>1, <3>2, <3>7, EnqueueInTurn
      <4> QED BY <2>1, <3>3, <3>4, <3>7, <4>1 DEF TurnInv
    <3> QED BY <3>5, <3>6, <3>7, TurnFromParts
  <2> QED BY <1>1, <2>2, <2>3 DEF HandleRequest
<1>2. CASE HandleFrame(f)
  <2>1. \A g \in Files : g # f \/ f \notin receivers => rStatus'[g] = rStatus[g]
    BY <1>2 DEF HandleFrame, ReceiveTypeOK
  <2>2. f \in receivers => rStatus[f] \in {"queued", "transferring"}
                           /\ rStatus'[f] \in {"queued", "transferring"}
    BY <1>2 DEF HandleFrame, ReceiveTypeOK, PromptInv
  <2>3. ReceiveTypeOK'
    BY <1>2 DEF HandleFrame, ReceiveTypeOK
  <2>4. HasActive' => HasActive
    BY <2>1, <2>2 DEF HasActive
  <2>5. UNCHANGED <<receivers, asked, prompts, autoAccept, jobs, approved, revived>>
    BY <1>2 DEF HandleFrame
  <2>6. \A g \in Files : rStatus'[g] = "none" <=> rStatus[g] = "none"
    BY <2>1, <2>2
  <2>7. \A g \in receivers' : rStatus'[g] \in {"queued", "transferring"}
    BY <2>1, <2>2, <2>5 DEF PromptInv, ReceiveTypeOK
  <2> QED
    BY <2>3, <2>4, <2>5, <2>6, <2>7, OthersKeepAnswers DEF PromptInv
\* A receiver that goes on, known to the service or not; a prompt that is open
\* meanwhile is what `revived' is about.
<1>3. CASE VerificationEnds(f)
  <2>1. rStatus' = [rStatus EXCEPT ![f] = "transferring"] \/ rStatus' = rStatus
    BY <1>3 DEF VerificationEnds
  <2>2. /\ UNCHANGED <<receivers, asked, prompts, autoAccept, jobs, early, approved>>
        /\ verifying' \subseteq verifying /\ revived' \in BOOLEAN
    BY <1>3 DEF VerificationEnds, ReceiveTypeOK
  <2>3. ReceiveTypeOK'
    BY <2>1, <2>2 DEF ReceiveTypeOK
  <2>4. \A g \in Files : rStatus'[g] = "none" <=> rStatus[g] = "none"
    BY <1>0, <1>3, <2>1 DEF VerificationEnds, ReceiveTypeOK
  <2>5. \A g \in receivers' : rStatus'[g] \in {"queued", "transferring"}
    BY <2>1, <2>2 DEF PromptInv, ReceiveTypeOK
  <2>6. revived => revived'
    BY <1>3 DEF VerificationEnds
  <2>7. ASSUME ~revived', prompts # <<>>, HasActive' PROVE HasActive
    <3>1. rStatus' # rStatus => f \in receivers
      BY <1>3, <2>7 DEF VerificationEnds
    <3>2. CASE rStatus' = rStatus
      BY <2>7, <3>2 DEF HasActive
    <3>3. CASE f \in receivers
      BY <3>3 DEF HasActive, PromptInv
    <3> QED BY <3>1, <3>2, <3>3
  <2> QED
    BY <2>2, <2>3, <2>4, <2>5, <2>6, <2>7, OthersKeepAnswers DEF PromptInv
<1>4. ASSUME UNCHANGED <<asked, prompts, autoAccept, jobs, approved, revived>>,
             verifying' \subseteq verifying,
             receivers' = receivers \ {f},
             early' \subseteq early,
             rStatus[f] # "none",
             rStatus' = [rStatus EXCEPT ![f] = "over"]
      PROVE  ReceiveTypeOK' /\ PromptInv' /\ TurnInv'
  <2>1. ReceiveTypeOK'
    BY <1>4 DEF ReceiveTypeOK
  <2>2. /\ \A g \in Files : rStatus'[g] = "none" <=> rStatus[g] = "none"
        /\ \A g \in Files : rStatus'[g] = IF g = f THEN "over" ELSE rStatus[g]
    BY <1>4 DEF ReceiveTypeOK
  <2>3. HasActive' => HasActive
    BY <2>2 DEF HasActive
  <2>4. \A g \in receivers' : rStatus'[g] \in {"queued", "transferring"}
    BY <1>4, <2>2 DEF PromptInv, ReceiveTypeOK
  <2> QED
    BY <1>4, <2>1, <2>2, <2>3, <2>4, OthersKeepAnswers DEF PromptInv
<1>5. CASE FinishReceiving(f)
  BY <1>0, <1>4, <1>5 DEF FinishReceiving, Forgotten
<1>6. CASE VerifyFails(f)
  BY <1>0, <1>4, <1>6 DEF VerifyFails, Forgotten
<1>7. ASSUME CancelReceive(f),
             UNCHANGED <<asked, prompts, autoAccept, jobs, verifying, approved, revived>>
      PROVE  ReceiveTypeOK' /\ PromptInv' /\ TurnInv'
  <2>1. CASE rStatus[f] # "none"
    BY <1>4, <1>7, <2>1 DEF CancelReceive
  <2>2. CASE rStatus[f] = "none"
    <3>1. rStatus' = rStatus /\ HasActive' = HasActive
      BY <1>7, <2>2 DEF CancelReceive, HasActive
    <3>2. ReceiveTypeOK'
      BY <1>7, <3>1 DEF CancelReceive, ReceiveTypeOK
    <3> QED
      BY <1>7, <3>1, <3>2, OthersKeepAnswers DEF CancelReceive, PromptInv
  <2> QED BY <2>1, <2>2
<1>8. CASE UserCancelsReceive(f)
  BY <1>7, <1>8 DEF UserCancelsReceive
<1>9. CASE HandleCancelAtReceiver(f)
  BY <1>7, <1>9 DEF HandleCancelAtReceiver
<1> QED BY <1>1, <1>2, <1>3, <1>5, <1>6, <1>8, <1>9 DEF Receiving

\* What prepare-upload hands on: the files that are new, and the summary of the
\* prompts, which starts with the first, once more. In turn, the summary is
\* never in the way: there is no prompt while files are accepted by themselves.
NewFiles(b) == (InBatch(b) \ receivers) \ asked

Again(b) ==
  IF NewFiles(b) # {} /\ prompts # <<>> /\ (autoAccept \/ HasActive) THEN {prompts[1]} ELSE {}

LEMMA PrepareEnqueues ==
  ASSUME ReceiveTypeOK, PromptInv, NEW b \in Batches, HandlePrepare(b)
  PROVE  /\ NewFiles(b) \subseteq Files \ asked
         /\ NewFiles(b) \cap (Prompted \cup Answering) = {}
         /\ Again(b) \subseteq Prompted
         /\ Again(b) # {} => autoAccept \/ HasActive
         /\ Enqueue(NewFiles(b) \cup Again(b))
         /\ prompts' \in Seq(Files) /\ jobs' \subseteq Seq(Answers) /\ autoAccept' \in BOOLEAN
         /\ \A i, j \in DOMAIN prompts' : prompts'[i] = prompts'[j] => i = j
         /\ <<>> \notin jobs'
         /\ Prompted' \cup Answering' \subseteq Prompted \cup Answering \cup NewFiles(b)
         /\ jobs' # {} => autoAccept'
         /\ autoAccept' \/ jobs' # {} => autoAccept \/ HasActive
         /\ (TurnInv /\ ~revived) => /\ JobsInOrder'
                                     /\ prompts' # <<>> => ~autoAccept' /\ ~HasActive
<1> DEFINE files == NewFiles(b) \cup Again(b)
<1>1. /\ NewFiles(b) \subseteq Files \ asked
      /\ NewFiles(b) \cap (Prompted \cup Answering) = {}
  BY DEF PromptInv, NewFiles, InBatch
<1>2. Again(b) \subseteq Prompted /\ (Again(b) # {} => autoAccept \/ HasActive)
  <2>1. prompts # <<>> => 1 \in DOMAIN prompts
    BY DEF ReceiveTypeOK
  <2> QED BY <2>1 DEF Again, Prompted
<1>3. Enqueue(files)
  BY DEF HandlePrepare, NewFiles, Again
<1>4. files \in SUBSET Files /\ (files \cap Prompted = {} \/ autoAccept \/ HasActive)
  <2>1. Prompted \subseteq Files
    BY DEF Prompted, ReceiveTypeOK
  <2> QED BY <1>1, <1>2, <2>1
<1>5. /\ prompts' \in Seq(Files) /\ jobs' \subseteq Seq(Answers) /\ autoAccept' \in BOOLEAN
      /\ \A i, j \in DOMAIN prompts' : prompts'[i] = prompts'[j] => i = j
      /\ <<>> \notin jobs'
      /\ Prompted' \cup Answering' \subseteq Prompted \cup Answering \cup files
      /\ jobs' # {} => autoAccept'
      /\ autoAccept' \/ jobs' # {} => autoAccept \/ HasActive
  <2> HIDE DEF files
  <2> QED BY <1>3, <1>4, EnqueueKeeps
<1>6. ASSUME TurnInv, ~revived
      PROVE  JobsInOrder' /\ (prompts' # <<>> => ~autoAccept' /\ ~HasActive)
  <2>1. Again(b) = {}
    BY <1>6 DEF Again, TurnInv
  <2>2. files \cap (Prompted \cup Answering) = {}
    BY <1>1, <2>1
  <2> HIDE DEF files
  <2> QED BY <1>3, <1>4, <1>6, <2>2, EnqueueInTurn
<1> QED BY <1>1, <1>2, <1>3, <1>5, <1>6

LEMMA PrepareKeepsAnswers ==
  ASSUME ReceiveTypeOK, PromptInv, TurnInv, NEW b \in Batches, HandlePrepare(b)
  PROVE  ReceiveTypeOK' /\ PromptInv' /\ TurnInv'
<1>1. /\ asked' = asked \cup (InBatch(b) \ receivers)
      /\ UNCHANGED <<rStatus, receivers, early, verifying, approved, revived>>
      /\ HasActive' = HasActive
  BY DEF HandlePrepare, HasActive
<1>2. NewFiles(b) \subseteq asked' /\ asked' \subseteq Files
  BY <1>1 DEF InBatch, ReceiveTypeOK, NewFiles
<1>3. \A g \in NewFiles(b) : rStatus[g] = "none"
  BY DEF PromptInv, NewFiles, InBatch
<1>4. ReceiveTypeOK'
  BY <1>1, <1>2, PrepareEnqueues DEF ReceiveTypeOK
<1>5. PromptInv'
  <2>1. Prompted' \cup Answering' \subseteq asked'
    BY <1>1, <1>2, PrepareEnqueues DEF PromptInv
  <2>2. autoAccept' \/ (\E f \in Files : rStatus'[f] # "none") => approved' # {}
    BY <1>1, PrepareEnqueues DEF PromptInv, NothingUnasked, HasActive
  <2> QED BY <1>1, <2>1, <2>2, PrepareEnqueues, PromptFromParts DEF PromptInv
<1>6. ASSUME ~revived'
      PROVE  /\ JobsInOrder'
             /\ \A g \in Prompted' \cup Answering' : rStatus'[g] = "none"
             /\ prompts' # <<>> => ~autoAccept' /\ ~HasActive'
  <2>1. JobsInOrder' /\ (prompts' # <<>> => ~autoAccept' /\ ~HasActive)
    BY <1>1, <1>6, PrepareEnqueues
  <2>2. Prompted' \cup Answering' \subseteq Prompted \cup Answering \cup NewFiles(b)
    BY PrepareEnqueues
  <2> QED BY <1>1, <1>3, <1>6, <2>1, <2>2 DEF TurnInv
<1> QED BY <1>4, <1>5, <1>6, TurnFromParts

LEMMA JobKeepsAnswers ==
  ASSUME ReceiveTypeOK, PromptInv, TurnInv, NEW job \in jobs, Register(job) \/ Refuse(job)
  PROVE  ReceiveTypeOK' /\ PromptInv' /\ TurnInv'
<1> DEFINE f == job[1].file
<1>1. JobMovesOn(job)
  BY DEF Register, Refuse
<1>2. /\ f \in Answering /\ job[1].queued \in BOOLEAN
      /\ jobs' \subseteq Seq(Answers)
      /\ <<>> \notin jobs'
      /\ Answering' \subseteq Answering
  BY <1>1, JobKeeps, JobFacts
<1>3. /\ f \in Files /\ f \in asked /\ autoAccept /\ approved # {}
  BY <1>2 DEF Answering, PromptInv, NothingUnasked
<1>4. /\ UNCHANGED <<asked, prompts, autoAccept, approved, revived>>
      /\ receivers' \subseteq receivers \cup {f}
      /\ early' \subseteq early /\ verifying' \subseteq verifying \cup {f}
  BY DEF Register, Refuse
<1>5. /\ rStatus' \in [Files -> {"none", "queued", "transferring", "over"}]
      /\ \A g \in Files \ {f} : rStatus'[g] = rStatus[g]
      /\ f \in receivers' => rStatus'[f] \in {"queued", "transferring"}
  <2>1. CASE Register(job)
    BY <1>3, <2>1 DEF Register, ReceiveTypeOK
  <2>2. CASE Refuse(job)
    BY <1>3, <2>2 DEF Refuse, ReceiveTypeOK, PromptInv
  <2> QED BY <2>1, <2>2
<1> HIDE DEF f
<1>6. ReceiveTypeOK'
  BY <1>2, <1>3, <1>4, <1>5 DEF ReceiveTypeOK
<1>7. Prompted' = Prompted
  BY <1>4 DEF Prompted
<1>8. PromptInv'
  <2>1. \A g \in Files : rStatus'[g] # "none" => g \in asked'
    BY <1>3, <1>4, <1>5 DEF PromptInv
  <2>2. \A g \in receivers' : rStatus'[g] \in {"queued", "transferring"}
    BY <1>4, <1>5 DEF PromptInv, ReceiveTypeOK
  <2> QED BY <1>2, <1>3, <1>4, <1>7, <2>1, <2>2, PromptFromParts DEF PromptInv
<1>9. ASSUME ~revived'
      PROVE  /\ JobsInOrder'
             /\ \A g \in Prompted' \cup Answering' : rStatus'[g] = "none"
             /\ prompts' # <<>> => ~autoAccept' /\ ~HasActive'
  <2>1. ~revived
    BY <1>4, <1>9
  <2>2. JobsInOrder' /\ Answering' \subseteq Answering \ {f}
    BY <1>1, <2>1, JobInTurn DEF f
  <2>3. prompts = <<>>
    BY <1>3, <2>1 DEF TurnInv
  <2>4. \A g \in Prompted' \cup Answering' : g \in Files \ {f} /\ g \in Answering
    BY <1>7, <2>2, <2>3 DEF Answering, Prompted
  <2> QED BY <1>4, <1>5, <2>1, <2>2, <2>3, <2>4 DEF TurnInv
<1> QED BY <1>6, <1>8, <1>9, TurnFromParts

\* The loop that an accepted prompt becomes.
PromptJob == [i \in DOMAIN prompts |-> [file |-> prompts[i], queued |-> i > 1]]

LEMMA AcceptRequestDoes ==
  ASSUME ReceiveTypeOK, AcceptRequest
  PROVE  /\ PromptJob \in Seq(Answers) /\ PromptJob # <<>>
         /\ DOMAIN PromptJob = DOMAIN prompts
         /\ \A i \in DOMAIN PromptJob : PromptJob[i].file = prompts[i]
         /\ jobs' = jobs \cup {PromptJob} /\ prompts' = <<>> /\ autoAccept' = TRUE
         /\ approved' = approved \cup Prompted
         /\ Prompted \subseteq Files /\ Prompted # {}
         /\ Prompted' = {} /\ Answering' \subseteq Answering \cup Prompted
         /\ UNCHANGED <<rStatus, receivers, asked, early, verifying, revived, ctl, frames, lost>>
<1>1. /\ prompts # <<>>
      /\ prompts \in Seq(Files) /\ DOMAIN prompts = 1 .. Len(prompts) /\ Len(prompts) \in Nat
      /\ Len(prompts) # 0
  BY DEF ReceiveTypeOK, AcceptRequest
<1>2. /\ PromptJob \in Seq(Answers) /\ PromptJob # <<>>
      /\ DOMAIN PromptJob = DOMAIN prompts
      /\ \A i \in DOMAIN PromptJob : PromptJob[i].file = prompts[i]
  <2>1. \A i \in DOMAIN prompts : [file |-> prompts[i], queued |-> i > 1] \in Answers
    BY <1>1 DEF Answers
  <2>2. PromptJob \in Seq(Answers) /\ Len(PromptJob) = Len(prompts)
    BY <1>1, <2>1 DEF PromptJob
  <2>3. PromptJob # <<>>
    BY <1>1, <2>2
  <2> QED BY <2>2, <2>3 DEF PromptJob
<1>3. /\ jobs' = jobs \cup {PromptJob} /\ prompts' = <<>> /\ autoAccept' = TRUE
      /\ approved' = approved \cup Prompted
      /\ UNCHANGED <<rStatus, receivers, asked, early, verifying, revived, ctl, frames, lost>>
  BY DEF AcceptRequest, PromptJob, Prompted, routeVars
<1>4. Prompted \subseteq Files /\ Prompted # {}
  BY <1>1 DEF Prompted
<1>5. Prompted' = {} /\ Answering' \subseteq Answering \cup Prompted
  BY <1>2, <1>3 DEF Prompted, Answering, InJob
<1> QED BY <1>2, <1>3, <1>4, <1>5

LEMMA UserKeepsAnswers ==
  ASSUME ReceiveTypeOK, PromptInv, TurnInv, AcceptRequest \/ DeclineRequest \/ AutoAcceptEnds
  PROVE  ReceiveTypeOK' /\ PromptInv' /\ TurnInv'
<1>1. CASE AcceptRequest
  <2>1. ReceiveTypeOK'
    <3>1. prompts' \in Seq(Files)
      BY <1>1, AcceptRequestDoes
    <3>2. jobs' \subseteq Seq(Answers) /\ approved' \subseteq Files
      BY <1>1, AcceptRequestDoes DEF ReceiveTypeOK
    <3>3. autoAccept' \in BOOLEAN /\ revived' \in BOOLEAN
      BY <1>1, AcceptRequestDoes, Zenon DEF ReceiveTypeOK
    <3> QED BY <1>1, <3>1, <3>2, <3>3, AcceptRequestDoes DEF ReceiveTypeOK
  <2>2. PromptInv'
    BY <1>1, AcceptRequestDoes, PromptFromParts DEF PromptInv
  <2>3. ASSUME ~revived'
        PROVE  /\ JobsInOrder'
               /\ \A g \in Prompted' \cup Answering' : rStatus'[g] = "none"
               /\ prompts' # <<>> => ~autoAccept' /\ ~HasActive'
    <3>1. ~revived /\ jobs = {}
      BY <1>1, <2>3, AcceptRequestDoes DEF PromptInv, TurnInv, AcceptRequest
    <3>2. JobsInOrder'
      BY <1>1, <3>1, AcceptRequestDoes DEF JobsInOrder, PromptInv
    <3> QED BY <1>1, <3>1, <3>2, AcceptRequestDoes DEF TurnInv
  <2> QED BY <2>1, <2>2, <2>3, TurnFromParts
<1>2. CASE DeclineRequest
  <2>1. ReceiveTypeOK'
    BY <1>2 DEF DeclineRequest, ReceiveTypeOK
  <2>2. /\ prompts' = <<>>
        /\ UNCHANGED <<rStatus, receivers, asked, autoAccept, jobs, approved, revived>>
    BY <1>2 DEF DeclineRequest
  <2>3. Answering' = Answering /\ Prompted' = {}
    BY <2>2 DEF InJob, Answering, Prompted
  <2>4. PromptInv'
    BY <2>2, <2>3, PromptFromParts DEF PromptInv, NothingUnasked
  <2>5. ASSUME ~revived'
        PROVE  JobsInOrder' /\ \A g \in Prompted' \cup Answering' : rStatus'[g] = "none"
    <3>1. JobsInOrder'
      BY <2>2, <2>5, JobsAreInOrder DEF JobsInOrder, InJob
    <3> QED BY <2>2, <2>3, <2>5, <3>1 DEF TurnInv
  <2> QED BY <2>1, <2>2, <2>4, <2>5, TurnFromParts
<1>3. CASE AutoAcceptEnds
  <2>1. ReceiveTypeOK' /\ HasActive' = HasActive
    BY <1>3 DEF AutoAcceptEnds, ReceiveTypeOK, HasActive
  <2> QED
    BY <1>3, <2>1, OthersKeepAnswers DEF AutoAcceptEnds, PromptInv
<1> QED BY <1>1, <1>2, <1>3

-----------------------------------------------------------------------------
(* Messages in flight. *)

Sent(t) == {f \in Files : Msg(t, f) \in ctl}

\* A step that adds at most one message to those in flight.
LEMMA OneMessage ==
  ASSUME NEW t \in FileMsgs, NEW f \in Files, ctl' \subseteq ctl \cup {Msg(t, f)}
  PROVE  \A u \in FileMsgs : Sent(u)' \subseteq Sent(u) \cup (IF u = t THEN {f} ELSE {})
  BY MsgFacts DEF Sent

LEMMA NoMessage ==
  ASSUME ctl' \subseteq ctl
  PROVE  \A u \in FileMsgs : Sent(u)' \subseteq Sent(u)
  BY DEF Sent

\* What the sending side does to the agreement of the two ends.
LEMMA SenderMessages ==
  ASSUME SendTypeOK, SlotInv, MessageInv, UNCHANGED receiveVars,
         Sent("accept-transfer")' \subseteq Sent("accept-transfer"),
         Sent("decline-transfer")' \subseteq Sent("decline-transfer"),
         Sent("last-ack")' \subseteq Sent("last-ack"),
         accepted \subseteq accepted',
         accepted' \subseteq accepted \cup Sent("accept-transfer"),
         \A f \in Files : sStatus'[f] = "declined"
                            => sStatus[f] = "declined" \/ f \in Sent("decline-transfer"),
         frames' \subseteq frames \cup streaming,
         Waiting' \cup opening' \subseteq Waiting \cup opening \cup (accepted' \ accepted)
  PROVE  MessageInv'
<1> USE DEF Sent, receiveVars
<1>1. Prompted' = Prompted /\ Answering' = Answering
  BY DEF Prompted, Answering, InJob
<1>2. \A f \in Files :
        Msg("accept-transfer", f) \in ctl' \/ f \in accepted' => rStatus'[f] # "none"
  BY DEF MessageInv
<1>3. \A f \in Files :
        Msg("decline-transfer", f) \in ctl' \/ sStatus'[f] = "declined"
          => /\ f \in asked'
             /\ ~revived' => rStatus'[f] = "none" /\ f \notin Prompted' \cup Answering'
  BY <1>1 DEF MessageInv
<1>4. \A f \in Files :
        f \in frames' \cup early' \cup verifying' \/ Msg("last-ack", f) \in ctl'
          => f \in accepted' \ (Waiting' \cup opening')
  BY DEF MessageInv, SlotInv
<1> QED BY <1>2, <1>3, <1>4 DEF MessageInv

\* The queue and the statuses behind a call of pumpAcceptedSenders.
LEMMA PumpMessages ==
  ASSUME NEW queue, NEW busy, NEW known, NEW status, NEW sending, NEW halted, NEW started,
         PumpEffect(started, queue, busy, known, status, sending, halted)
  PROVE  /\ Waiting' \cup opening' \subseteq Elems(queue) \cup opening
         /\ \A f \in Files : sStatus'[f] = "declined" => status[f] = "declined"
<1>1. Waiting' = Elems(sendQueue')
  BY DEF Waiting, Elems
<1> QED BY <1>1 DEF PumpEffect

LEMMA SendingKeepsRoutes ==
  ASSUME RoutesTypeOK, NEW f \in Files, Sending(f)
  PROVE  RoutesTypeOK'
<1>1. ctl' \subseteq Msgs
  <2>1. /\ Msg("request-transfer", f) \in Msgs
        /\ Msg("cancel-at-receiver", f) \in Msgs
    BY MsgFacts DEF FileMsgs
  <2> QED
    BY <2>1 DEF Sending, RoutesTypeOK, routeVars, SendFile, RepeatRequest, HandleAccept,
                HandleDecline, StartOpened, SendFrame, StreamStops, FinishSending, ReadFails,
                UserCancelsSend, HandleCancelAtSender
<1>2. frames' \subseteq Files /\ lost' = lost
  BY DEF Sending, RoutesTypeOK, routeVars, SendFile, RepeatRequest, HandleAccept,
         HandleDecline, StartOpened, SendFrame, StreamStops, FinishSending, ReadFails,
         UserCancelsSend, HandleCancelAtSender
<1> QED BY <1>1, <1>2 DEF RoutesTypeOK

LEMMA SendingKeepsMessages ==
  ASSUME SendTypeOK, SlotInv, MessageInv, NEW f \in Files, Sending(f), UNCHANGED receiveVars
  PROVE  MessageInv'
<1> DEFINE Quiet == /\ Sent("accept-transfer")' \subseteq Sent("accept-transfer")
                    /\ Sent("decline-transfer")' \subseteq Sent("decline-transfer")
                    /\ Sent("last-ack")' \subseteq Sent("last-ack")
<1>0. {"accept-transfer", "decline-transfer", "last-ack"} \subseteq FileMsgs
  BY DEF FileMsgs
<1>1. ASSUME NEW t \in FileMsgs \ {"accept-transfer", "decline-transfer", "last-ack"},
             ctl' \subseteq ctl \cup {Msg(t, f)}
      PROVE  Quiet
  BY <1>0, <1>1, OneMessage
<1>2. ASSUME ctl' \subseteq ctl PROVE Quiet
  BY <1>0, <1>2, NoMessage
<1>3. CASE SendFile(f)
  <2>1. Quiet
    BY <1>1, <1>3 DEF SendFile, FileMsgs
  <2> QED BY <1>3, <2>1, SenderMessages DEF SendFile, SendTypeOK, Waiting
<1>4. CASE RepeatRequest(f)
  <2>1. Quiet
    BY <1>1, <1>2, <1>4 DEF RepeatRequest, FileMsgs
  <2> QED BY <1>4, <2>1, SenderMessages DEF RepeatRequest, Waiting
<1>5. CASE HandleAccept(f)
  <2>1. Quiet /\ frames' = frames
    BY <1>2, <1>5 DEF HandleAccept
  <2>2. f \in Sent("accept-transfer") /\ accepted' = accepted \cup {f}
    BY <1>5 DEF HandleAccept, Sent
  <2>3. CASE f \notin accepted /\ EnqueueAccepted(f)
    <3>1. PICK started \in SUBSET Files, status \in [Files -> Statuses] :
           /\ PumpEffect(started, Append(sendQueue, f), running, senders, status, streaming, stopped)
           /\ \A g \in Files \ {f} : status[g] = sStatus[g]
           /\ status[f] \in {"queued", sStatus[f]}
           /\ Elems(Append(sendQueue, f)) = Waiting \cup {f}
      BY <2>3, AcceptDoes
    <3>2. /\ Waiting' \cup opening' \subseteq Waiting \cup {f} \cup opening
          /\ \A g \in Files : sStatus'[g] = "declined" => sStatus[g] = "declined"
      BY <3>1, PumpMessages
    <3> QED BY <2>1, <2>2, <2>3, <3>2, SenderMessages
  <2>4. CASE UNCHANGED <<sStatus, sendQueue, running, opening, streaming, stopped>>
    BY <2>1, <2>2, <2>4, SenderMessages DEF Waiting
  <2> QED BY <1>5, <2>3, <2>4 DEF HandleAccept
<1>6. ASSUME NEW st \in Settled, NEW sending \in SUBSET streaming,
             Finished(f, st, sending), ctl' \subseteq ctl, frames' = frames, accepted' = accepted,
             st = "declined" => f \in Sent("decline-transfer")
      PROVE  MessageInv'
  <2>1. PICK started \in SUBSET Files :
          PumpEffect(started, sendQueue, running \ {f}, senders \ {f},
                     [sStatus EXCEPT ![f] = st], sending, stopped)
    BY <1>6, FinishedDoes
  <2>2. /\ Waiting' \cup opening' \subseteq Elems(sendQueue) \cup opening
        /\ \A g \in Files : sStatus'[g] = "declined" => [sStatus EXCEPT ![f] = st][g] = "declined"
    BY <2>1, PumpMessages
  <2>3. \A g \in Files : sStatus'[g] = "declined"
                           => sStatus[g] = "declined" \/ g \in Sent("decline-transfer")
    BY <1>6, <2>2 DEF SendTypeOK
  <2>4. Elems(sendQueue) = Waiting
    BY DEF Elems, Waiting
  <2>5. Quiet
    BY <1>2, <1>6
  <2> QED BY <1>6, <2>2, <2>3, <2>4, <2>5, SenderMessages
<1>7. ASSUME CancelSend(f), Quiet, frames' = frames, accepted' = accepted
      PROVE  MessageInv'
  <2>1. PICK started \in SUBSET Files :
          PumpEffect(started, sendQueue, running \ {f}, senders,
                     [sStatus EXCEPT ![f] = "cancelled"], streaming,
                     IF f \in senders THEN stopped \cup {f} ELSE stopped)
    BY <1>7, CancelDoes
  <2>2. /\ Waiting' \cup opening' \subseteq Elems(sendQueue) \cup opening
        /\ \A g \in Files : sStatus'[g] = "declined"
                              => [sStatus EXCEPT ![f] = "cancelled"][g] = "declined"
    BY <2>1, PumpMessages
  <2>3. \A g \in Files : sStatus'[g] = "declined" => sStatus[g] = "declined"
    BY <2>2 DEF SendTypeOK
  <2>4. Elems(sendQueue) = Waiting
    BY DEF Elems, Waiting
  <2> QED BY <1>7, <2>2, <2>3, <2>4, SenderMessages
<1>8. CASE HandleDecline(f)
  BY <1>6, <1>8 DEF HandleDecline, Settled, Sent
<1>9. CASE StartOpened(f)
  <2>1. Quiet
    BY <1>2, <1>9 DEF StartOpened, routeVars
  <2> QED BY <1>9, <2>1, SenderMessages DEF StartOpened, routeVars, Waiting
<1>10. CASE SendFrame(f)
  <2>1. Quiet
    BY <1>2, <1>10 DEF SendFrame
  <2>2. \A g \in Files : sStatus'[g] = "declined" => sStatus[g] = "declined"
    BY <1>10 DEF SendFrame, SendTypeOK
  <2> QED BY <1>10, <2>1, <2>2, SenderMessages DEF SendFrame, Waiting
<1>11. CASE StreamStops(f)
  <2>1. Quiet
    BY <1>2, <1>11 DEF StreamStops, routeVars
  <2> QED BY <1>11, <2>1, SenderMessages DEF StreamStops, routeVars, Waiting
<1>12. CASE FinishSending(f)
  <2>1. CASE Finished(f, "completed", streaming \ {f})
    BY <1>6, <1>12, <2>1 DEF FinishSending, Settled
  <2>2. CASE UNCHANGED <<sStatus, senders, timers, sendQueue, running, opening, streaming, stopped>>
    <3>1. Quiet
      BY <1>2, <1>12 DEF FinishSending
    <3> QED BY <1>12, <2>2, <3>1, SenderMessages DEF FinishSending, Waiting
  <2> QED BY <1>12, <2>1, <2>2 DEF FinishSending
<1>13. CASE ReadFails(f)
  BY <1>6, <1>13 DEF ReadFails, Settled, routeVars
<1>14. CASE UserCancelsSend(f)
  <2>1. Quiet
    BY <1>1, <1>14 DEF UserCancelsSend, FileMsgs
  <2> QED BY <1>7, <1>14, <2>1 DEF UserCancelsSend
<1>15. CASE HandleCancelAtSender(f)
  <2>1. Quiet
    BY <1>2, <1>15 DEF HandleCancelAtSender
  <2> QED BY <1>7, <1>15, <2>1 DEF HandleCancelAtSender
<1> HIDE DEF Quiet
<1> QED
  BY <1>3, <1>4, <1>5, <1>8, <1>9, <1>10, <1>11, <1>12, <1>13, <1>14, <1>15 DEF Sending

\* What the receiving side does to the agreement of the two ends.
LEMMA ReceiverMessages ==
  ASSUME MessageInv, UNCHANGED sendVars, revived => revived',
         \A f \in Files : rStatus[f] # "none" => rStatus'[f] # "none",
         asked \subseteq asked',
         \A f \in Sent("accept-transfer")' \ Sent("accept-transfer") : rStatus'[f] # "none",
         Sent("decline-transfer")' \subseteq Sent("decline-transfer") \cup asked,
         frames' \subseteq frames,
         early' \cup verifying' \subseteq frames \cup early \cup verifying,
         Sent("last-ack")' \subseteq Sent("last-ack") \cup verifying,
         ~revived' =>
           /\ \A f \in Files : rStatus[f] = "none" /\ rStatus'[f] # "none" => f \in Answering
           /\ Prompted' \cup Answering' \subseteq Prompted \cup Answering \cup (Files \ asked)
           /\ \A f \in Sent("decline-transfer")' \ Sent("decline-transfer") :
                rStatus'[f] = "none" /\ f \notin Prompted' \cup Answering'
  PROVE  MessageInv'
<1>1. UNCHANGED <<accepted, sStatus, opening>> /\ Waiting' = Waiting
  BY DEF sendVars, Waiting
<1>2. \A f \in Files :
        Msg("accept-transfer", f) \in ctl' \/ f \in accepted' => rStatus'[f] # "none"
  BY <1>1 DEF MessageInv, Sent
<1>3. ASSUME NEW f \in Files, Msg("decline-transfer", f) \in ctl' \/ sStatus'[f] = "declined"
      PROVE  /\ f \in asked'
             /\ ~revived' => rStatus'[f] = "none" /\ f \notin Prompted' \cup Answering'
  <2>1. CASE Msg("decline-transfer", f) \in ctl \/ sStatus[f] = "declined"
    BY <2>1 DEF MessageInv
  <2>2. CASE f \in Sent("decline-transfer")' \ Sent("decline-transfer")
    BY <2>2
  <2> QED BY <1>1, <1>3, <2>1, <2>2 DEF Sent
<1>4. \A f \in Files :
        f \in frames' \cup early' \cup verifying' \/ Msg("last-ack", f) \in ctl'
          => f \in accepted' \ (Waiting' \cup opening')
  BY <1>1 DEF MessageInv, Sent
<1> QED BY <1>2, <1>3, <1>4 DEF MessageInv

LEMMA ReceivingKeepsRoutes ==
  ASSUME RoutesTypeOK, NEW f \in Files, Receiving(f)
  PROVE  RoutesTypeOK'
<1>1. {"accept-transfer", "last-ack", "cancel-at-sender"} \subseteq FileMsgs
  BY DEF FileMsgs
<1>2. ctl' \subseteq ctl \cup {Msg("accept-transfer", f), Msg("last-ack", f),
                               Msg("cancel-at-sender", f)}
  BY DEF Receiving, HandleRequest, HandleFrame, VerificationEnds, FinishReceiving, VerifyFails,
         UserCancelsReceive, HandleCancelAtReceiver, routeVars
<1>3. frames' \subseteq frames /\ lost' = lost
  BY DEF Receiving, HandleRequest, HandleFrame, VerificationEnds, FinishReceiving, VerifyFails,
         UserCancelsReceive, HandleCancelAtReceiver, routeVars
<1> QED BY <1>1, <1>2, <1>3, MsgFacts DEF RoutesTypeOK

LEMMA ReceivingKeepsMessages ==
  ASSUME ReceiveTypeOK, PromptInv, MessageInv, NEW f \in Files, Receiving(f), UNCHANGED sendVars
  PROVE  MessageInv'
<1>0. {"accept-transfer", "decline-transfer", "last-ack", "cancel-at-sender"} \subseteq FileMsgs
  BY DEF FileMsgs
<1>1. CASE HandleRequest(f)
  <2>1. UNCHANGED <<frames, rStatus, early, verifying, revived>>
    BY <1>1 DEF HandleRequest
  <2>2. CASE /\ f \in receivers
             /\ ctl' = (ctl \ {Msg("request-transfer", f)}) \cup {Msg("accept-transfer", f)}
             /\ UNCHANGED <<asked, prompts, autoAccept, jobs>>
    <3>1. Prompted' = Prompted /\ Answering' = Answering
      BY <2>2 DEF Prompted, Answering, InJob
    <3>2. ctl' \subseteq ctl \cup {Msg("accept-transfer", f)}
      BY <2>2
    <3>3. /\ Sent("accept-transfer")' \subseteq Sent("accept-transfer") \cup {f}
          /\ Sent("decline-transfer")' \subseteq Sent("decline-transfer")
          /\ Sent("last-ack")' \subseteq Sent("last-ack")
      BY <1>0, <3>2, OneMessage
    <3>4. rStatus[f] # "none"
      BY <2>2 DEF PromptInv
    <3> QED BY <2>1, <2>2, <3>1, <3>3, <3>4, ReceiverMessages
  <2>3. CASE /\ ctl' = ctl \ {Msg("request-transfer", f)}
             /\ asked' = asked \cup {f}
             /\ Enqueue({f} \ asked)
    <3>1. /\ Sent("accept-transfer")' \subseteq Sent("accept-transfer")
          /\ Sent("decline-transfer")' \subseteq Sent("decline-transfer")
          /\ Sent("last-ack")' \subseteq Sent("last-ack")
      BY <1>0, <2>3, NoMessage
    <3> DEFINE files == {f} \ asked
    <3>2. /\ files \in SUBSET Files /\ files \cap Prompted = {}
          /\ Enqueue(files)
      BY <2>3 DEF PromptInv
    <3>3. files \subseteq Files \ asked
      OBVIOUS
    <3> HIDE DEF files
    <3>4. Prompted' \cup Answering' \subseteq Prompted \cup Answering \cup files
      BY <3>2, EnqueueKeeps
    <3> QED BY <2>1, <2>3, <3>1, <3>3, <3>4, ReceiverMessages
  <2> QED BY <1>1, <2>2, <2>3 DEF HandleRequest
<1>2. ASSUME UNCHANGED <<asked, prompts, jobs>>, frames' \subseteq frames, revived => revived',
             early' \cup verifying' \subseteq frames \cup early \cup verifying,
             \A g \in Files : rStatus'[g] = "none" <=> rStatus[g] = "none",
             NEW t \in {"last-ack", "cancel-at-sender"},
             ctl' \subseteq ctl \cup {Msg(t, f)},
             ctl' \subseteq ctl \/ t = "cancel-at-sender" \/ f \in verifying
      PROVE  MessageInv'
  <2>1. Prompted' = Prompted /\ Answering' = Answering
    BY <1>2 DEF Prompted, Answering, InJob
  <2>2. /\ Sent("accept-transfer")' \subseteq Sent("accept-transfer")
        /\ Sent("decline-transfer")' \subseteq Sent("decline-transfer")
        /\ Sent("last-ack")' \subseteq Sent("last-ack") \cup verifying
    BY <1>0, <1>2, OneMessage, NoMessage
  <2> QED BY <1>2, <2>1, <2>2, ReceiverMessages
<1>3. CASE HandleFrame(f)
  <2>1. \A g \in Files : rStatus'[g] = "none" <=> rStatus[g] = "none"
    BY <1>3 DEF HandleFrame, ReceiveTypeOK, PromptInv
  <2> QED BY <1>2, <1>3, <2>1 DEF HandleFrame
<1>4. f \in verifying => rStatus[f] # "none"
  BY DEF MessageInv
<1>5. CASE VerificationEnds(f)
  <2>1. \A g \in Files : rStatus'[g] = "none" <=> rStatus[g] = "none"
    BY <1>4, <1>5 DEF VerificationEnds, ReceiveTypeOK
  <2>2. UNCHANGED <<asked, prompts, jobs, early, ctl, frames>> /\ verifying' \subseteq verifying
    BY <1>5 DEF VerificationEnds, routeVars
  <2>3. revived => revived'
    BY <1>5 DEF VerificationEnds
  <2> QED BY <1>2, <2>1, <2>2, <2>3
<1>6. ASSUME f \in verifying, Forgotten(f)
      PROVE  \A g \in Files : rStatus'[g] = "none" <=> rStatus[g] = "none"
  BY <1>4, <1>6 DEF Forgotten, ReceiveTypeOK
<1>7. CASE FinishReceiving(f)
  <2>1. \A g \in Files : rStatus'[g] = "none" <=> rStatus[g] = "none"
    BY <1>6, <1>7 DEF FinishReceiving
  <2> QED BY <1>2, <1>7, <2>1 DEF FinishReceiving, Forgotten
<1>8. CASE VerifyFails(f)
  <2>1. \A g \in Files : rStatus'[g] = "none" <=> rStatus[g] = "none"
    BY <1>6, <1>8 DEF VerifyFails
  <2> QED BY <1>2, <1>8, <2>1 DEF VerifyFails, Forgotten
<1>9. ASSUME CancelReceive(f)
      PROVE  /\ \A g \in Files : rStatus'[g] = "none" <=> rStatus[g] = "none"
             /\ early' \subseteq early
  BY <1>9 DEF CancelReceive, ReceiveTypeOK
<1>10. CASE UserCancelsReceive(f)
  BY <1>2, <1>9, <1>10 DEF UserCancelsReceive
<1>11. CASE HandleCancelAtReceiver(f)
  BY <1>2, <1>9, <1>11 DEF HandleCancelAtReceiver
<1> QED BY <1>1, <1>3, <1>5, <1>7, <1>8, <1>10, <1>11 DEF Receiving

LEMMA PrepareKeepsMessages ==
  ASSUME RoutesTypeOK, ReceiveTypeOK, PromptInv, MessageInv, NEW b \in Batches,
         HandlePrepare(b), UNCHANGED sendVars
  PROVE  RoutesTypeOK' /\ MessageInv'
<1>1. /\ asked' = asked \cup (InBatch(b) \ receivers)
      /\ UNCHANGED <<rStatus, receivers, early, verifying, revived, frames, lost>>
      /\ ctl' \subseteq ctl \cup {Msg("accept-transfer", f) : f \in InBatch(b) \cap receivers}
  BY DEF HandlePrepare
<1>2. Prompted' \cup Answering' \subseteq Prompted \cup Answering \cup (Files \ asked)
  BY PrepareEnqueues
<1>3. {"accept-transfer", "decline-transfer", "last-ack"} \subseteq FileMsgs /\ InBatch(b) \subseteq Files
  BY DEF FileMsgs, InBatch
<1>4. /\ Sent("accept-transfer")' \subseteq Sent("accept-transfer") \cup receivers
      /\ Sent("decline-transfer")' \subseteq Sent("decline-transfer")
      /\ Sent("last-ack")' \subseteq Sent("last-ack")
  BY <1>1, <1>3, MsgFacts DEF Sent
<1>5. \A f \in receivers : rStatus[f] # "none"
  BY DEF PromptInv
<1>6. RoutesTypeOK'
  BY <1>1, <1>3, MsgFacts DEF RoutesTypeOK
<1>7. MessageInv'
  BY <1>1, <1>2, <1>4, <1>5, ReceiverMessages
<1> QED BY <1>6, <1>7

\* A loop registers its file and accepts it, or declines it; in turn, the file
\* has left the loop either way.
LEMMA JobKeepsMessages ==
  ASSUME RoutesTypeOK, ReceiveTypeOK, PromptInv, TurnInv, MessageInv, NEW job \in jobs,
         Register(job) \/ Refuse(job), UNCHANGED sendVars
  PROVE  RoutesTypeOK' /\ MessageInv'
<1> DEFINE f == job[1].file
<1>1. JobMovesOn(job)
  BY DEF Register, Refuse
<1>2. f \in Answering /\ Answering' \subseteq Answering
  BY <1>1, JobKeeps
<1>3. f \in Files /\ f \in asked /\ autoAccept
  BY <1>2 DEF Answering, PromptInv
<1>4. UNCHANGED <<asked, prompts, revived, frames, lost>> /\ Prompted' = Prompted
  BY DEF Register, Refuse, Prompted
<1>5. ~revived => /\ rStatus[f] = "none"
                  /\ f \notin Prompted' \cup Answering'
  <2>1. ~revived => Prompted = {}
    BY <1>3 DEF TurnInv, Prompted
  <2>2. ~revived => f \notin Answering'
    BY <1>1, JobInTurn
  <2> QED BY <1>2, <1>4, <2>1, <2>2 DEF TurnInv
<1>6. {"accept-transfer", "decline-transfer", "last-ack"} \subseteq FileMsgs
  BY DEF FileMsgs
<1>7. CASE Register(job)
  <2>1. ctl' = ctl \cup {Msg("accept-transfer", f)} /\ rStatus'[f] # "none"
        /\ \A g \in Files \ {f} : rStatus'[g] = rStatus[g]
    BY <1>3, <1>7 DEF Register, ReceiveTypeOK
  <2>2. early' \cup verifying' \subseteq early \cup verifying
    BY <1>7 DEF Register
  <2> HIDE DEF f
  <2>3. /\ Sent("accept-transfer")' \subseteq Sent("accept-transfer") \cup {f}
        /\ Sent("decline-transfer")' \subseteq Sent("decline-transfer")
        /\ Sent("last-ack")' \subseteq Sent("last-ack")
    BY <1>3, <1>6, <2>1, OneMessage
  <2>4. MessageInv'
    BY <1>2, <1>3, <1>4, <2>1, <2>2, <2>3, ReceiverMessages
  <2>5. RoutesTypeOK'
    BY <1>3, <1>4, <1>6, <2>1, MsgFacts DEF RoutesTypeOK
  <2> QED BY <2>4, <2>5
<1>8. CASE Refuse(job)
  <2>1. ctl' = ctl \cup {Msg("decline-transfer", f)} /\ UNCHANGED <<rStatus, early, verifying>>
    BY <1>8 DEF Refuse
  <2> HIDE DEF f
  <2>2. /\ Sent("accept-transfer")' \subseteq Sent("accept-transfer")
        /\ Sent("decline-transfer")' \subseteq Sent("decline-transfer") \cup {f}
        /\ Sent("last-ack")' \subseteq Sent("last-ack")
    BY <1>3, <1>6, <2>1, OneMessage
  <2>3. MessageInv'
    BY <1>2, <1>3, <1>4, <1>5, <2>1, <2>2, ReceiverMessages
  <2>4. RoutesTypeOK'
    BY <1>3, <1>4, <1>6, <2>1, MsgFacts DEF RoutesTypeOK
  <2> QED BY <2>3, <2>4
<1> QED BY <1>7, <1>8

\* What the user answers: the files of the prompt go to a loop, or are declined.
LEMMA UserKeepsMessages ==
  ASSUME RoutesTypeOK, ReceiveTypeOK, PromptInv, TurnInv, MessageInv,
         AcceptRequest \/ DeclineRequest \/ AutoAcceptEnds, UNCHANGED sendVars
  PROVE  RoutesTypeOK' /\ MessageInv'
<1>1. UNCHANGED <<rStatus, asked, early, verifying, revived, frames, lost>>
  BY DEF AcceptRequest, DeclineRequest, AutoAcceptEnds, routeVars
<1>2. {"accept-transfer", "decline-transfer", "last-ack"} \subseteq FileMsgs
  BY DEF FileMsgs
<1>3. CASE AcceptRequest
  <2>1. /\ ctl' = ctl
        /\ Prompted' \cup Answering' \subseteq Prompted \cup Answering
    BY <1>3, AcceptRequestDoes
  <2>2. /\ Sent("accept-transfer")' = Sent("accept-transfer")
        /\ Sent("decline-transfer")' = Sent("decline-transfer")
        /\ Sent("last-ack")' = Sent("last-ack")
    BY <2>1 DEF Sent
  <2>3. MessageInv'
    BY <1>1, <2>1, <2>2, ReceiverMessages
  <2> QED BY <1>1, <2>1, <2>3 DEF RoutesTypeOK
<1>4. CASE DeclineRequest
  <2>1. /\ ctl' = ctl \cup {Msg("decline-transfer", f) : f \in Prompted}
        /\ prompts # <<>> /\ prompts' = <<>> /\ jobs' = jobs
    BY <1>4 DEF DeclineRequest, Prompted
  <2>2. Prompted' = {} /\ Answering' = Answering
    BY <2>1 DEF Prompted, Answering, InJob
  <2>3. ~revived => Answering' = {}
    BY <2>1, <2>2 DEF TurnInv, PromptInv, Answering
  <2>4. Prompted \subseteq Files
    BY DEF Prompted, ReceiveTypeOK
  <2>5. /\ Sent("accept-transfer")' \subseteq Sent("accept-transfer")
        /\ Sent("decline-transfer")' \subseteq Sent("decline-transfer") \cup Prompted
        /\ Sent("last-ack")' \subseteq Sent("last-ack")
    BY <1>2, <2>1, <2>4, MsgFacts DEF Sent
  <2>6. /\ Prompted \subseteq asked
        /\ ~revived => \A f \in Prompted : rStatus[f] = "none"
    BY DEF PromptInv, TurnInv
  <2>7. MessageInv'
    BY <1>1, <2>2, <2>3, <2>5, <2>6, ReceiverMessages
  <2>8. RoutesTypeOK'
    BY <1>1, <1>2, <2>1, <2>4, MsgFacts DEF RoutesTypeOK
  <2> QED BY <2>7, <2>8
<1>5. CASE AutoAcceptEnds
  <2>1. UNCHANGED <<ctl, prompts, jobs>>
    BY <1>5 DEF AutoAcceptEnds, routeVars
  <2>2. Prompted' = Prompted /\ Answering' = Answering
    BY <2>1 DEF Prompted, Answering, InJob
  <2>3. /\ Sent("accept-transfer")' = Sent("accept-transfer")
        /\ Sent("decline-transfer")' = Sent("decline-transfer")
        /\ Sent("last-ack")' = Sent("last-ack")
    BY <2>1 DEF Sent
  <2>4. MessageInv'
    BY <1>1, <2>2, <2>3, ReceiverMessages
  <2> QED BY <1>1, <2>1, <2>4 DEF RoutesTypeOK
<1> QED BY <1>3, <1>4, <1>5

\* The manifest touches neither the queue nor what the two ends agree on.
LEMMA ManifestKeeps ==
  ASSUME RoutesTypeOK, SendTypeOK, SlotInv, MessageInv, NEW b \in Batches, SendManifest(b),
         UNCHANGED receiveVars
  PROVE  RoutesTypeOK' /\ SendTypeOK' /\ SlotInv' /\ MessageInv'
<1>1. /\ prepared' = prepared \cup {b} /\ ctl' = ctl \cup {PrepareUpload(b)}
      /\ UNCHANGED <<sStatus, senders, timers, attempts, accepted, sendQueue, running, opening,
                     streaming, stopped, frames, lost>>
  BY DEF SendManifest
<1>2. RoutesTypeOK'
  BY <1>1, PrepareFacts DEF RoutesTypeOK
<1>3. SendTypeOK'
  BY <1>1 DEF SendTypeOK
<1>4. SlotInv'
  BY <1>1 DEF SlotInv, Waiting
<1>5. \A u \in FileMsgs : Sent(u)' = Sent(u)
  BY <1>1, MsgFacts DEF Sent
<1>6. MessageInv'
  <2>1. {"accept-transfer", "decline-transfer", "last-ack"} \subseteq FileMsgs
    BY DEF FileMsgs
  <2>2. Waiting' = Waiting
    BY <1>1 DEF Waiting
  <2> QED BY <1>1, <1>5, <2>1, <2>2, SenderMessages
<1> QED BY <1>2, <1>3, <1>4, <1>6

\* A lost message takes nothing back that the two ends agree on.
LEMMA LossKeeps ==
  ASSUME RoutesTypeOK, MessageInv, NEW m \in ctl, LoseCtl(m), UNCHANGED <<sendVars, receiveVars>>
  PROVE  RoutesTypeOK' /\ MessageInv'
<1>1. ctl' \subseteq ctl /\ frames' = frames /\ lost' = lost + 1 /\ lost < MaxLost
  BY DEF LoseCtl
<1>2. RoutesTypeOK'
  BY <1>1, SessionAssumption DEF RoutesTypeOK
<1>3. /\ UNCHANGED <<sStatus, accepted, opening, rStatus, asked, early, verifying, revived>>
      /\ Waiting' = Waiting /\ Prompted' = Prompted /\ Answering' = Answering
  BY DEF sendVars, receiveVars, Waiting, Prompted, Answering, InJob
<1>4. MessageInv'
  BY <1>1, <1>3 DEF MessageInv
<1> QED BY <1>2, <1>4

-----------------------------------------------------------------------------
(* Sessions in which nobody cancels and every file can be read. *)

\* No message in flight is a cancel.
NoCancel == \A m \in ctl : m.type \notin {"cancel-at-sender", "cancel-at-receiver"}

\* A call of pumpAcceptedSenders leaves the slot to what opens or sends.
LEMMA UndisturbedAfterPump ==
  ASSUME UndisturbedInv,
         NEW queue, NEW busy, NEW known, NEW status \in [Files -> Statuses], NEW sending,
         NEW halted, NEW started \in SUBSET Files,
         PumpEffect(started, queue, busy, known, status, sending, halted),
         opening \cup sending \subseteq busy,
         senders' \subseteq Files,
         \A g \in senders' : status[g] \notin Settled,
         \A g \in Files : status[g] \in Settled => status[g] = "declined" \/ g \in accepted',
         NoCancel'
  PROVE  UndisturbedInv'
<1>1. opening' \cup streaming' \subseteq running'
  BY DEF PumpEffect
<1>2. \A g \in Files : sStatus'[g] \in Settled => sStatus'[g] = status[g]
  BY DEF PumpEffect, Settled
<1>3. \A g \in senders' : sStatus'[g] \notin Settled
  BY <1>2
<1> QED BY <1>1, <1>2, <1>3 DEF UndisturbedInv, NoCancel

LEMMA SendingKeepsUndisturbed ==
  ASSUME SendTypeOK, SlotInv, MessageInv, UndisturbedInv, NEW f \in Files, Sending(f),
         UNCHANGED receiveVars
  PROVE  UndisturbedInv'
<1> SUFFICES ASSUME Undisturbed, ~revived PROVE UndisturbedInv'
  BY DEF UndisturbedInv, Undisturbed, receiveVars
<1>1. /\ opening \cup streaming \subseteq running
      /\ NoCancel
      /\ \A g \in senders : sStatus[g] \notin Settled
      /\ \A g \in Files : sStatus[g] \in Settled => sStatus[g] = "declined" \/ g \in accepted
  BY DEF UndisturbedInv, NoCancel
<1>2. Msg("request-transfer", f).type = "request-transfer"
  BY DEF Msg
<1>3. CASE SendFile(f)
  <2>1. NoCancel'
    BY <1>1, <1>2, <1>3 DEF SendFile, NoCancel
  <2>2. sStatus'[f] \in {"waiting", "queued"} /\ \A g \in Files \ {f} : sStatus'[g] = sStatus[g]
    BY <1>3 DEF SendFile, SendTypeOK
  <2>3. /\ senders' = senders \cup {f}
        /\ UNCHANGED <<accepted, running, opening, streaming>>
    BY <1>3 DEF SendFile
  <2>4. \A g \in senders' : sStatus'[g] \notin Settled
    BY <1>1, <2>2, <2>3 DEF SendTypeOK, Settled
  <2> QED BY <1>1, <2>1, <2>2, <2>3, <2>4 DEF UndisturbedInv, NoCancel, Settled
<1>4. CASE RepeatRequest(f)
  <2>1. NoCancel'
    BY <1>1, <1>2, <1>4 DEF RepeatRequest, NoCancel
  <2> QED BY <1>1, <1>4, <2>1 DEF RepeatRequest, UndisturbedInv, NoCancel
<1>5. CASE HandleAccept(f)
  <2>1. NoCancel' /\ senders' = senders /\ accepted' = accepted \cup {f}
    BY <1>1, <1>5 DEF HandleAccept, NoCancel
  <2>2. CASE EnqueueAccepted(f) /\ f \notin accepted
    <3> DEFINE queue == Append(sendQueue, f)
    <3>1. PICK started \in SUBSET Files, status \in [Files -> Statuses] :
           /\ PumpEffect(started, Append(sendQueue, f), running, senders, status, streaming, stopped)
           /\ \A g \in Files \ {f} : status[g] = sStatus[g]
           /\ status[f] \in {"queued", sStatus[f]}
           /\ Elems(Append(sendQueue, f)) = Waiting \cup {f}
      BY <2>2, AcceptDoes
    <3>2. \A g \in Files : status[g] \in Settled => status[g] = sStatus[g]
      BY <3>1 DEF Settled
    <3>3. senders' \subseteq Files
      BY <2>1 DEF SendTypeOK
    <3>4. /\ \A g \in senders' : status[g] \notin Settled
          /\ \A g \in Files : status[g] \in Settled => status[g] = "declined" \/ g \in accepted'
      BY <1>1, <2>1, <3>2, <3>3
    <3>5. PumpEffect(started, queue, running, senders, status, streaming, stopped)
      BY <3>1
    <3> HIDE DEF queue
    <3> QED BY <1>1, <2>1, <3>1, <3>3, <3>4, <3>5, UndisturbedAfterPump
  <2>3. CASE UNCHANGED <<sStatus, sendQueue, running, opening, streaming, stopped>>
    BY <1>1, <2>1, <2>3 DEF UndisturbedInv, NoCancel
  <2> QED BY <1>5, <2>2, <2>3 DEF HandleAccept
<1>6. ASSUME NEW st \in {"declined", "completed"}, NEW sending, sending \subseteq streaming \ {f},
             Finished(f, st, sending), f \notin opening, ctl' \subseteq ctl, accepted' = accepted,
             st = "completed" => f \in accepted
      PROVE  UndisturbedInv'
  <2> DEFINE busy == running \ {f}
             known == senders \ {f}
             status == [sStatus EXCEPT ![f] = st]
  <2>1. status \in [Files -> Statuses]
    BY DEF SendTypeOK, Statuses, Settled
  <2>2. sending \in SUBSET streaming
    BY <1>6
  <2>3. PICK started \in SUBSET Files :
          PumpEffect(started, sendQueue, busy, known, status, sending, stopped)
    BY <1>6, <2>2, FinishedDoes DEF Settled
  <2>4. opening \cup sending \subseteq busy
    BY <1>1, <1>6
  <2>5. senders' = senders \ {f} /\ senders' \subseteq Files
    BY <1>6 DEF Finished, SendTypeOK
  <2>6. \A g \in senders' : status[g] \notin Settled
    BY <1>1, <2>5 DEF SendTypeOK
  <2>7. \A g \in Files : status[g] \in Settled => status[g] = "declined" \/ g \in accepted'
    BY <1>1, <1>6 DEF SendTypeOK
  <2>8. NoCancel'
    BY <1>1, <1>6 DEF NoCancel
  <2> HIDE DEF busy, known, status
  <2> QED BY <2>1, <2>3, <2>4, <2>5, <2>6, <2>7, <2>8, UndisturbedAfterPump
<1>7. CASE HandleDecline(f)
  <2>1. f \notin accepted
    BY <1>7 DEF HandleDecline, MessageInv
  <2>2. f \notin opening /\ streaming \subseteq streaming \ {f}
    BY <2>1 DEF SlotInv
  <2> QED BY <1>6, <1>7, <2>2 DEF HandleDecline
<1>8. CASE StartOpened(f)
  BY <1>1, <1>8 DEF StartOpened, UndisturbedInv, NoCancel, routeVars
<1>9. CASE SendFrame(f)
  <2>1. f \in senders
    BY <1>1, <1>9 DEF SendFrame, SlotInv
  <2>2. \A g \in Files : sStatus'[g] \in Settled => sStatus'[g] = sStatus[g]
    BY <1>9 DEF SendFrame, SendTypeOK, Settled
  <2>3. \A g \in senders' : sStatus'[g] \notin Settled
    BY <1>1, <1>9, <2>2 DEF SendFrame, SendTypeOK
  <2> QED BY <1>1, <1>9, <2>2, <2>3 DEF SendFrame, UndisturbedInv, NoCancel
<1>10. CASE StreamStops(f)
  BY <1>1, <1>10 DEF StreamStops, UndisturbedInv, NoCancel, routeVars
<1>11. CASE FinishSending(f)
  <2>1. f \in accepted /\ f \notin opening
    BY <1>11 DEF FinishSending, MessageInv
  <2>2. CASE Finished(f, "completed", streaming \ {f})
    BY <1>6, <1>11, <2>1, <2>2 DEF FinishSending
  <2>3. CASE UNCHANGED <<sStatus, senders, timers, sendQueue, running, opening, streaming, stopped>>
    BY <1>1, <1>11, <2>3 DEF FinishSending, UndisturbedInv, NoCancel
  <2> QED BY <1>11, <2>2, <2>3 DEF FinishSending
<1>12. ~ReadFails(f) /\ ~UserCancelsSend(f)
  BY DEF ReadFails, UserCancelsSend, Undisturbed
<1>13. ~HandleCancelAtSender(f)
  <2>1. Msg("cancel-at-sender", f).type = "cancel-at-sender"
    BY DEF Msg
  <2> QED BY <1>1, <2>1 DEF HandleCancelAtSender, NoCancel
<1> QED
  BY <1>3, <1>4, <1>5, <1>7, <1>8, <1>9, <1>10, <1>11, <1>12, <1>13 DEF Sending

\* Nothing but a cancel, which there is not, is sent back that could disturb.
LEMMA OthersKeepUndisturbed ==
  ASSUME UndisturbedInv, UNCHANGED <<sStatus, senders, accepted, running, opening, streaming>>,
         revived => revived', Undisturbed /\ ~revived => NoCancel'
  PROVE  UndisturbedInv'
BY DEF UndisturbedInv, NoCancel, Undisturbed

LEMMA ReceivingKeepsUndisturbed ==
  ASSUME UndisturbedInv, NEW f \in Files, Receiving(f), UNCHANGED sendVars
  PROVE  UndisturbedInv'
<1>1. ASSUME Undisturbed, ~revived PROVE NoCancel'
  <2>1. NoCancel
    BY <1>1 DEF UndisturbedInv, NoCancel
  <2>2. ~UserCancelsReceive(f)
    BY <1>1 DEF UserCancelsReceive, Undisturbed
  <2>3. ctl' \subseteq ctl \cup {Msg("accept-transfer", f), Msg("last-ack", f)}
    BY <2>2 DEF Receiving, HandleRequest, HandleFrame, VerificationEnds, FinishReceiving,
                VerifyFails, HandleCancelAtReceiver, routeVars
  <2>4. /\ Msg("accept-transfer", f).type = "accept-transfer"
        /\ Msg("last-ack", f).type = "last-ack"
    BY DEF Msg
  <2> QED BY <2>1, <2>3, <2>4 DEF NoCancel
<1>2. revived => revived'
  BY DEF Receiving, HandleRequest, HandleFrame, VerificationEnds, FinishReceiving, VerifyFails,
         UserCancelsReceive, HandleCancelAtReceiver
<1> QED BY <1>1, <1>2, OthersKeepUndisturbed DEF sendVars

\* The answers of the receiving side are acceptances and declines.
LEMMA AnsweringKeepsUndisturbed ==
  ASSUME UndisturbedInv, UNCHANGED sendVars, revived' = revived,
         NEW files,
         ctl' \subseteq ctl \cup {Msg("accept-transfer", f) : f \in files}
                            \cup {Msg("decline-transfer", f) : f \in files}
  PROVE  UndisturbedInv'
<1>1. ASSUME Undisturbed, ~revived PROVE NoCancel'
  <2>1. NoCancel
    BY <1>1 DEF UndisturbedInv, NoCancel
  <2> QED BY <2>1 DEF NoCancel, Msg
<1> QED BY <1>1, OthersKeepUndisturbed DEF sendVars

-----------------------------------------------------------------------------
(* The inductive invariant, and what a reader should know of it. *)

LEMMA SessionInvInit == Init => SessionInv
<1> SUFFICES ASSUME Init PROVE SessionInv
  OBVIOUS
<1> USE DEF Init, RoutesInit, SendInit, ReceiveInit
<1>1. SessionTypeOK
  <2>1. RoutesTypeOK
    BY SessionAssumption DEF RoutesTypeOK
  <2>2. SendTypeOK
    <3>1. 0 \in 0 .. MaxAttempts + 1
      BY AttemptsAssumption
    <3> QED BY <3>1 DEF SendTypeOK
  <2>3. ReceiveTypeOK
    <3>1. prompts \in Seq(Files)
      OBVIOUS
    <3>4. autoAccept \in BOOLEAN /\ revived \in BOOLEAN
      BY Zenon
    <3>2. rStatus \in [Files -> {"none", "queued", "transferring", "over"}]
      OBVIOUS
    <3>3. /\ jobs \subseteq Seq(Answers)
          /\ receivers \subseteq Files /\ asked \subseteq Files
          /\ early \subseteq Files /\ approved \subseteq Files /\ verifying \subseteq Files
      OBVIOUS
    <3> QED BY <3>1, <3>2, <3>3, <3>4 DEF ReceiveTypeOK
  <2> QED BY <2>1, <2>2, <2>3 DEF SessionTypeOK
<1>2. SlotInv
  BY AttemptsAssumption DEF SlotInv, Waiting
<1>3. Prompted = {} /\ Answering = {}
  BY DEF Prompted, Answering
<1>4. PromptInv /\ TurnInv
  BY <1>3 DEF PromptInv, TurnInv, OneLoopEach, NothingUnasked, HasActive
<1>5. MessageInv
  BY DEF MessageInv
<1>6. UndisturbedInv
  BY DEF UndisturbedInv, Settled
<1> QED BY <1>1, <1>2, <1>4, <1>5, <1>6 DEF SessionInv

\* One side's step leaves the other side's part alone.
LEMMA SendSideUnchanged ==
  ASSUME SendTypeOK, SlotInv, UNCHANGED sendVars
  PROVE  SendTypeOK' /\ SlotInv'
BY DEF sendVars, SendTypeOK, SlotInv, Waiting

LEMMA ReceiveSideUnchanged ==
  ASSUME ReceiveTypeOK, PromptInv, TurnInv, UNCHANGED receiveVars
  PROVE  ReceiveTypeOK' /\ PromptInv' /\ TurnInv'
<1>1. ReceiveTypeOK'
  BY DEF receiveVars, ReceiveTypeOK
<1>2. PromptInv' /\ TurnInv'
  BY OthersKeepAnswers DEF receiveVars, PromptInv, HasActive
<1> QED BY <1>1, <1>2

LEMMA SessionInvStep == SessionInv /\ [Next]_vars => SessionInv'
<1> SUFFICES ASSUME SessionInv, [Next]_vars PROVE SessionInv'
  OBVIOUS
<1> USE DEF SessionInv, SessionTypeOK
<1>1. CASE \E f \in Files : Sending(f) /\ UNCHANGED receiveVars
  BY <1>1, SendingKeepsRoutes, SendingKeepsSlot, SendingKeepsMessages, SendingKeepsUndisturbed,
     ReceiveSideUnchanged
<1>2. CASE \E b \in Batches : SendManifest(b) /\ UNCHANGED receiveVars
  <2>1. PICK b \in Batches : SendManifest(b) /\ UNCHANGED receiveVars
    BY <1>2
  <2>2. RoutesTypeOK' /\ SendTypeOK' /\ SlotInv' /\ MessageInv'
    BY <2>1, ManifestKeeps
  <2>3. UndisturbedInv'
    <3>1. Undisturbed /\ ~revived => NoCancel'
      BY <2>1, PrepareFacts DEF SendManifest, UndisturbedInv, NoCancel
    <3> QED BY <2>1, <3>1, OthersKeepUndisturbed DEF SendManifest, receiveVars
  <2> QED BY <2>1, <2>2, <2>3, ReceiveSideUnchanged
<1>3. CASE \E f \in Files : Receiving(f) /\ UNCHANGED sendVars
  BY <1>3, ReceivingKeepsRoutes, ReceivingKeepsAnswers, ReceivingKeepsMessages,
     ReceivingKeepsUndisturbed, SendSideUnchanged
<1>4. CASE \E b \in Batches : HandlePrepare(b) /\ UNCHANGED sendVars
  <2>1. PICK b \in Batches : HandlePrepare(b) /\ UNCHANGED sendVars
    BY <1>4
  <2>2. UndisturbedInv'
    <3>1. /\ ctl' \subseteq ctl \cup {Msg("accept-transfer", f) : f \in InBatch(b) \cap receivers}
          /\ revived' = revived
      BY <2>1 DEF HandlePrepare
    <3> QED BY <2>1, <3>1, AnsweringKeepsUndisturbed
  <2> QED BY <2>1, <2>2, PrepareKeepsAnswers, PrepareKeepsMessages, SendSideUnchanged
<1>5. CASE \E job \in jobs : (Register(job) \/ Refuse(job)) /\ UNCHANGED sendVars
  <2>1. PICK job \in jobs : (Register(job) \/ Refuse(job)) /\ UNCHANGED sendVars
    BY <1>5
  <2>2. UndisturbedInv'
    <3>1. /\ ctl' \subseteq ctl \cup {Msg("accept-transfer", f) : f \in {job[1].file}}
                                \cup {Msg("decline-transfer", f) : f \in {job[1].file}}
          /\ revived' = revived
      BY <2>1 DEF Register, Refuse
    <3> QED BY <2>1, <3>1, AnsweringKeepsUndisturbed
  <2> QED BY <2>1, <2>2, JobKeepsAnswers, JobKeepsMessages, SendSideUnchanged
<1>6. CASE (AcceptRequest \/ DeclineRequest \/ AutoAcceptEnds) /\ UNCHANGED sendVars
  <2>1. UndisturbedInv'
    <3>1. /\ ctl' \subseteq ctl \cup {Msg("decline-transfer", f) : f \in Prompted}
          /\ revived' = revived
      BY <1>6 DEF AcceptRequest, DeclineRequest, AutoAcceptEnds, routeVars, Prompted
    <3> QED BY <1>6, <3>1, AnsweringKeepsUndisturbed
  <2> QED BY <1>6, <2>1, UserKeepsAnswers, UserKeepsMessages, SendSideUnchanged
<1>7. CASE \E m \in ctl : LoseCtl(m) /\ UNCHANGED <<sendVars, receiveVars>>
  <2>1. PICK m \in ctl : LoseCtl(m) /\ UNCHANGED <<sendVars, receiveVars>>
    BY <1>7
  <2>2. UndisturbedInv'
    <3>1. Undisturbed /\ ~revived => NoCancel'
      BY <2>1 DEF LoseCtl, UndisturbedInv, NoCancel
    <3> QED BY <2>1, <3>1, OthersKeepUndisturbed DEF sendVars, receiveVars
  <2> QED BY <2>1, <2>2, LossKeeps, SendSideUnchanged, ReceiveSideUnchanged
<1>8. CASE UNCHANGED vars
  <2>1. UNCHANGED <<sendVars, receiveVars, ctl, frames, lost>>
    BY <1>8 DEF vars, routeVars
  <2>2. RoutesTypeOK' /\ MessageInv'
    BY <2>1 DEF RoutesTypeOK, MessageInv, sendVars, receiveVars, Waiting, Prompted, Answering,
                InJob
  <2>3. UndisturbedInv'
    BY <2>1 DEF UndisturbedInv, Undisturbed, sendVars, receiveVars
  <2> QED BY <2>1, <2>2, <2>3, SendSideUnchanged, ReceiveSideUnchanged
<1> QED BY <1>1, <1>2, <1>3, <1>4, <1>5, <1>6, <1>7, <1>8 DEF Next

\* Every reachable state of a session, with any number of files in any batches,
\* any number of repetitions and lost messages and any of the faults, agrees at
\* both ends in the way SessionInv says.
THEOREM SessionInvHolds == Spec => []SessionInv
<1> QED BY SessionInvInit, SessionInvStep, PTL DEF Spec

\* The queue of accepted files never stands still: no order of acceptances,
\* endings, declines and cancels leaves files waiting with no file before them
\* that sends or is about to.
THEOREM NoIdleSlotHolds == Spec => []NoIdleSlot
<1>1. SessionInv => NoIdleSlot
  BY DEF SessionInv, SlotInv, NoIdleSlot
<1> QED BY <1>1, SessionInvHolds, PTL

\* Nothing is sent before the other side has registered a receiver for it, and
\* a declined file is never sent unless a forgotten receiver went on while a
\* prompt was open.
THEOREM StreamOnlyAcceptedHolds == Spec => []StreamOnlyAccepted
<1>1. SessionInv => StreamOnlyAccepted
  BY DEF SessionInv, SessionTypeOK, SendTypeOK, SlotInv, MessageInv, StreamOnlyAccepted
<1> QED BY <1>1, SessionInvHolds, PTL

\* Until a forgotten receiver goes on while a prompt is open, no file is answered
\* by two loops, whatever the order in which its request, the repetitions and
\* the manifest arrive, and whatever verifications end behind an error.
THEOREM AnsweredOnceHolds == Spec => []AnsweredOnce
<1>1. SessionInv => AnsweredOnce
  BY DEF SessionInv, TurnInv, AnsweredOnce
<1> QED BY <1>1, SessionInvHolds, PTL

\* Nothing is received before the user has accepted a prompt.
THEOREM NothingUnaskedHolds == Spec => []NothingUnasked
<1>1. SessionInv => NothingUnasked
  BY DEF SessionInv, PromptInv
<1> QED BY <1>1, SessionInvHolds, PTL

\* As long as nobody cancels and every file can be read, at most one pipeline
\* of those not stopped sends.
THEOREM OneAtATimeHolds == Undisturbed => (Spec => []OneAtATime)
<1> SUFFICES ASSUME Undisturbed PROVE Spec => []OneAtATime
  OBVIOUS
<1>1. SessionInv => OneAtATime
  <2> SUFFICES ASSUME SessionInv, ~revived PROVE Cardinality(streaming \ stopped) <= 1
    BY Zenon DEF OneAtATime
  <2>1. streaming \ stopped \subseteq running
    BY DEF SessionInv, UndisturbedInv
  <2>2. running \subseteq Files /\ \A f, g \in running : f = g
    BY DEF SessionInv, SessionTypeOK, SendTypeOK, SlotInv
  <2>3. CASE streaming \ stopped = {}
    BY <2>3, FS_EmptySet
  <2>4. CASE streaming \ stopped # {}
    <3>1. PICK f : streaming \ stopped = {f}
      BY <2>1, <2>2, <2>4
    <3>2. Cardinality({f}) = 1
      BY FS_Singleton
    <3> QED BY <3>1, <3>2
  <2> QED BY <2>3, <2>4
<1> QED BY <1>1, SessionInvHolds, PTL

\* What a step of the sending side does to a settled file, when nothing disturbs:
\* whoever is given another status is known, and not settled, or was declined
\* before.
LEMMA SendingKeepsSettled ==
  ASSUME SessionInv, Undisturbed, ~revived, NEW f \in Files, Sending(f), NEW g \in Files,
         sStatus[g] \in Settled
  PROVE  sStatus'[g] = sStatus[g]
<1> USE DEF SessionInv, SessionTypeOK
<1>1. /\ g \notin senders /\ g \notin running /\ g \notin streaming
      /\ NoCancel
      /\ sStatus[g] = "declined" \/ g \in accepted
  <2>1. g \notin senders /\ NoCancel /\ (sStatus[g] = "declined" \/ g \in accepted)
    BY DEF UndisturbedInv, NoCancel
  <2>2. running \subseteq senders /\ streaming \subseteq running
    BY DEF SlotInv, UndisturbedInv
  <2> QED BY <2>1, <2>2
<1>2. CASE SendFile(f)
  BY <1>2 DEF SendFile, SendTypeOK, Settled
<1>3. CASE HandleAccept(f)
  <2>1. CASE f \in senders /\ EnqueueAccepted(f) /\ f \notin accepted
    <3>1. PICK started \in SUBSET Files, status \in [Files -> Statuses] :
           /\ PumpEffect(started, Append(sendQueue, f), running, senders, status, streaming, stopped)
           /\ \A h \in Files \ {f} : status[h] = sStatus[h]
           /\ status[f] \in {"queued", sStatus[f]}
           /\ Elems(Append(sendQueue, f)) = Waiting \cup {f}
      BY <2>1, AcceptDoes
    <3>2. started \subseteq senders /\ sStatus'[g] = IF g \in started THEN "transferring" ELSE status[g]
      BY <3>1 DEF PumpEffect
    <3> QED BY <1>1, <2>1, <3>1, <3>2
  <2> QED BY <1>3, <2>1 DEF HandleAccept
<1>4. ASSUME NEW st \in Settled, NEW sending \in SUBSET streaming, Finished(f, st, sending),
             g = f => sStatus[g] = st
      PROVE  sStatus'[g] = sStatus[g]
  <2>1. PICK started \in SUBSET Files :
          PumpEffect(started, sendQueue, running \ {f}, senders \ {f},
                     [sStatus EXCEPT ![f] = st], sending, stopped)
    BY <1>4, FinishedDoes
  <2>2. /\ started \subseteq senders
        /\ sStatus'[g] = IF g \in started THEN "transferring" ELSE [sStatus EXCEPT ![f] = st][g]
    BY <2>1 DEF PumpEffect
  <2> QED BY <1>1, <1>4, <2>2 DEF SendTypeOK
<1>5. CASE HandleDecline(f)
  <2>1. g = f => sStatus[g] = "declined"
    BY <1>1, <1>5 DEF HandleDecline, MessageInv
  <2> QED BY <1>4, <1>5, <2>1 DEF HandleDecline, Settled
<1>6. CASE SendFrame(f)
  BY <1>1, <1>6 DEF SendFrame, SendTypeOK
<1>7. CASE FinishSending(f)
  <2>1. CASE f \in senders /\ Finished(f, "completed", streaming \ {f})
    BY <1>1, <1>4, <2>1 DEF Settled
  <2> QED BY <1>7, <2>1 DEF FinishSending
<1>8. ~ReadFails(f) /\ ~UserCancelsSend(f)
  BY DEF ReadFails, UserCancelsSend, Undisturbed
<1>9. ~HandleCancelAtSender(f)
  <2>1. Msg("cancel-at-sender", f).type = "cancel-at-sender"
    BY DEF Msg
  <2> QED BY <1>1, <2>1 DEF HandleCancelAtSender, NoCancel
<1>10. CASE RepeatRequest(f) \/ StartOpened(f) \/ StreamStops(f)
  BY <1>10 DEF RepeatRequest, StartOpened, StreamStops
<1> QED BY <1>2, <1>3, <1>5, <1>6, <1>7, <1>8, <1>9, <1>10 DEF Sending

\* As long as nobody cancels and every file can be read, a file that is through
\* or was declined stays so, whatever is still in flight.
THEOREM SettledStaysHolds == Undisturbed => (Spec => SettledStays)
<1> SUFFICES ASSUME Undisturbed PROVE Spec => SettledStays
  OBVIOUS
<1>1. SessionInv /\ [Next]_vars
        => [~revived => \A f \in Files : sStatus[f] \in Settled => sStatus'[f] = sStatus[f]]_vars
  <2> SUFFICES ASSUME SessionInv, Next, ~revived, NEW g \in Files, sStatus[g] \in Settled
               PROVE  sStatus'[g] = sStatus[g]
    OBVIOUS
  <2>1. CASE \E f \in Files : Sending(f)
    BY <2>1, SendingKeepsSettled
  <2>2. CASE \E b \in Batches : SendManifest(b)
    BY <2>2 DEF SendManifest
  <2>3. CASE UNCHANGED sendVars
    BY <2>3 DEF sendVars
  <2> QED BY <2>1, <2>2, <2>3 DEF Next
<1> QED BY <1>1, SessionInvHolds, PTL DEF Spec, SettledStays
=============================================================================
