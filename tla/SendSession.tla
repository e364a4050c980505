---------------------------- MODULE SendSession ----------------------------
(***************************************************************************)
(* The sending side of a session (services/network.ts): files are          *)
(* announced, requests are repeated, and accepted files are queued and     *)
(* started one at a time. A pipeline is known by whether it runs.          *)
(***************************************************************************)
EXTENDS SessionRoutes

CONSTANT MaxAttempts  \* how often a request is repeated (30)

ASSUME AttemptsAssumption == MaxAttempts \in Nat

VARIABLES
  sStatus,    \* transferFiles' status of each file
  senders,    \* activeSenders
  timers,     \* requestRetryTimers
  attempts,   \* how often each timer has fired
  prepared,   \* the batches whose prepare-upload is sent
  accepted,   \* files with an `accepted:' key in seenCtl
  sendQueue,  \* acceptedSendQueue
  running,    \* runningSendersPerPeer
  opening,    \* files that wait for a data channel (whenDataOpen)
  streaming,  \* files whose pipeline sends, and resends what is not acknowledged
  stopped     \* files whose pipeline has isCancelled set

sendVars == <<sStatus, senders, timers, attempts, prepared, accepted, sendQueue, running,
              opening, streaming, stopped>>

Settled == {"completed", "failed", "declined", "cancelled"}

SendTypeOK ==
  /\ sStatus \in [Files -> {"none", "waiting", "queued", "transferring"} \cup Settled]
  /\ senders \subseteq Files
  /\ timers \subseteq Files
  /\ attempts \in [Files -> 0 .. MaxAttempts + 1]
  /\ prepared \subseteq Batches
  /\ accepted \subseteq Files
  /\ sendQueue \in Seq(Files)
  /\ running \subseteq Files
  /\ opening \subseteq Files
  /\ streaming \subseteq Files
  /\ stopped \subseteq Files

SendInit ==
  /\ sStatus = [f \in Files |-> "none"]
  /\ attempts = [f \in Files |-> 0]
  /\ sendQueue = <<>>
  /\ senders = {} /\ timers = {} /\ prepared = {} /\ accepted = {}
  /\ running = {} /\ opening = {} /\ streaming = {} /\ stopped = {}

-----------------------------------------------------------------------------
FirstOfBatch(f) == \A g \in InBatch(BatchOf[f]) : f <= g

\* sendFile: only the first file of a batch repeats its request.
SendFile(f) ==
  /\ sStatus[f] = "none"
  /\ \A g \in InBatch(BatchOf[f]) : g < f => sStatus[g] # "none"
  /\ sStatus' = [sStatus EXCEPT ![f] = IF FirstOfBatch(f) THEN "waiting" ELSE "queued"]
  /\ senders' = senders \cup {f}
  /\ timers' = IF FirstOfBatch(f) THEN timers \cup {f} ELSE timers
  /\ ctl' = ctl \cup {Msg("request-transfer", f)}
  /\ UNCHANGED <<attempts, prepared, accepted, sendQueue, running, opening, streaming, stopped,
                 frames, lost>>

\* The end of sendFiles: the manifest of a batch of several files.
SendManifest(b) ==
  /\ b \notin prepared
  /\ Cardinality(InBatch(b)) > 1
  /\ \A f \in InBatch(b) : sStatus[f] # "none"
  /\ prepared' = prepared \cup {b}
  /\ ctl' = ctl \cup {PrepareUpload(b)}
  /\ UNCHANGED <<sStatus, senders, timers, attempts, accepted, sendQueue, running, opening,
                 streaming, stopped, frames, lost>>

\* A plausible bug: the number of attempts is not limited.
RepeatForever(f) ==
  /\ f \in timers
  /\ sStatus[f] \in {"waiting", "queued"}
  /\ attempts' = [attempts EXCEPT ![f] = @ + 1]
  /\ ctl' = ctl \cup {Msg("request-transfer", f)}
  /\ UNCHANGED <<sStatus, senders, timers, prepared, accepted, sendQueue, running, opening,
                 streaming, stopped, frames, lost>>

\* The retry timer of a request.
RepeatRequest(f) ==
  /\ f \in timers
  /\ attempts' = [attempts EXCEPT ![f] = @ + 1]
  /\ \/ /\ sStatus[f] \in {"waiting", "queued"}
        /\ attempts[f] < MaxAttempts
        /\ ctl' = ctl \cup {Msg("request-transfer", f)}
        /\ UNCHANGED timers
     \/ /\ sStatus[f] \notin {"waiting", "queued"} \/ attempts[f] = MaxAttempts
        /\ timers' = timers \ {f}
        /\ UNCHANGED ctl
  /\ UNCHANGED <<sStatus, senders, prepared, accepted, sendQueue, running, opening, streaming,
                 stopped, frames, lost>>

-----------------------------------------------------------------------------
\* sender.start(), at once or when the data channel is open.
Start(f, sending, halted) ==
  \/ /\ streaming' = sending \cup {f}
     /\ stopped' = halted \ {f}
     /\ UNCHANGED opening
  \/ /\ opening' = opening \cup {f}
     /\ streaming' = sending
     /\ stopped' = halted

\* The first file in the queue whose sender is still there is started if there
\* is room for it. The arguments after `room' are the values of sendQueue,
\* running, activeSenders, the statuses, streaming and stopped at the call.
PumpIf(room, queue, busy, known, status, sending, halted) ==
  \/ /\ ~room \/ \A i \in DOMAIN queue : queue[i] \notin known
     /\ sendQueue' = IF room THEN <<>> ELSE queue
     /\ running' = busy
     /\ sStatus' = status
     /\ streaming' = sending
     /\ stopped' = halted
     /\ UNCHANGED opening
  \/ /\ room
     /\ \E i \in DOMAIN queue :
          /\ queue[i] \in known
          /\ \A j \in 1 .. i - 1 : queue[j] \notin known
          /\ sendQueue' = SubSeq(queue, i + 1, Len(queue))
          /\ running' = busy \cup {queue[i]}
          /\ sStatus' = [status EXCEPT ![queue[i]] = "transferring"]
          /\ Start(queue[i], sending, halted)

\* A plausible bug: room for a second file.
PumpTwo(queue, busy, known, status, sending, halted) ==
  PumpIf(Cardinality(busy) <= 1, queue, busy, known, status, sending, halted)

\* pumpAcceptedSenders: there is room when no file is running.
PumpAccepted(queue, busy, known, status, sending, halted) ==
  PumpIf(busy = {}, queue, busy, known, status, sending, halted)

\* A plausible bug: the queue is not looked at when a file is through.
FinishedIdle(f, st, sending) ==
  /\ timers' = timers \ {f}
  /\ senders' = senders \ {f}
  /\ running' = running \ {f}
  /\ sStatus' = [sStatus EXCEPT ![f] = st]
  /\ streaming' = sending
  /\ UNCHANGED <<sendQueue, opening, stopped>>

\* The service forgets the sender of f, its status becomes st, and
\* onSenderFinished lets the next file start.
Finished(f, st, sending) ==
  /\ timers' = timers \ {f}
  /\ senders' = senders \ {f}
  /\ PumpAccepted(sendQueue, running \ {f}, senders \ {f}, [sStatus EXCEPT ![f] = st],
                  sending, stopped)

\* enqueueAcceptedSender, for a file that is neither queued nor running.
EnqueueAccepted(f) ==
  PumpAccepted(Append(sendQueue, f), running, senders,
               IF running # {} THEN [sStatus EXCEPT ![f] = "queued"] ELSE sStatus,
               streaming, stopped)

\* accept-transfer: the first acceptance of a file puts it into the queue.
HandleAccept(f) ==
  /\ Msg("accept-transfer", f) \in ctl
  /\ ctl' = ctl \ {Msg("accept-transfer", f)}
  /\ timers' = timers \ {f}
  /\ accepted' = accepted \cup {f}
  /\ \/ /\ f \notin accepted
        /\ f \in senders
        /\ EnqueueAccepted(f)
     \/ /\ f \in accepted \/ f \notin senders
        /\ UNCHANGED <<sStatus, sendQueue, running, opening, streaming, stopped>>
  /\ UNCHANGED <<senders, attempts, prepared, frames, lost>>

\* decline-transfer: the pipeline is left alone; it was not started, unless the file
\* was accepted as well (AnsweredOnce).
HandleDecline(f) ==
  /\ Msg("decline-transfer", f) \in ctl
  /\ ctl' = ctl \ {Msg("decline-transfer", f)}
  /\ Finished(f, "declined", streaming)
  /\ UNCHANGED <<attempts, prepared, accepted, frames, lost>>

-----------------------------------------------------------------------------
\* The wait for a data channel ends, by success or after 450 ms.
StartOpened(f) ==
  /\ f \in opening
  /\ opening' = opening \ {f}
  /\ streaming' = streaming \cup {f}
  /\ stopped' = stopped \ {f}
  /\ UNCHANGED <<sStatus, senders, timers, attempts, prepared, accepted, sendQueue, running,
                 routeVars>>

\* A pipeline sends a chunk and reports progress, which sets the status.
SendFrame(f) ==
  /\ f \in streaming
  /\ f \notin frames
  /\ frames' = frames \cup {f}
  /\ sStatus' = [sStatus EXCEPT ![f] = "transferring"]
  /\ UNCHANGED <<senders, timers, attempts, prepared, accepted, sendQueue, running, opening,
                 streaming, stopped, ctl, lost>>

\* A cancelled pipeline ends at its next look at the flag.
StreamStops(f) ==
  /\ f \in streaming \cap stopped
  /\ streaming' = streaming \ {f}
  /\ UNCHANGED <<sStatus, senders, timers, attempts, prepared, accepted, sendQueue, running,
                 opening, stopped, routeVars>>

\* A plausible bug: the pipeline does not note that it is complete.
FinishSendingOn(f) ==
  /\ Msg("last-ack", f) \in ctl
  /\ ctl' = ctl \ {Msg("last-ack", f)}
  /\ f \in senders
  /\ Finished(f, "completed", streaming)
  /\ UNCHANGED <<attempts, prepared, accepted, frames, lost>>

\* The last acknowledgement: onFileCompleted, if the service still knows the
\* sender.
FinishSending(f) ==
  /\ Msg("last-ack", f) \in ctl
  /\ ctl' = ctl \ {Msg("last-ack", f)}
  /\ \/ /\ f \in senders
        /\ Finished(f, "completed", streaming \ {f})
     \/ /\ f \notin senders
        /\ UNCHANGED <<sStatus, senders, timers, sendQueue, running, opening, streaming, stopped>>
  /\ UNCHANGED <<attempts, prepared, accepted, frames, lost>>

\* Reading the file fails: onError. The pipeline is not cancelled; it goes on
\* when blocks it has sent are still to be acknowledged.
ReadFails(f) ==
  /\ "read" \in Faults
  /\ f \in streaming
  /\ Finished(f, "failed", streaming) \/ Finished(f, "failed", streaming \ {f})
  /\ UNCHANGED <<attempts, prepared, accepted, routeVars>>

\* A plausible bug: a cancel does not let the next file start.
CancelSendIdle(f) ==
  /\ timers' = timers \ {f}
  /\ senders' = senders \ {f}
  /\ running' = running \ {f}
  /\ sStatus' = [sStatus EXCEPT ![f] = "cancelled"]
  /\ stopped' = IF f \in senders THEN stopped \cup {f} ELSE stopped
  /\ UNCHANGED <<sendQueue, opening, streaming>>

\* cancelTransfer at the sending side. The next file is started before the
\* sender is forgotten.
CancelSend(f) ==
  /\ timers' = timers \ {f}
  /\ senders' = senders \ {f}
  /\ PumpAccepted(sendQueue, running \ {f}, senders, [sStatus EXCEPT ![f] = "cancelled"],
                  streaming, IF f \in senders THEN stopped \cup {f} ELSE stopped)

UserCancelsSend(f) ==
  /\ "cancel" \in Faults
  /\ sStatus[f] \in {"waiting", "queued", "transferring"}
  /\ f \in senders
  /\ CancelSend(f)
  /\ ctl' = ctl \cup {Msg("cancel-at-receiver", f)}
  /\ UNCHANGED <<attempts, prepared, accepted, frames, lost>>

HandleCancelAtSender(f) ==
  /\ Msg("cancel-at-sender", f) \in ctl
  /\ ctl' = ctl \ {Msg("cancel-at-sender", f)}
  /\ CancelSend(f)
  /\ UNCHANGED <<attempts, prepared, accepted, frames, lost>>
=============================================================================
