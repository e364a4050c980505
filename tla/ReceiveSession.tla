--------------------------- MODULE ReceiveSession ---------------------------
(***************************************************************************)
(* The receiving side of a session (services/network.ts): requests are     *)
(* shown to the user or accepted with the files before them, a writer is   *)
(* prepared (several awaits), the receiver registered and the request      *)
(* answered; frames go to the receiver, or are kept for one to come. A     *)
(* verification takes its time, and ends also when the service has         *)
(* forgotten the receiver.                                                 *)
(***************************************************************************)
EXTENDS SessionRoutes

VARIABLES
  rStatus,    \* transferFiles' status of each file, "over" however it ended
  receivers,  \* activeReceivers
  asked,      \* files with a `req_prompt:' key in seenCtl
  prompts,    \* incomingRequestsQueue
  autoAccept, \* the time in autoAcceptPeers is not over
  jobs,       \* the loops of respondToRequest under way, each with its files
  early,      \* files with frames in earlyFramesByTransferNum
  verifying,  \* files of which tryVerifyBlock has a block under way
  approved,   \* history: files the user has accepted at a prompt
  revived     \* history: a forgotten receiver went on while a prompt was open

receiveVars == <<rStatus, receivers, asked, prompts, autoAccept, jobs, early, verifying,
                 approved, revived>>

Answers == [file : Files, queued : BOOLEAN]

ReceiveTypeOK ==
  /\ rStatus \in [Files -> {"none", "queued", "transferring", "over"}]
  /\ receivers \subseteq Files
  /\ asked \subseteq Files
  /\ prompts \in Seq(Files)
  /\ autoAccept \in BOOLEAN
  /\ jobs \subseteq Seq(Answers)
  /\ early \subseteq Files
  /\ verifying \subseteq Files
  /\ approved \subseteq Files
  /\ revived \in BOOLEAN

ReceiveInit ==
  /\ rStatus = [f \in Files |-> "none"]
  /\ prompts = <<>>
  /\ autoAccept = FALSE
  /\ receivers = {} /\ asked = {} /\ jobs = {} /\ early = {} /\ verifying = {}
  /\ approved = {} /\ revived = FALSE

\* hasActiveReceiveFromPeer
HasActive == \E f \in Files : rStatus[f] \in {"queued", "transferring"}

-----------------------------------------------------------------------------
\* enqueueOrAutoAcceptIncomingRequest for the files of one message: accepted
\* without a prompt after the user accepted others, or while others are
\* received.
Enqueue(files) ==
  IF autoAccept \/ HasActive
  THEN /\ jobs' = jobs \cup {<<[file |-> f, queued |-> HasActive]>> : f \in files}
       /\ autoAccept' = (autoAccept \/ files # {})
       /\ UNCHANGED prompts
  ELSE /\ \E inOrder \in [1 .. Cardinality(files) -> files] :
            /\ \A i, j \in DOMAIN inOrder : i < j => inOrder[i] < inOrder[j]
            /\ prompts' = prompts \o inOrder
       /\ UNCHANGED <<jobs, autoAccept>>

\* A plausible bug: a request that was answered, or is being answered, counts as
\* new when it is repeated.
HandleRequestAgain(f) ==
  /\ Msg("request-transfer", f) \in ctl
  /\ \/ /\ f \in receivers
        /\ ctl' = (ctl \ {Msg("request-transfer", f)}) \cup {Msg("accept-transfer", f)}
        /\ UNCHANGED <<asked, prompts, autoAccept, jobs>>
     \/ /\ f \notin receivers
        /\ ctl' = ctl \ {Msg("request-transfer", f)}
        /\ asked' = asked \cup {f}
        /\ Enqueue({f} \ {prompts[i] : i \in DOMAIN prompts})
  /\ UNCHANGED <<rStatus, receivers, early, verifying, approved, revived, frames, lost>>

\* request-transfer: a file that is being received is accepted again; one that
\* was asked for before is ignored.
HandleRequest(f) ==
  /\ Msg("request-transfer", f) \in ctl
  /\ \/ /\ f \in receivers
        /\ ctl' = (ctl \ {Msg("request-transfer", f)}) \cup {Msg("accept-transfer", f)}
        /\ UNCHANGED <<asked, prompts, autoAccept, jobs>>
     \/ /\ f \notin receivers
        /\ ctl' = ctl \ {Msg("request-transfer", f)}
        /\ asked' = asked \cup {f}
        /\ Enqueue({f} \ asked)
  /\ UNCHANGED <<rStatus, receivers, early, verifying, approved, revived, frames, lost>>

\* prepare-upload: the same for every file of the batch. Then the summary of
\* the prompts, which starts with the first, is handed to
\* enqueueOrAutoAcceptIncomingRequest once more.
HandlePrepare(b) ==
  /\ PrepareUpload(b) \in ctl
  /\ ctl' = (ctl \ {PrepareUpload(b)})
              \cup {Msg("accept-transfer", f) : f \in InBatch(b) \cap receivers}
  /\ asked' = asked \cup (InBatch(b) \ receivers)
  /\ LET new == (InBatch(b) \ receivers) \ asked
     IN Enqueue(new \cup IF new # {} /\ prompts # <<>> /\ (autoAccept \/ HasActive)
                         THEN {prompts[1]} ELSE {})
  /\ UNCHANGED <<rStatus, receivers, early, verifying, approved, revived, frames, lost>>

\* autoAcceptPeers holds for 180 s, longer than it takes to answer a request.
AutoAcceptEnds ==
  /\ "expiry" \in Faults
  /\ autoAccept
  /\ jobs = {}
  /\ autoAccept' = FALSE
  /\ UNCHANGED <<rStatus, receivers, asked, prompts, jobs, early, verifying, approved, revived,
                 routeVars>>

-----------------------------------------------------------------------------
\* A plausible bug: the requests are accepted before there are receivers.
AcceptAtOnce ==
  /\ prompts # <<>>
  /\ jobs' = jobs \cup {[i \in DOMAIN prompts |-> [file |-> prompts[i], queued |-> i > 1]]}
  /\ approved' = approved \cup {prompts[i] : i \in DOMAIN prompts}
  /\ autoAccept' = TRUE
  /\ prompts' = <<>>
  /\ ctl' = ctl \cup {Msg("accept-transfer", prompts[i]) : i \in DOMAIN prompts}
  /\ UNCHANGED <<rStatus, receivers, asked, early, verifying, revived, frames, lost>>

\* acceptRequest: one loop answers all that the user was shown, in order.
AcceptRequest ==
  /\ prompts # <<>>
  /\ jobs' = jobs \cup {[i \in DOMAIN prompts |-> [file |-> prompts[i], queued |-> i > 1]]}
  /\ approved' = approved \cup {prompts[i] : i \in DOMAIN prompts}
  /\ autoAccept' = TRUE
  /\ prompts' = <<>>
  /\ UNCHANGED <<rStatus, receivers, asked, early, verifying, revived, routeVars>>

\* A plausible bug: either answer sets the time of autoAcceptPeers.
DeclineTrusts ==
  /\ prompts # <<>>
  /\ ctl' = ctl \cup {Msg("decline-transfer", prompts[i]) : i \in DOMAIN prompts}
  /\ autoAccept' = TRUE
  /\ prompts' = <<>>
  /\ UNCHANGED <<rStatus, receivers, asked, jobs, early, verifying, approved, revived, frames,
                 lost>>

\* declineRequest: all that the user was shown.
DeclineRequest ==
  /\ prompts # <<>>
  /\ ctl' = ctl \cup {Msg("decline-transfer", prompts[i]) : i \in DOMAIN prompts}
  /\ prompts' = <<>>
  /\ UNCHANGED <<rStatus, receivers, asked, autoAccept, jobs, early, verifying, approved, revived,
                 frames, lost>>

\* The loop goes on with its next file, or ends.
JobMovesOn(job) ==
  jobs' = (jobs \ {job}) \cup (IF Len(job) > 1 THEN {Tail(job)} ELSE {})

\* respondToRequest behind its last await: the receiver is registered, frames
\* that came too early are replayed, and the file is accepted.
Register(job) ==
  LET f == job[1].file IN
  /\ job \in jobs
  /\ JobMovesOn(job)
  /\ receivers' = receivers \cup {f}
  /\ rStatus' = [rStatus EXCEPT ![f] = IF job[1].queued THEN "queued" ELSE "transferring"]
  /\ early' = early \ {f}
  /\ verifying' = verifying \cup ({f} \cap early)
  /\ ctl' = ctl \cup {Msg("accept-transfer", f)}
  /\ UNCHANGED <<asked, prompts, autoAccept, approved, revived, frames, lost>>

\* checkStorageQuota finds too little space.
Refuse(job) ==
  /\ "quota" \in Faults
  /\ job \in jobs
  /\ JobMovesOn(job)
  /\ ctl' = ctl \cup {Msg("decline-transfer", job[1].file)}
  /\ UNCHANGED <<rStatus, receivers, asked, prompts, autoAccept, early, verifying, approved, revived,
                 frames, lost>>

-----------------------------------------------------------------------------
\* The frames of a block, which report progress or not, and let tryVerifyBlock
\* begin.
HandleFrame(f) ==
  /\ f \in frames
  /\ frames' = frames \ {f}
  /\ \/ /\ f \in receivers
        /\ rStatus' \in {rStatus, [rStatus EXCEPT ![f] = "transferring"]}
        /\ verifying' = verifying \cup {f}
        /\ UNCHANGED early
     \/ /\ f \notin receivers
        /\ early' = early \cup {f}
        /\ UNCHANGED <<rStatus, verifying>>
  /\ UNCHANGED <<receivers, asked, prompts, autoAccept, jobs, approved, revived, ctl, lost>>

\* A verification ends, with progress or with a block to be sent again; others
\* of the file may be under way. Nobody asks whether the service still knows
\* the receiver.
VerificationEnds(f) ==
  /\ f \in verifying
  /\ verifying' \in {verifying, verifying \ {f}}
  /\ \/ /\ rStatus' = [rStatus EXCEPT ![f] = "transferring"]
        /\ revived' = (revived \/ (f \notin receivers /\ prompts # <<>>))
     \/ UNCHANGED <<rStatus, revived>>
  /\ UNCHANGED <<receivers, asked, prompts, autoAccept, jobs, early, approved, routeVars>>

\* The service forgets a receiver, and the early frames of its file.
Forgotten(f) ==
  /\ receivers' = receivers \ {f}
  /\ early' = early \ {f}
  /\ rStatus' = [rStatus EXCEPT ![f] = "over"]

\* The last verification completes the file, one that was cancelled too.
FinishReceiving(f) ==
  /\ f \in verifying
  /\ verifying' = verifying \ {f}
  /\ Forgotten(f)
  /\ ctl' = ctl \cup {Msg("last-ack", f)}
  /\ UNCHANGED <<asked, prompts, autoAccept, jobs, approved, revived, frames, lost>>

\* onError: a block fails its verification once too often, or its write does, as
\* behind a cancel's abort. Verifications of other blocks are left to go on.
VerifyFails(f) ==
  /\ "verify" \in Faults \/ f \notin receivers
  /\ f \in verifying
  /\ verifying' \in {verifying, verifying \ {f}}
  /\ Forgotten(f)
  /\ UNCHANGED <<asked, prompts, autoAccept, jobs, approved, revived, ctl, frames, lost>>

\* cancelTransfer at the receiving side: the service forgets the receiver, which
\* is not told; early frames are dropped only with a receiver, and a file that
\* is not registered yet is not known.
CancelReceive(f) ==
  /\ receivers' = receivers \ {f}
  /\ early' = IF f \in receivers THEN early \ {f} ELSE early
  /\ rStatus' = IF rStatus[f] = "none" THEN rStatus ELSE [rStatus EXCEPT ![f] = "over"]

UserCancelsReceive(f) ==
  /\ "cancel" \in Faults
  /\ f \in receivers
  /\ CancelReceive(f)
  /\ ctl' = ctl \cup {Msg("cancel-at-sender", f)}
  /\ UNCHANGED <<asked, prompts, autoAccept, jobs, verifying, approved, revived, frames, lost>>

HandleCancelAtReceiver(f) ==
  /\ Msg("cancel-at-receiver", f) \in ctl
  /\ ctl' = ctl \ {Msg("cancel-at-receiver", f)}
  /\ CancelReceive(f)
  /\ UNCHANGED <<asked, prompts, autoAccept, jobs, verifying, approved, revived, frames, lost>>
=============================================================================
