----------------------------- MODULE FileSender -----------------------------
(***************************************************************************)
(* FileSenderPipeline: cuts a file into blocks and chunks, keeps a window  *)
(* of credits, and resends a block until its acknowledgement arrives.      *)
(*                                                                         *)
(* JavaScript runs a handler to its next await without interruption, so a  *)
(* step here is the code between two awaits of the pump, or one whole      *)
(* handler.  The pump's position is pump.at:                               *)
(*   idle   the pump is not running (inFlight = false);                    *)
(*   gate   it awaits the block's bytes or the previous chunk, and is      *)
(*          about to look at the flags;                                    *)
(*   held   it waits for the end of a pause;                               *)
(*   send   it looked at the flags and awaits room in the buffer;          *)
(*   end    it awaits the last chunk and is about to send the block's end; *)
(*   arm    it awaits the in-band end frame, then sets the watchdog.       *)
(***************************************************************************)
EXTENDS TransferRoutes, SequencesExt

CONSTANTS
  InitialCredits,  \* DEFAULT_CREDIT_WINDOW_BLOCKS
  MaxCredits,      \* MAX_CREDIT_WINDOW_BLOCKS
  MaxPauses,       \* bound: pauses by the user
  ReadsFail        \* whether the file can become unreadable while it is sent

ASSUME SenderAssumption ==
  /\ InitialCredits \in Nat \ {0}
  /\ MaxCredits \in Nat
  /\ InitialCredits <= MaxCredits
  /\ MaxPauses \in Nat
  /\ ReadsFail \in BOOLEAN

VARIABLES
  pending,     \* pendingBlocks
  credits,     \* availableCredits
  acked,       \* acknowledgedBlocks
  timers,      \* blocks with a running watchdog in blockAckTimers
  prefetched,  \* prefetchedBlocks
  pump,        \* where pump() and sendBlock() are
  paused,      \* isPaused
  cancelled,   \* isCancelled
  completed,   \* isCompleted
  started,     \* start() has been called
  txActive,    \* the pipeline is in the service's activeSenders
  pauses       \* pauses so far (at most MaxPauses)

senderVars == <<pending, credits, acked, timers, prefetched, pump, paused,
                cancelled, completed, started, txActive, pauses>>

PumpAt == {"idle", "gate", "held", "send", "end", "arm"}
Idle   == [at |-> "idle", block |-> 0, chunk |-> 0]

SenderTypeOK ==
  /\ pending \in Seq(Blocks)
  /\ credits \in 0 .. MaxCredits
  /\ acked \subseteq Blocks
  /\ timers \subseteq Blocks
  /\ prefetched \subseteq Blocks
  /\ pump \in [at : PumpAt, block : Blocks, chunk : Chunks]
  /\ paused \in BOOLEAN
  /\ cancelled \in BOOLEAN
  /\ completed \in BOOLEAN
  /\ started \in BOOLEAN
  /\ txActive \in BOOLEAN
  /\ pauses \in Nat

SenderInit ==
  /\ pending = [i \in 1 .. NumBlocks |-> i - 1]
  /\ credits = InitialCredits
  /\ acked = {}
  /\ timers = {}
  /\ prefetched = {}
  /\ pump = Idle
  /\ paused = FALSE
  /\ cancelled = FALSE
  /\ completed = FALSE
  /\ started = FALSE
  /\ txActive = TRUE
  /\ pauses = 0

-----------------------------------------------------------------------------
\* Positions of the queue whose block still has to be sent.
Unacked(queue) == {i \in DOMAIN queue : queue[i] \notin acked}

\* The prefetch cache after the pump took block b with `rest' behind it: the
\* next block is read ahead (at most two at a time), b's own entry is used up.
Prefetch(b, rest) ==
  LET next == IF rest = <<>> THEN {} ELSE {Head(rest)} \ acked
      more == IF Cardinality(prefetched) >= 2 THEN {} ELSE next
  IN  (prefetched \cup more) \ {b}

\* Mutant of TakeBlock: the block costs nothing.
TakeBlockFree(queue, i, cred) ==
  LET rest == SubSeq(queue, i + 1, Len(queue)) IN
  /\ pending' = rest
  /\ credits' = cred
  /\ prefetched' = Prefetch(queue[i], rest)
  /\ pump' = [at |-> "gate", block |-> queue[i], chunk |-> 0]

\* Take the block at position i of the queue, for one credit.
TakeBlock(queue, i, cred) ==
  LET rest == SubSeq(queue, i + 1, Len(queue)) IN
  /\ pending' = rest
  /\ credits' = cred - 1
  /\ prefetched' = Prefetch(queue[i], rest)
  /\ pump' = [at |-> "gate", block |-> queue[i], chunk |-> 0]

\* pump() up to its first await, or its loop from one await to the next: take
\* the first block not yet acknowledged.
Pump(queue, cred, halt) ==
  \/ /\ halt \/ cred = 0
     /\ pending' = queue
     /\ credits' = cred
     /\ pump' = Idle
     /\ UNCHANGED prefetched
  \/ /\ ~halt
     /\ cred > 0
     /\ Unacked(queue) = {}
     /\ pending' = <<>>
     /\ credits' = cred
     /\ pump' = Idle
     /\ UNCHANGED prefetched
  \/ /\ ~halt
     /\ cred > 0
     /\ \E i \in Unacked(queue) :
          /\ \A j \in Unacked(queue) : i <= j
          /\ TakeBlock(queue, i, cred)

\* `if (!this.inFlight) void this.pump()', after the queue or credits changed.
KickPump(queue, cred, halt) ==
  \/ pump.at = "idle" /\ Pump(queue, cred, halt)
  \/ /\ pump.at # "idle"
     /\ pending' = queue
     /\ credits' = cred
     /\ UNCHANGED <<pump, prefetched>>

\* retryBlock: the block goes to the head of the queue, one credit is forced,
\* and a pause ends.
RetryBlock(b) ==
  /\ timers' = timers \ {b}
  /\ \/ /\ b \in acked \/ completed \/ cancelled
        /\ UNCHANGED <<pending, credits, paused, pump, prefetched>>
     \/ /\ ~(b \in acked \/ completed \/ cancelled)
        /\ paused' = FALSE
        /\ KickPump(IF Contains(pending, b) THEN pending ELSE <<b>> \o pending,
                    IF credits = 0 THEN 1 ELSE credits, FALSE)

-----------------------------------------------------------------------------
\* start(), 0 to 450 ms after the receiver accepted: it also undoes a cancel.
Start ==
  /\ ~started
  /\ started' = TRUE
  /\ paused' = FALSE
  /\ cancelled' = FALSE
  /\ KickPump(pending, credits, completed)
  /\ UNCHANGED <<acked, timers, completed, txActive, pauses, data, ctl>>

\* sendBlock's loop, before each chunk: leave if the transfer is over (while
\* held only a cancel is noticed), wait while it is paused.
ChunkGate ==
  /\ pump.at \in {"gate", "held"}
  /\ \/ /\ cancelled \/ (completed /\ (pump.at = "gate" \/ ~paused))
        /\ Pump(pending, credits, TRUE)
     \/ /\ ~(cancelled \/ completed)
        /\ pump.at = "gate" \/ ~paused
        /\ pump' = [pump EXCEPT !.at = IF paused THEN "held" ELSE "send"]
        /\ UNCHANGED <<pending, credits, prefetched>>
  /\ UNCHANGED <<acked, timers, paused, cancelled, completed, started,
                 txActive, pauses, data, ctl>>

\* The block's bytes cannot be read: pump() reports the error and stops, and
\* the service forgets the pipeline without cancelling it.
ReadFails ==
  /\ ReadsFail
  /\ pump.at = "gate"
  /\ pump.chunk = 0
  /\ pump' = Idle
  /\ txActive' = FALSE
  /\ UNCHANGED <<pending, credits, acked, timers, prefetched, paused, cancelled,
                 completed, started, pauses, data, ctl>>

\* Mutant of SendChunk: one chunk too many.
SendChunkTooMany ==
  /\ pump.at = "send"
  /\ data' = Sent(data, Chunk(pump.block, pump.chunk))
  /\ pump' = IF pump.chunk + 1 <= NumChunks
             THEN [pump EXCEPT !.at = "gate", !.chunk = @ + 1]
             ELSE [pump EXCEPT !.at = "end"]
  /\ UNCHANGED <<pending, credits, acked, timers, prefetched, paused, cancelled,
                 completed, started, txActive, pauses, ctl>>

\* One chunk goes out; the flags are not looked at again after the buffer wait.
SendChunk ==
  /\ pump.at = "send"
  /\ data' = Sent(data, Chunk(pump.block, pump.chunk))
  /\ pump' = IF pump.chunk + 1 < NumChunks
             THEN [pump EXCEPT !.at = "gate", !.chunk = @ + 1]
             ELSE [pump EXCEPT !.at = "end"]
  /\ UNCHANGED <<pending, credits, acked, timers, prefetched, paused, cancelled,
                 completed, started, txActive, pauses, ctl>>

\* The block's end goes out twice: over ctl, and in band behind its chunks.
SendBlockEnd ==
  /\ pump.at = "end"
  /\ ctl' = Sent(ctl, BlockEnd(pump.block))
  /\ data' = Sent(data, InBandEnd(pump.block))
  /\ pump' = [pump EXCEPT !.at = "arm"]
  /\ UNCHANGED <<pending, credits, acked, timers, prefetched, paused, cancelled,
                 completed, started, txActive, pauses>>

\* The watchdog is set and the pump goes on to the next block.
ArmWatchdog ==
  /\ pump.at = "arm"
  /\ timers' = timers \cup {pump.block}
  /\ Pump(pending, credits, paused \/ cancelled \/ completed)
  /\ UNCHANGED <<acked, paused, cancelled, completed, started, txActive, pauses,
                 data, ctl>>

-----------------------------------------------------------------------------
\* A control message for a pipeline the service has forgotten is dropped.
IgnoreCtl(m) ==
  /\ ctl[m] > 0
  /\ ~txActive
  /\ ctl' = Taken(ctl, m)
  /\ UNCHANGED <<senderVars, data>>

\* Mutant of AllAcked: one acknowledgement short.
AllButOneAcked(done) == Cardinality(done) + 1 >= NumBlocks

AllAcked(done) == Cardinality(done) >= NumBlocks

\* handleBlockAck.  The last one completes the file and ends the pipeline.
RecvAck(b) ==
  /\ ctl[BlockAck(b)] > 0
  /\ txActive
  /\ ctl' = Taken(ctl, BlockAck(b))
  /\ acked' = acked \cup {b}
  /\ \/ /\ AllAcked(acked')
        /\ completed' = TRUE
        /\ timers' = {}
        /\ prefetched' = {}
        /\ txActive' = FALSE
     \/ /\ ~AllAcked(acked')
        /\ timers' = timers \ {b}
        /\ UNCHANGED <<completed, prefetched, txActive>>
  /\ UNCHANGED <<pending, credits, pump, paused, cancelled, started, pauses, data>>

\* Mutant of Granted: the grant is not counted.
GrantForgotten(cred) == cred

\* One credit more, up to the ceiling.
Granted(cred) == IF cred < MaxCredits THEN cred + 1 ELSE MaxCredits

\* grantCredits wakes an idle pump.
RecvCredit ==
  /\ ctl[CreditGrant] > 0
  /\ txActive
  /\ ctl' = Taken(ctl, CreditGrant)
  /\ KickPump(pending, Granted(credits), paused \/ cancelled \/ completed)
  /\ UNCHANGED <<acked, timers, paused, cancelled, completed, started, txActive,
                 pauses, data>>

RecvRetry(b) ==
  /\ ctl[BlockRetry(b)] > 0
  /\ txActive
  /\ ctl' = Taken(ctl, BlockRetry(b))
  /\ RetryBlock(b)
  /\ UNCHANGED <<acked, cancelled, completed, started, txActive, pauses, data>>

\* The watchdog of block b looks at the flags: it ends without setting itself
\* again when the transfer is paused, and resends the block otherwise.
Watchdog(b) ==
  /\ b \in timers
  /\ \/ /\ paused
        /\ timers' = timers \ {b}
        /\ UNCHANGED <<pending, credits, paused, pump, prefetched>>
     \/ ~paused /\ RetryBlock(b)
  /\ UNCHANGED <<acked, cancelled, completed, started, txActive, pauses, data, ctl>>

-----------------------------------------------------------------------------
Pause ==
  /\ txActive
  /\ ~paused
  /\ pauses < MaxPauses
  /\ paused' = TRUE
  /\ pauses' = pauses + 1
  /\ UNCHANGED <<pending, credits, acked, timers, prefetched, pump, cancelled,
                 completed, started, txActive, data, ctl>>

\* Mutant of Resume: the pump is not woken.
ResumeAsleep ==
  /\ txActive
  /\ paused
  /\ paused' = FALSE
  /\ UNCHANGED <<pending, credits, acked, timers, prefetched, pump, cancelled,
                 completed, started, txActive, pauses, data, ctl>>

Resume ==
  /\ txActive
  /\ paused
  /\ paused' = FALSE
  /\ KickPump(pending, credits, cancelled \/ completed)
  /\ UNCHANGED <<acked, timers, cancelled, completed, started, txActive, pauses,
                 data, ctl>>

\* cancel() and the service's bookkeeping around it.
StopSending ==
  /\ cancelled' = TRUE
  /\ paused' = FALSE
  /\ timers' = {}
  /\ prefetched' = {}
  /\ txActive' = FALSE
  /\ UNCHANGED <<pending, credits, acked, pump, completed, started, pauses, data>>

\* The sending user cancels; the receiver is told.
CancelSending ==
  /\ txActive
  /\ StopSending
  /\ ctl' = Sent(ctl, CancelAtReceiver)

RecvCancelAtSender ==
  /\ ctl[CancelAtSender] > 0
  /\ txActive
  /\ StopSending
  /\ ctl' = Taken(ctl, CancelAtSender)
=============================================================================
