---------------------------- MODULE FileReceiver ----------------------------
(***************************************************************************)
(* FileReceiverPipeline: collects the chunks of each block, verifies a     *)
(* complete block against its SHA-256, writes it, acknowledges it, and     *)
(* finalizes the file when every block is verified.                        *)
(*                                                                         *)
(* tryVerifyBlock has two awaits, so a block under verification is in      *)
(* state "hash" (awaiting assembleAndVerify) or "write" (awaiting the      *)
(* writer); snapshot[b] is what the bytes under verification are worth.    *)
(* The worker takes the chunk buffers away from the receiver: a chunk it   *)
(* took is still in the block's map, with length 0 ("gone").               *)
(***************************************************************************)
EXTENDS TransferRoutes

CONSTANTS
  MaxRetries,    \* MAX_BLOCK_RETRIES
  WorkerBlocks,  \* blocks of at least 256 KiB, which a worker verifies
  WritesFail     \* whether the writer can throw

ASSUME ReceiverAssumption ==
  /\ MaxRetries \in Nat
  /\ WorkerBlocks \subseteq Blocks
  /\ WritesFail \in BOOLEAN

VARIABLES
  chunks,       \* blockChunks
  bytes,        \* blockReceivedBytes
  ends,         \* blocks with an entry in blockEndPayloads
  stalls,       \* blocks with an armed stall timer
  verified,     \* verifiedBlocks
  retries,      \* blockRetryCounts, saturating at MaxRetries + 1
  verifying,    \* where tryVerifyBlock is, for each block
  snapshot,     \* what the block under verification is worth
  disk,         \* what the block writer, then its Blob, holds of each block
  final,        \* "open", "closing" (finalized, awaiting finalize) or "closed"
  output,       \* the file handed to the user
  rxActive,     \* the pipeline is in the service's activeReceivers
  rxCancelled,  \* the transfer was cancelled at this end
  rxHung        \* tryVerifyBlock calls itself without end

receiverVars == <<chunks, bytes, ends, stalls, verified, retries, verifying,
                  snapshot, disk, final, output, rxActive, rxCancelled, rxHung>>

Slots    == Contents \cup {"none", "gone"}
Stored   == {"none", "good", "bad"}
NoChunk  == [c \in Chunks |-> "none"]
NoOutput == [b \in {} |-> "none"]

ReceiverTypeOK ==
  /\ chunks \in [Blocks -> [Chunks -> Slots]]
  /\ bytes \in [Blocks -> Int]
  /\ ends \subseteq Blocks
  /\ stalls \subseteq Blocks
  /\ verified \subseteq Blocks
  /\ retries \in [Blocks -> 0 .. MaxRetries + 1]
  /\ verifying \in [Blocks -> {"idle", "hash", "write"}]
  /\ snapshot \in [Blocks -> {"good", "bad"}]
  /\ disk \in [Blocks -> Stored]
  /\ final \in {"open", "closing", "closed"}
  /\ output \in {NoOutput} \cup [Blocks -> Stored]
  /\ rxActive \in BOOLEAN
  /\ rxCancelled \in BOOLEAN
  /\ rxHung \in BOOLEAN

ReceiverInit ==
  /\ chunks = [b \in Blocks |-> NoChunk]
  /\ bytes = [b \in Blocks |-> 0]
  /\ ends = {}
  /\ stalls = {}
  /\ verified = {}
  /\ retries = [b \in Blocks |-> 0]
  /\ verifying = [b \in Blocks |-> "idle"]
  /\ snapshot = [b \in Blocks |-> "good"]
  /\ disk = [b \in Blocks |-> "none"]
  /\ final = "open"
  /\ output = NoOutput
  /\ rxActive = TRUE
  /\ rxCancelled = FALSE
  /\ rxHung = FALSE

-----------------------------------------------------------------------------
\* Lengths in chunks: a block announces NumChunks.
ChunkLen(x)   == IF x = "long" THEN 2 ELSE IF x \in {"good", "bad"} THEN 1 ELSE 0
Held(row)     == {c \in Chunks : row[c] # "none"}
TotalLen(row) == Cardinality({c \in Chunks : ChunkLen(row[c]) >= 1})
                 + Cardinality({c \in Chunks : ChunkLen(row[c]) = 2})
GapFree(row)  == \A c \in Held(row) : 0 .. c \subseteq Held(row)
Worth(row)    == IF \A c \in Chunks : row[c] = "good" THEN "good" ELSE "bad"

\* The chunk map a verification leaves behind when it starts.
Detached(b, row) ==
  IF b \in WorkerBlocks
  THEN [c \in Chunks |-> IF c \in Held(row) THEN "gone" ELSE "none"]
  ELSE row

\* blockChunks.delete, blockReceivedBytes.delete, blockEndPayloads.delete
Forget(b) ==
  /\ chunks' = [chunks EXCEPT ![b] = NoChunk]
  /\ bytes' = [bytes EXCEPT ![b] = 0]
  /\ ends' = ends \ {b}

\* Contiguous chunks holding at least the announced length.
Whole(row) == GapFree(row) /\ TotalLen(row) >= NumChunks

\* The guards of tryVerifyBlock and tryVerifyBlockInner, for a block whose
\* chunk map is `row', when the ends of the blocks `known' have arrived and its
\* verification stands at `state'.
Looks(b, row, known, state) ==
  /\ state = "idle"
  /\ b \notin verified
  /\ final = "open"
  /\ b \in known
  /\ Held(row) # {}

\* The stall timers after tryVerifyBlock: looking at a whole block clears its.
StallsAfter(b, row, known, state, armed) ==
  IF Looks(b, row, known, state) /\ Whole(row) THEN armed \ {b} ELSE armed

\* tryVerifyBlock(b) up to its first await; `size' is the block's byte count
\* and `net' the control route before it.
TryVerify(b, row, size, known, state, net) ==
  LET looks == Looks(b, row, known, state)
      keep  == /\ bytes' = [bytes EXCEPT ![b] = size]
               /\ ends' = known
               /\ ctl' = net
  IN
  \/ \* under way, over, or nothing to look at
     /\ ~looks
     /\ keep
     /\ chunks' = [chunks EXCEPT ![b] = row]
     /\ verifying' = [verifying EXCEPT ![b] = state]
     /\ UNCHANGED <<snapshot, rxHung>>
  \/ \* bytes or chunks are missing: wait
     /\ looks
     /\ ~Whole(row)
     /\ size < NumChunks
     /\ keep
     /\ chunks' = [chunks EXCEPT ![b] = row]
     /\ verifying' = [verifying EXCEPT ![b] = "idle"]
     /\ UNCHANGED <<snapshot, rxHung>>
  \/ \* they are missing, yet enough bytes were counted: the `finally' calls
     \* tryVerifyBlock again, which comes back here for ever
     /\ looks
     /\ ~Whole(row)
     /\ size >= NumChunks
     /\ keep
     /\ chunks' = [chunks EXCEPT ![b] = row]
     /\ verifying' = [verifying EXCEPT ![b] = "idle"]
     /\ rxHung' = TRUE
     /\ UNCHANGED snapshot
  \/ \* too many bytes: forget the block and ask for it again
     /\ looks
     /\ Whole(row)
     /\ TotalLen(row) # NumChunks
     /\ Forget(b)
     /\ ctl' = Sent(net, BlockRetry(b))
     /\ verifying' = [verifying EXCEPT ![b] = "idle"]
     /\ UNCHANGED <<snapshot, rxHung>>
  \/ \* complete: the chunks go to the verifier
     /\ looks
     /\ Whole(row)
     /\ TotalLen(row) = NumChunks
     /\ keep
     /\ chunks' = [chunks EXCEPT ![b] = Detached(b, row)]
     /\ verifying' = [verifying EXCEPT ![b] = "hash"]
     /\ snapshot' = [snapshot EXCEPT ![b] = Worth(row)]
     /\ UNCHANGED rxHung

-----------------------------------------------------------------------------
\* Mutant of Armed: the stall timer is not set.
ArmedNever(b) == stalls

\* resetStallTimer(b), for a block not yet verified.
Armed(b) == IF final = "open" THEN stalls \cup {b} ELSE stalls

\* A frame or a block's end for a pipeline the service has forgotten, or a
\* chunk of a verified block, is dropped.
IgnoreFrame(f) ==
  /\ ~rxHung
  /\ data[f] > 0
  /\ ~rxActive \/ (f \in DataFrame /\ f.block \in verified)
  /\ data' = Taken(data, f)
  /\ UNCHANGED <<receiverVars, ctl>>

IgnoreBlockEnd(b) ==
  /\ ~rxHung
  /\ ctl[BlockEnd(b)] > 0
  /\ ~rxActive
  /\ ctl' = Taken(ctl, BlockEnd(b))
  /\ UNCHANGED <<receiverVars, data>>

\* Mutant of Recounted: a chunk that arrives again counts again.
CountedTwice(f) == bytes[f.block] + ChunkLen(f.content)

\* The block's byte count with chunk f in the place of the one it replaces.
Recounted(f) ==
  bytes[f.block] + ChunkLen(f.content) - ChunkLen(chunks[f.block][f.chunk])

\* handleDecodedDataFrame, for a DATA frame of a block not yet verified.
RecvChunk(f) ==
  LET b     == f.block
      row   == [chunks[b] EXCEPT ![f.chunk] = f.content]
      armed == IF b \in ends THEN Armed(b) ELSE stalls
  IN
  /\ ~rxHung
  /\ rxActive
  /\ data[f] > 0
  /\ b \notin verified
  /\ data' = Taken(data, f)
  /\ stalls' = StallsAfter(b, row, ends, verifying[b], armed)
  /\ TryVerify(b, row, Recounted(f), ends, verifying[b], ctl)
  /\ UNCHANGED <<verified, retries, disk, final, output, rxActive, rxCancelled>>

\* handleBlockEnd: a verified block is acknowledged again, any other is looked
\* at, and then its stall timer is set.
HandleBlockEnd(b, net) ==
  /\ ~rxHung
  /\ rxActive
  /\ \/ /\ b \in verified
        /\ ctl' = Sent(net, BlockAck(b))
        /\ UNCHANGED <<chunks, bytes, ends, stalls, verifying, snapshot, rxHung>>
     \/ /\ b \notin verified
        /\ TryVerify(b, chunks[b], bytes[b], ends \cup {b}, verifying[b], net)
        /\ stalls' = Armed(b)
  /\ UNCHANGED <<verified, retries, disk, final, output, rxActive, rxCancelled>>

RecvBlockEnd(b) ==
  /\ ctl[BlockEnd(b)] > 0
  /\ HandleBlockEnd(b, Taken(ctl, BlockEnd(b)))
  /\ UNCHANGED data

RecvInBandEnd(b) ==
  /\ data[InBandEnd(b)] > 0
  /\ data' = Taken(data, InBandEnd(b))
  /\ HandleBlockEnd(b, ctl)

\* The stall timer of block b asks for the block, once.
Stall(b) ==
  /\ ~rxHung
  /\ b \in stalls
  /\ stalls' = stalls \ {b}
  /\ ctl' = IF b \notin verified /\ final = "open" THEN Sent(ctl, BlockRetry(b)) ELSE ctl
  /\ UNCHANGED <<chunks, bytes, ends, verified, retries, verifying, snapshot, disk,
                 final, output, rxActive, rxCancelled, rxHung, data>>

-----------------------------------------------------------------------------
\* onError in the service drops the pipeline; the `finally' of tryVerifyBlock
\* then looks at the block again, whose chunks and end are still there.
FailAndLookAgain(b) ==
  /\ rxActive' = FALSE
  /\ TryVerify(b, chunks[b], bytes[b], ends, "idle", ctl)
  /\ stalls' = StallsAfter(b, chunks[b], ends, "idle", stalls)

\* Mutant of HashMatches: the block counts as verified before it is written.
HashMatchesEarly(b) ==
  /\ ~rxHung
  /\ verifying[b] = "hash"
  /\ snapshot[b] = "good"
  /\ verifying' = [verifying EXCEPT ![b] = "write"]
  /\ verified' = verified \cup {b}
  /\ UNCHANGED <<chunks, bytes, ends, stalls, retries, snapshot, disk,
                 final, output, rxActive, rxCancelled, rxHung, routeVars>>

\* Mutant of HashMatches: the hash is not compared.
HashUnchecked(b) ==
  /\ ~rxHung
  /\ verifying[b] = "hash"
  /\ verifying' = [verifying EXCEPT ![b] = "write"]
  /\ UNCHANGED <<chunks, bytes, ends, stalls, verified, retries, snapshot, disk,
                 final, output, rxActive, rxCancelled, rxHung, routeVars>>

\* The hash matches: the writer gets the block.
HashMatches(b) ==
  /\ ~rxHung
  /\ verifying[b] = "hash"
  /\ snapshot[b] = "good"
  /\ verifying' = [verifying EXCEPT ![b] = "write"]
  /\ UNCHANGED <<chunks, bytes, ends, stalls, verified, retries, snapshot, disk,
                 final, output, rxActive, rxCancelled, rxHung, routeVars>>

\* It does not: ask for the block again, or give the file up after MaxRetries.
HashDiffers(b) ==
  /\ ~rxHung
  /\ verifying[b] = "hash"
  /\ snapshot[b] # "good"
  /\ \/ /\ retries[b] < MaxRetries
        /\ retries' = [retries EXCEPT ![b] = @ + 1]
        /\ Forget(b)
        /\ ctl' = Sent(ctl, BlockRetry(b))
        /\ verifying' = [verifying EXCEPT ![b] = "idle"]
        /\ UNCHANGED <<stalls, snapshot, rxActive, rxHung>>
     \/ /\ retries[b] >= MaxRetries
        /\ retries' = [retries EXCEPT ![b] = MaxRetries + 1]
        /\ FailAndLookAgain(b)
  /\ UNCHANGED <<verified, disk, final, output, rxCancelled, data>>

\* Mutants of AllVerified: finished one block early, or never.
AllButOneVerified(done)  == Cardinality(done) + 1 >= NumBlocks
MoreThanVerified(done)   == Cardinality(done) > NumBlocks

AllVerified(done) == Cardinality(done) >= NumBlocks

\* The block is on disk: it is verified, acknowledged and its credit returned.
\* After the last block the stall timers go and the writer is finalized.
WriteDone(b) ==
  /\ ~rxHung
  /\ verifying[b] = "write"
  /\ disk' = [disk EXCEPT ![b] = snapshot[b]]
  /\ Forget(b)
  /\ verified' = verified \cup {b}
  /\ ctl' = Sent(Sent(ctl, BlockAck(b)), CreditGrant)
  /\ verifying' = [verifying EXCEPT ![b] = "idle"]
  /\ \/ /\ AllVerified(verified')
        /\ final = "open"
        /\ final' = "closing"
        /\ stalls' = {}
     \/ /\ ~AllVerified(verified') \/ final # "open"
        /\ UNCHANGED <<final, stalls>>
  /\ UNCHANGED <<retries, snapshot, output, rxActive, rxCancelled, rxHung, data>>

WriteFails(b) ==
  /\ WritesFail
  /\ ~rxHung
  /\ verifying[b] = "write"
  /\ FailAndLookAgain(b)
  /\ UNCHANGED <<verified, retries, disk, final, output, rxCancelled, data>>

\* finalize() returned the file: it is handed over and the pipeline forgotten.
Finalize ==
  /\ ~rxHung
  /\ final = "closing"
  /\ final' = "closed"
  /\ output' = disk
  /\ rxActive' = FALSE
  /\ UNCHANGED <<chunks, bytes, ends, stalls, verified, retries, verifying,
                 snapshot, disk, rxCancelled, rxHung, routeVars>>

\* finalize() threw: onError, and no second attempt, for finalized is set.
FinalizeFails ==
  /\ WritesFail
  /\ ~rxHung
  /\ final = "closing"
  /\ final' = "closed"
  /\ rxActive' = FALSE
  /\ UNCHANGED <<chunks, bytes, ends, stalls, verified, retries, verifying,
                 snapshot, disk, output, rxCancelled, rxHung, routeVars>>

-----------------------------------------------------------------------------
\* cancelTransfer at the receiving end: the pipeline is forgotten and the
\* writer aborted, but a verification under way goes on, and a Blob that
\* finalize has made is out of abort's reach.
StopReceiving ==
  /\ rxActive' = FALSE
  /\ rxCancelled' = TRUE
  /\ disk' = IF final = "closing" THEN disk ELSE [b \in Blocks |-> "none"]
  /\ UNCHANGED <<chunks, bytes, ends, stalls, verified, retries, verifying,
                 snapshot, final, output, rxHung, data>>

\* The receiving user cancels; the sender is told.
CancelReceiving ==
  /\ ~rxHung
  /\ rxActive
  /\ StopReceiving
  /\ ctl' = Sent(ctl, CancelAtSender)

RecvCancelAtReceiver ==
  /\ ~rxHung
  /\ ctl[CancelAtReceiver] > 0
  /\ ctl' = Taken(ctl, CancelAtReceiver)
  /\ \/ rxActive /\ StopReceiving
     \/ ~rxActive /\ UNCHANGED <<receiverVars, data>>
=============================================================================
