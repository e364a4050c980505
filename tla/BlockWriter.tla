---------------------------- MODULE BlockWriter ----------------------------
(***************************************************************************)
(* The writer that holds the verified blocks of one received file          *)
(* (transfer/storage/index.ts): in memory, or in a temporary file of the   *)
(* origin's private file system, written through a synchronous handle or   *)
(* through a stream and committed when it is closed.                       *)
(*                                                                         *)
(* The receiving pipeline writes each block once, and finalizes when all   *)
(* its writes have resolved; the service aborts the writer of a cancelled  *)
(* transfer at any time before the file is handed over (network.ts:2234).  *)
(* Every operation of the disk may fail.                                   *)
(***************************************************************************)
EXTENDS Naturals, Sequences, FiniteSets

CONSTANT Blocks     \* the blocks of the file

ASSUME BlocksAssumption == IsFiniteSet(Blocks)

VARIABLES
  kind,         \* the class of the writer
  handle,       \* what the temporary file is written through
  useFallback,  \* blocks go to fallbackMemory (in the memory writer, always)
  memory,       \* the blocks in fallbackMemory, or in `blocks'
  queue,        \* the blocks whose task waits in writeQueue
  writing,      \* the block the stream is writing: {} or one block
  staged,       \* the blocks in the stream, lost unless it is closed
  file,         \* the blocks in the temporary file
  entry,        \* the directory lists the temporary file
  resolved,     \* the blocks whose writeBlock has resolved
  fin,          \* how far finalize() is
  result,       \* the blocks in the Blob that finalize() returned
  expiry,       \* the timer that removes the temporary file is set
  aborting,     \* how far abort() is
  diskFailed    \* history: an operation of the disk has failed

handleVars == <<kind, handle, useFallback>>
endVars    == <<fin, result, expiry>>
vars == <<kind, handle, useFallback, memory, queue, writing, staged, file, entry,
          resolved, fin, result, expiry, aborting, diskFailed>>

\* Every variable has its type.
WriterTypeOK ==
  /\ kind \in {"memory", "opfs"}
  /\ handle \in {"sync", "stream", "none"}
  /\ useFallback \in BOOLEAN
  /\ memory \subseteq Blocks
  /\ queue \in Seq(Blocks)
  /\ writing \subseteq Blocks
  /\ staged \subseteq Blocks
  /\ file \subseteq Blocks
  /\ entry \in BOOLEAN
  /\ resolved \subseteq Blocks
  /\ fin \in {"open", "closing", "reading", "done", "failed"}
  /\ result \subseteq Blocks
  /\ expiry \in BOOLEAN
  /\ aborting \in {"no", "stream", "entry", "done"}
  /\ diskFailed \in BOOLEAN

-----------------------------------------------------------------------------
\* createBlockWriter with init(): a small file is kept in memory; without a
\* file system, or with one that has no handle to offer, the writer starts in
\* its fallback, in the second case with the temporary file already created.
Created(k, h, fallback, listed) ==
  /\ kind = k
  /\ handle = h
  /\ useFallback = fallback
  /\ entry = listed

Init ==
  /\ \/ Created("memory", "none", TRUE, FALSE)
     \/ Created("opfs", "sync", FALSE, TRUE)
     \/ Created("opfs", "stream", FALSE, TRUE)
     \/ Created("opfs", "none", TRUE, TRUE)
     \/ Created("opfs", "none", TRUE, FALSE)
  /\ memory = {} /\ staged = {} /\ file = {} /\ resolved = {} /\ result = {}
  /\ queue = <<>>
  /\ writing = {}
  /\ fin = "open"
  /\ expiry = FALSE
  /\ aborting = "no"
  /\ diskFailed = FALSE

Queued == {queue[i] : i \in 1 .. Len(queue)}

\* A block is put into memory, and its write resolves.
KeepInMemory(b) ==
  /\ memory' = memory \cup {b}
  /\ resolved' = resolved \cup {b}

\* writeBlock: the memory writer stores the block at once, the other one
\* chains a task to its queue.
Write(b) ==
  /\ fin = "open"
  /\ b \notin resolved \cup writing \cup Queued
  /\ \/ /\ kind = "memory"
        /\ KeepInMemory(b)
        /\ UNCHANGED queue
     \/ /\ kind = "opfs"
        /\ queue' = Append(queue, b)
        /\ UNCHANGED <<memory, resolved>>
  /\ UNCHANGED <<handleVars, writing, staged, file, entry, endVars, aborting, diskFailed>>

\* The `catch' of a task: the block, and all later ones, go to memory.
FallBack(b) ==
  /\ useFallback' = TRUE
  /\ KeepInMemory(b)

\* A task of the queue, up to the write of the stream it awaits.
RunTask ==
  /\ queue # <<>>
  /\ writing = {}
  /\ queue' = Tail(queue)
  /\ LET b == Head(queue) IN
     \/ /\ useFallback
        /\ KeepInMemory(b)
        /\ UNCHANGED <<useFallback, writing, file, diskFailed>>
     \/ /\ ~useFallback        \* no handle, or a stream that is being aborted
        /\ handle = "none" \/ aborting = "stream"
        /\ FallBack(b)
        /\ UNCHANGED <<writing, file, diskFailed>>
     \/ /\ ~useFallback
        /\ handle = "sync"
        /\ file' = file \cup {b}
        /\ resolved' = resolved \cup {b}
        /\ UNCHANGED <<useFallback, memory, writing, diskFailed>>
     \/ /\ ~useFallback        \* write() or flush() throws
        /\ handle = "sync"
        /\ FallBack(b)
        /\ file' \in {file, file \cup {b}}
        /\ diskFailed' = TRUE
        /\ UNCHANGED writing
     \/ /\ ~useFallback
        /\ handle = "stream"
        /\ aborting = "no"
        /\ writing' = {b}
        /\ UNCHANGED <<useFallback, memory, file, resolved, diskFailed>>
  /\ UNCHANGED <<kind, handle, staged, entry, endVars, aborting>>

\* The stream has written the block.
StreamWrote(b) ==
  /\ b \in writing
  /\ writing' = {}
  /\ staged' = staged \cup {b}
  /\ resolved' = resolved \cup {b}
  /\ UNCHANGED <<handleVars, memory, queue, file, entry, endVars, aborting, diskFailed>>

\* The write fails: the stream is errored and can no longer be committed.
StreamFailed(b) ==
  /\ b \in writing
  /\ writing' = {}
  /\ FallBack(b)
  /\ staged' = {}
  /\ diskFailed' = TRUE
  /\ UNCHANGED <<kind, handle, queue, file, entry, endVars, aborting>>

-----------------------------------------------------------------------------
\* finalize, called when every write has resolved (and waiting for the queue):
\* the Blob of what is in memory if anything is, or else the temporary file,
\* whose handle is closed.
Finalize ==
  /\ fin = "open"
  /\ resolved = Blocks
  /\ queue = <<>> /\ writing = {}
  /\ \/ /\ useFallback \/ memory # {}
        /\ result' = memory
        /\ memory' = {}
        /\ fin' = "done"
        /\ UNCHANGED handle
     \/ /\ ~useFallback
        /\ memory = {}
        /\ handle = "stream"
        /\ fin' = "closing"
        /\ UNCHANGED <<result, memory, handle>>
     \/ /\ ~useFallback
        /\ memory = {}
        /\ handle # "stream"
        /\ handle' = "none"
        /\ fin' = "reading"
        /\ UNCHANGED <<result, memory>>
  /\ UNCHANGED <<kind, useFallback, queue, writing, staged, file, entry, resolved, expiry,
                 aborting, diskFailed>>

\* The stream is closed, and what it holds is committed to the file.
Committed(blocks) ==
  /\ fin = "closing"
  /\ file' = file \cup blocks
  /\ staged' = {}
  /\ handle' = "none"
  /\ fin' = "reading"
  /\ UNCHANGED <<kind, useFallback, memory, queue, writing, entry, resolved, result, expiry,
                 aborting>>

\* As StreamClosed, without waiting for the stream (a plausible bug).
StreamLeftOpen ==
  /\ Committed({})
  /\ UNCHANGED diskFailed

StreamClosed ==
  /\ Committed(staged)
  /\ UNCHANGED diskFailed

\* close() rejects, which finalize ignores: nothing is committed.
CloseFailed ==
  /\ Committed({})
  /\ diskFailed' = TRUE

\* getFile(): the temporary file is handed over, and removed in an hour; it is
\* an error when an abort has removed it.
GetFile ==
  /\ fin = "reading"
  /\ \/ /\ entry
        /\ result' = file
        /\ fin' = "done"
        /\ expiry' = TRUE
     \/ /\ ~entry
        /\ fin' = "failed"
        /\ UNCHANGED <<result, expiry>>
  /\ UNCHANGED <<handleVars, memory, queue, writing, staged, file, entry, resolved, aborting,
                 diskFailed>>

Expire ==
  /\ expiry
  /\ expiry' = FALSE
  /\ entry' = FALSE
  /\ UNCHANGED <<handleVars, memory, queue, writing, staged, file, resolved, fin, result,
                 aborting, diskFailed>>

-----------------------------------------------------------------------------
\* abort() up to its first await. A stream is aborted behind the write it is
\* busy with.
Abort ==
  /\ aborting = "no"
  /\ fin \notin {"done", "failed"}
  /\ memory' = {}
  /\ handle' = IF handle = "sync" THEN "none" ELSE handle
  /\ aborting' = IF kind = "memory" THEN "done"
                 ELSE IF handle = "stream" THEN "stream" ELSE "entry"
  /\ UNCHANGED <<kind, useFallback, queue, writing, staged, file, entry, resolved, endVars,
                 diskFailed>>

\* As AbortStream, and abort() ends there (a plausible bug).
AbortStreamOnly ==
  /\ aborting = "stream"
  /\ writing = {}
  /\ staged' = {}
  /\ handle' = "none"
  /\ aborting' = "done"
  /\ UNCHANGED <<kind, useFallback, memory, queue, writing, file, entry, resolved, endVars,
                 diskFailed>>

AbortStream ==
  /\ aborting = "stream"
  /\ writing = {}
  /\ staged' = {}
  /\ handle' = "none"
  /\ aborting' = "entry"
  /\ UNCHANGED <<kind, useFallback, memory, queue, writing, file, entry, resolved, endVars,
                 diskFailed>>

RemoveEntry ==
  /\ aborting = "entry"
  /\ entry' = FALSE
  /\ aborting' = "done"
  /\ UNCHANGED <<handleVars, memory, queue, writing, staged, file, resolved, endVars,
                 diskFailed>>

Next ==
  \/ \E b \in Blocks : Write(b)
  \/ RunTask
  \/ \E b \in Blocks : StreamWrote(b)
  \/ \E b \in Blocks : StreamFailed(b)
  \/ Finalize
  \/ StreamClosed
  \/ CloseFailed
  \/ GetFile
  \/ Expire
  \/ Abort
  \/ AbortStream
  \/ RemoveEntry

\* Promises settle and timers fire while the tab is open; nobody has to write,
\* to finalize or to abort.
Fairness ==
  /\ WF_vars(RunTask)
  /\ WF_vars(\E b \in Blocks : StreamWrote(b) \/ StreamFailed(b))
  /\ WF_vars(StreamClosed \/ CloseFailed)
  /\ WF_vars(GetFile)
  /\ WF_vars(Expire)
  /\ WF_vars(AbortStream)
  /\ WF_vars(RemoveEntry)

Spec == Init /\ [][Next]_vars
FairSpec == Spec /\ Fairness

-----------------------------------------------------------------------------
\* A writer whose transfer was not cancelled hands over every block it was
\* given, as the receiving pipeline and FileReceiver's `disk' rely on, unless
\* an operation of the disk failed on the way: through which of its two places
\* the blocks went, and whether the stream was closed before the file was
\* read, makes no difference.
FinalizeReturnsAll ==
  fin = "done" /\ aborting = "no" /\ ~diskFailed => result = Blocks

\* A disk that fails on the way makes the writer fall back to memory
\* (storage/index.ts:270-273) so that the transfer goes on; what it hands over
\* must then still be the whole file, which is what README.md:24 promises.
FallbackLosesNothing ==
  fin = "done" /\ aborting = "no" => result = Blocks

\* No temporary file stays behind a transfer that was cancelled, at whatever
\* point of a write or of finalize() the abort came, nor behind one that was
\* handed over from the disk.
TempFileRemoved ==
  aborting # "no" \/ (fin = "done" /\ ~useFallback) ~> [](~entry)

\* The strengthening of FinalizeReturnsAll: while nothing failed, the blocks
\* are where finalize() will look for them. A writer in its fallback has never
\* used the disk, the others have nothing in memory; a block in the stream is
\* committed before the file is read.
InMemory == useFallback /\ resolved = memory /\ handle = "none"
OnDisk   == ~useFallback /\ memory = {} /\ kind = "opfs"

Placed ==
  /\ fin = "open" =>
       \/ InMemory /\ writing = {}
       \/ OnDisk /\ handle = "sync" /\ writing = {} /\ resolved = file /\ staged = {}
       \/ OnDisk /\ handle = "stream" /\ resolved = file \cup staged
  /\ fin = "closing" => OnDisk /\ Blocks = file \cup staged
  /\ fin = "reading" => OnDisk /\ Blocks = file
  /\ fin = "done" => result = Blocks
  /\ fin # "failed"

WriterInv ==
  /\ WriterTypeOK
  /\ expiry => fin = "done"
  /\ fin # "open" => queue = <<>> /\ writing = {}
  /\ aborting = "no" /\ ~diskFailed => Placed /\ (OnDisk /\ fin # "done" => entry)
=============================================================================
