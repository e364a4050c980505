# Verification of ShareApp

TLA+ modules for the parts of this repository that carry its own logic: how the
pages of two browsers find each other through the signaling server, connect, and
send files block by block. TLC checks them on small instances, and TLAPS proves
the main safety properties for every instance. Sources are named relative to
`apps/web/src` unless a longer path is given; `signaling` stands for
`apps/signaling/src`.

## 1. The system

| Component | Source | State | Operations | Hard behaviour |
|---|---|---|---|---|
| Sending pipeline | `transfer/sender/index.ts` | block queue, credits, acknowledged blocks, watchdogs, prefetch cache, flags | pump, acknowledgement, credit, retry, watchdog, start, pause, resume, cancel | the pump suspends at four awaits while handlers change its state |
| Receiving pipeline | `transfer/receiver/index.ts` | chunk maps, byte counts, block ends, stall timers, verified blocks, retry counts | chunk, block end, verification (two awaits), stall, finalize | late chunks during a verification, failing writes, cancel during a verification |
| Worker pool | `transfer/worker/*.ts` | workers, turn, pending jobs | slice and hash, assemble and verify | workers that do not load, buffers they take away, several jobs at once |
| Block writers | `transfer/storage/index.ts` | memory map or file handle, write queue, fallback | write, finalize, abort | a disk error half way, abort between two writes |
| Transfer session | `services/network.ts` | senders, receivers, writers, request timers, queue of accepted files per peer, early frames, prompts | request, prepare, accept, decline, cancel, pause, resume, frame and control dispatch | answers lost, cancel while a prompt or a writer is pending, one file at a time |
| Transfer routes | `services/network.ts:1392-1474`, `packages/shared/src/protocol` | messages in flight, seen message ids | send control, send frame, de-duplicate | loss, reordering, duplication across routes |
| Resume journal | `transfer/resume/*.ts` | bitmap, pending record, debounce timer, database | set, record, flush | flushes that wait for the database side by side, a page that goes away |
| Browser tabs and local bus | `services/network.ts:76-108, 694-804` | device id, a time stamp all tabs share, list of tabs | claim, refresh, announce, answer, expire | tabs that open at once, timers that are held back |
| Presence in the page | `services/network.ts` | devices nearby, room, devices in it | server messages, create, join and leave a room | lists kept over reconnections |
| Client signaling | `core/signaling/index.ts` | socket, stream, rung, timers, heartbeat, turbo lanes | connect, reconnect, climb down, upgrade, send | attempts that run side by side, events of a replaced socket |
| Peer session | `core/peer/index.ts`, `core/path/index.ts` | negotiation flags, queued candidates, path, relay fallback, timers | offer, answer, candidate, roll back, ICE restart, fallback | offers that cross, operations the browser queues |
| Discovery | `core/discovery/index.ts`, `signaling/clientip` | addresses, network keys | probe, derive keys | answers that race their timer |
| Signaling server | `signaling/index.ts` | sessions, connections, disconnect timers | sockets, streams, polls, posts, messages, frames | a device on several connections at once |
| Local groups | `signaling/groups` | sessions, index from keys to devices | register, evict, visible devices, disconnect grace | the index against the sessions |
| Rooms | `signaling/rooms` | rooms, records of failed attempts | create, join, leave, prune, limit | expiry under members, windows of time |
| Gateway | `signaling/gateway` | registered connections, turbo sockets, poll queues | register, send, relay frames | replacement while messages wait |

How they interact: a page keeps one connection to the server (the ladder), probes
the network for its addresses and joins; the server files it under the keys that
follow from them and tells it who has one in common. For each such device the
page makes a peer session, whose offers, answers and candidates go over the
server; until its data channels open, and when they fail, messages and frames go
over the server too. Pages of one browser also talk over a BroadcastChannel.

The transfer session asks the other side with `request-transfer` (or
`prepare-upload` for a batch); the user there accepts, a writer and a receiving
pipeline are created, and `accept-transfer` starts the sending pipeline. The
pipelines exchange frames (chunks, in-band block ends) and control messages
(`block-end`, `block-ack`, `credit-grant`, `block-retry`, `cancel-transfer`)
over routes the session picks for each message, and tell the session through
callbacks when they are through.

Correctness, component by component: a block is acknowledged only when it is
stored; a file is handed over once, whole and intact; the window of credits is
respected; no block is forgotten and both ends finish when messages arrive. A
writer returns exactly what was written or fails, and leaves no file behind. One
file at a time goes to a peer, every accepted file gets its turn, and only an
accepted file is sent. Devices on one network see each other, whatever
connections and probes went before; a device that is gone disappears from groups
and rooms, and one that is there does not. A client that is not connected is
always about to try again. Two peers that negotiate at once end in one session.
What the journal's store says is true. Two tabs are two devices.

## 2. Modules

| Module | Models |
|---|---|
| `TransferRoutes` | messages, frames, their loss and damage (network.ts:1392-1474, 1559-1570, 1786-1811) |
| `FileSender` | `FileSenderPipeline`, with the service's part in its end |
| `FileReceiver` | `FileReceiverPipeline`, the detaching of buffers by the worker, the service's part in its end |
| `BlockTransfer` | one accepted file: both pipelines, routes, timers; its properties; the inductive invariant |
| `FileDelivery` | the abstract specification: what sending one file promises, without pipelines or routes |
| `BlockTransferProofs`, `BlockTransferRefinement` | type correctness; the inductive invariant and the safety theorems; `BlockTransfer` implements `FileDelivery` |
| `BlockWriter` | one writer: in memory, or in a temporary file with a synchronous handle or a stream |
| `SessionRoutes`, `SendSession`, `ReceiveSession` | messages about whole files; requests and the queue of accepted files; prompts and the preparation of receivers |
| `TransferSession`, `TransferSessionProofs` | both sides of a session of several files, its properties; the inductive invariant and theorems |
| `NetworkKeys` | addresses and the network keys that follow from them, at the server and from a page's probe |
| `LocalGroups`, `Rooms`, `Gateway` | the server's three stores, each method an operator on its state |
| `PresenceClient` | what a page makes of messages about devices and rooms |
| `SignalingServer` | the server's handlers, composed of the three stores |
| `Presence`, `PresenceProofs` | pages, their connections and the server together, and the properties of all six; the inductive invariant and theorems |
| `JoinLimiter` | the limit on failed attempts to join a room |
| `SignalingLadder`, `SignalingLadderProofs` | `SignalingLadderClient`: socket, stream, polls, retries, heartbeat, upgrade |
| `RelayLanes` | a file's frames over turbo lanes, sockets, posts, streams and polls |
| `PeerNegotiation`, `PeerNegotiationProofs` | `PeerSession` at both ends, and the browser's chain of operations between them |
| `PeerPath` | `ConnectionLadderOrchestrator`, with the connection's state, grace timer and statistics |
| `WorkerPool` | the pool, its workers and the work on the page |
| `ResumeJournal` | bitmap, journal and database of one transfer |
| `ProbeRace` | the races of the network probe |
| `BrowserTabs` | the pages of one browser |
| `PagePartsProofs` | theorems about `WorkerPool`, `BrowserTabs`, `ResumeJournal`, `ProbeRace`, `JoinLimiter` and `BlockWriter` |
| `PeerProofs` | theorems about `PeerPath` and `RelayLanes` |
| `MC*` | values of constants for TLC; `MCParts` also puts the small parts side by side |

### Conventions

**Steps.** JavaScript runs a handler up to its next await without interruption,
so one action is the code between two awaits. The sender's pump is a process
with a position (`pump.at`); the receiver has one for each block (`verifying`).
Everything else is a handler: one action from its first line to its last, with
the calls it ends in (`KickPump`, `TryVerify`, `PumpAccepted`). Where a handler
calls several methods of an object, each method is an operator from the object's
state to the next one, named as in the code, and the action composes them
(`LocalGroups`, `SignalingLadder`).

**Timers.** Where only the order of time-outs matters, a timer is a flag and
fires at any time it is set; `Timely` in the ladder and `BlockIsQuiet` and
`SenderIsQuiet` in the transfer say which events come before it. Where periods
are compared, time is counted in ticks (`JoinLimiter`, `BrowserTabs`).

**History.** A variable that the code does not have is marked as history, and only
properties read it; it names a circumstance a property excludes (`crossed`, `again`,
`spoiled`, `lost`, `odd`, `late`, `unwatched`, `missed`, `revived`) or what really
happened (`verified` in the journal, `failedAt` in the limiter).

### The transfer of one file

A chunk is its number and whether its bytes are those the sender cut
(`good`), others of the same length (`bad`), or others of another length
(`short`, `long`). The SHA-256 of a block matches exactly when all its chunks
are good. A chunk whose buffer the worker took is `gone`: it is in the map with
length 0, as a detached buffer is. Frames of another transfer under the same
32-bit hash (sender/index.ts:96) are where damage comes from.

`data` and `ctl` are bags: any message in flight may arrive next, so every
overtaking is covered. A control message sent over two routes is handled once
because of its `_msgId`; it is lost when neither route is up.

The receiver's writer is what it holds of each block (`disk`). Bytes land when
`writeBlock` resolves and are dropped by `abort`, as in the in-memory writer that
files up to 500 MB use; once `finalize` runs, its Blob exists. The watchdog's
inactivity check (sender/index.ts:288-293) is why it waits for the whole sender
to be quiet; a bounded number of time-outs (`MaxEarly`) comes too early.

`BlockWriter` starts as `createBlockWriter` and `init` leave it: in memory, with
a synchronous handle, with a stream, or in its fallback. `queue` is the chain of
promises `writeQueue` and `RunTask` the task at its head up to the write it
awaits; `StreamWrote` and `StreamFailed` are that write's outcome. What is
written to a stream is `staged` and reaches `file` when the stream is closed, as
the file system's documentation says. `Finalize`, `StreamClosed`/`CloseFailed`
and `GetFile` are the three parts of `finalize()`, `Abort`, `AbortStream` and
`RemoveEntry` those of `abort()`. Its environment is the receiving pipeline,
which writes each block once (`WrittenOnce`) and finalizes when all writes have
resolved, and the service, which aborts at any time before the file is handed
over.

### The session

A file is a number; its place in `ctl` and in the maps of `NetworkService` is what the
model keeps. `SendSession` has `transferFiles`' statuses, `activeSenders`, the timers
of requests, `acceptedSendQueue` and `runningSendersPerPeer`; a pipeline is `opening`
(behind `whenDataOpen`), `streaming` or `stopped` (`isCancelled`). `ReceiveSession`
has the prompts, the keys of `seenCtl` that matter (`asked`), the time of
`autoAcceptPeers`, the loops of `respondToRequest` (`jobs`), each of which awaits a
writer between two files, and the files of which a block is being verified
(`verifying`). `PumpAccepted` is `pumpAcceptedSenders`, which ends every handler that
accepts, finishes, fails, declines or cancels a file, and is part of those actions.
The transfer of one file's blocks is `BlockTransfer`; here `FinishReceiving` and
`last-ack` stand for its end. `rStatus` is `over` however a file ended, and is not
final: neither `onError` (network.ts:2182) nor `cancelTransfer` (2223) stops the
pipeline, so a verification that is under way ends later (`VerificationEnds`), reports
progress and sets the file back to `transferring` (2131), or completes it (2150).
Messages are a set: a second copy of one is dropped by its `_msgId` or, for repeated
requests, handled as the first is.

### Presence

`groups`, `rooms` and `conns` are the server's three stores, `open` the sockets
and streams it holds; `link` is the connection a page uses, `view` what it knows.
A handler of `SignalingServer` is given as what it makes of each store and as the
messages it sends, in order; `Presence` runs it and hands the messages to the
pages in the same step. That is sound because a device's messages keep their
order on one connection and a page uses one connection; what arrives late on an
abandoned one is `LatePing`, `LatePoll` and `LaneTraffic`, bounded by `MaxStray`. A
page's `Connect` ends in its join and, if it believes to be in a room, in joining
that again, as the client's `onStateChange` does. A page that polls does so in this
order: the join is a POST (`Post`), which the server makes the device's connection
only if it has none (signaling/index.ts:380-383), and the requests to poll, which
always are registered, come after it (`LongPoll`, core/signaling/index.ts:380-384).
What the server sends in between goes to the connection that is registered, dead as
it may be; `missed` says that the last list of those nearby went to a connection the
page does not use. `Close` is the close event of a
connection, whenever the server sees it; `Depart` the disconnect timer. An
address is kept as its prefixes and host part (`VerifiedClientIp` finds it among the
addresses of a request, behind the proxies the server trusts by default or the
number of them in `TRUST_PROXY_HOPS`), and a network key is the tuple
that the server hashes: two devices share a key exactly when they agree on what
the key is made of.

### The signaling client

`client` has the fields of `SignalingLadderClient`; its methods are operators
from one value to the next, because several of them run in one event
(`RungFailures` calls `CleanupTransports` and `Dials`). A socket or stream is
`opening`, `open` or `closing`, whether or not the client still refers to it:
attempts that are overtaken go on, and their events call the same methods.
`network` says which transports get through; it gets worse at most `MaxOutages`
times and better at any time. `RelayLanes` takes the connections of both pages as
given and follows each frame from `sendBinaryRelay` over a lane, socket or POST
to the server and from there to the other page, or into the queue of its polls.

### Peers

In `PeerNegotiation` an RTCPeerConnection runs its operations one at a time in
the order of their calls (`ops`, as the standard has it), while the code handles
signals between two of them; what the code awaits is the next step of the
operation it awaits. Signals between two ends keep their order: they go over one
connection each way. `PeerPath` has the browser move `connectionState` and lets
the orchestrator, the grace timer and the poll of statistics answer.

### Small parts

`WorkerPool`: a worker's script is `loading`, `up` or `dead`; a call is `posted` to a
worker or done on the page (`direct`), at first or after a worker's answer that it
failed. Buffers that were posted are `taken`. `ResumeJournal`: `opening` holds the
flushes that wait for `indexedDB.open`, `txs` the transactions in order, `store` what
a later page would read. `ProbeRace`: the `then` and `finally` of each request are
steps of their own. `BrowserTabs`: a page looks at the stamp and writes it in two
steps, since localStorage has no lock between processes; a page of a copied tab does
neither, since `sessionStorage`, which is copied with the tab, has an id and a token
(`Copied`); time passes when messages are heard and due timers have run, except in
pages the browser holds back. `JoinLimiter`: attempts at any times.

## 3. Runs

Deadlock is not an error in any of them: the system stops when the files are
through, the tabs closed or the bounds reached.

| Run | Module, instance | Shows |
|---|---|---|
| `transfer_lossy` | `MCBlockTransfer`: 2 blocks, a frame and a control message lost, window 1 of 2, either side cancels, reads, writes and `finalize` fail | `TypeOK`, `AckedIsStored`, `WindowRespected`, `WrittenOnce`, `ImplementsDelivery` |
| `transfer_damage` | `MCBlockTransfer`: 1 block of 2 chunks, verified by a worker, a frame lost and one damaged without being lengthened, an early timeout | `DeliveredIntact`, `ReceiverNeverSpins` |
| `transfer_live` | `MCBlockTransfer`: 2 blocks, window 2, a frame or a control message lost, a pause; fair | `BlocksNotForgotten`, `SenderLearns`, `ReceiverDelivers` |
| `session_faults` | `MCTransferSession`: 2 files in one batch, asked for by a request and the manifest, read errors, failed verifications while others go on, no space, automatic acceptance that ends | `SessionInv`, `AnsweredOnce`, `StreamOnlyAccepted`, `NothingUnasked` |
| `session_cancel` | `MCTransferSession`: 2 files of a call each, either user cancels either, verifications that end after it | `NoIdleSlot` |
| `session_live` | `MCTransferSession`: 2 files, one request or the manifest lost, no space, automatic acceptance that ends; fair | `OneAtATime`, `SettledStays`, `EveryFileSettles` |
| `presence` | `MCPresence`: 3 devices of which two look the same, 2 networks, a room for 2, 2 connections of a device at a time, a stray message; 8 scenes, five of them with polls; fair | `TypeOK`, `IndexComplete`, `StaysReachable`, `SeatsTaken`, `NeighboursMeet`, `NoGhosts`, `GoneForgotten` |
| `parts` | `MCParts`: see below; fair | `PartsTypeOK`, and for each part the properties below |
| `cancel_truncates` | `MCBlockTransfer`: a cancel during a verification | finding: `NeverCorrupt` fails |
| `last_ack_lost` | `MCBlockTransfer`: the last acknowledgement is lost; fair | finding: `SenderCompletes` fails |
| `writer_fallback` | `MCBlockWriter`: a disk write fails after another succeeded | finding: `FallbackLosesNothing` fails |
| `glare` | `PeerNegotiation`: both ends make offers | finding: `OneGivesWay` fails |

The parts of `parts` share no state, so exploring them together would only
multiply their states: `part` names the one that moves, and the others stand
still in a state in which they have nothing to do, so that no fairness is asked
of them. A property of one part holds at the others' idle states trivially and
is checked in full on its own.

| Part | Instance | Properties |
|---|---|---|
| `BlockWriter` | 3 blocks, every kind of writer, an abort at any time, any operation of the disk fails | `FinalizeReturnsAll`, `TempFileRemoved` |
| `SignalingLadder` | 3 sockets and streams at once, 2 missed heartbeats, an outage, `destroy()`; `Timely` | `NeverStranded`, `BackOnSocket` |
| `PeerNegotiation` | 4 offers, a call of the service or a restart | `OneGaveWay` |
| `PeerPath` | both roles, no bound | `RelayKeepsRetrying` |
| `RelayLanes` | 2 frames, a lane, a poll queue of 1, a cut | `NoFrameLost` |
| `WorkerPool` | 2 calls, every kind | `VerifiedIsIntact`, `JobsSettle` |
| `ResumeJournal` | 3 blocks in bytes of 2 bits | `StoreIsRight` |
| `ProbeRace` | 3 services, 2 candidates | `NullOnlyIfNone` |
| `JoinLimiter` | 3 attempts in a window of 3 ticks, 7 ticks | `LimitHolds` |
| `BrowserTabs` | 2 tabs, periods 2 < 3 < 5, a tab that comes back, a tab that is a copy | `OneTabPerId`, `BusKnowsTabs` |

**Bounds.** Two blocks are enough for one block's retry to meet another's
verification, the completion and the window. Two chunks are enough for a gap and for a
late duplicate. One loss of each kind exercises each recovery path, and the second
timeout or damage the recovery of a recovery. `MaxLoss` bounds both kinds together.
`MaxRetries` is 1 where the code has 6: the branch behind the limit is reached.
Windows of 1 of at most 2 stand for 16 of 48: they are reached, used up and refilled.
In `transfer_live` the window is as large as the file, because a lost `credit-grant`
is never repeated and shrinks the window for good; a window of one would stay closed.
Two files are enough for one to run and one to wait. `MaxAttempts` of 0 or 1 stands
for 30 repetitions: both branches of the timer are taken; in `session_faults` the
manifest is the repetition of the request. Two files are too few for the exception
`revived` of `AnsweredOnce`: a third one's message has to find the prompt of the
second while the first comes back (section 4). With three files TLC finds that trace;
the theorems are about any number. `Faults` names what may go wrong in a session; each
of them may then happen at any time and any number of times.

Three devices are one more than a meeting needs: the third is a new id of the
first one's hardware, or the one too many for a room. Two connections of a device
are the one in use and the one it replaced. A scene lets only some devices do
some things, and each is aimed at one kind of trouble (named in `MCPresence`);
all of them at once would be out of reach. Three sockets are the attempt in use,
the one it overtook and an upgrade; when no number is left no attempt is made,
which `BackOnSocket` names (`Free`). Four offers are two exchanges that cross.
A window of three ticks in seven is over twice. Two tabs are the holder and the
one that wants the id; the theorem is about any number.

**Fairness.** The event loop of a tab runs every callback that is due: each
handler, await and timer is weakly fair. A message in flight arrives unless it is
lost. A user who paused resumes; nobody is required to pause, cancel or fail. In
the session `FinishReceiving` is strongly fair: `ReceiverDelivers` shows that a
pipeline whose frames keep arriving completes its file. A user who is asked
answers. `AutoAcceptEnds` waits for the loops under way, because 180 seconds are
longer than they take. The writer's promises settle. At the server, a dead
connection is found out by the pings (`signaling/index.ts`) and a grace period
ends; no page has to do anything. In the ladder, sockets have events, timers
fire and polls end; the network need not recover, `BackOnSocket` supposes that it
does. Workers load or fail to, run and answer; nobody has to call the pool.

## 4. Findings

- `cancel_truncates`: a cancel during a verification lets the receiver hand over
  a file without the blocks written before the cancel, marked completed
  (network.ts:2235, receiver/index.ts:264-329), against README.md:24.
- `last_ack_lost`: a lost last acknowledgement is never sent again, because the
  receiver has forgotten the file (network.ts:2177, 1722-1728); the sender
  resends its last block for ever, against docs/troubleshooting.md:27
  ("Transmissions resume from the last verified block using the IndexedDB journal").
- `writer_fallback`: a disk write that fails moves the later blocks to memory,
  and `finalize` returns these alone (storage/index.ts:270-290); a `close()` that
  rejects loses all of them (297-301). Against README.md:24.
- `glare`: an offer that comes while the polite end is still creating its own
  makes it roll back in a stable state, which the browser refuses; the offer is
  set and never answered (core/peer/index.ts:346), against docs/protocol.md:44-46.

`cancelTransfer`, `pauseTransfer` and `resumeTransfer` are public operations of
`NetworkService` that the user interface does not call yet; what needs a cancel
is about these operations and the handler of `cancel-transfer` (network.ts:1756).

Seen while modelling, and why some properties are stated with a condition; no run
is about these.

Transfer:

- a retry makes a credit out of nothing when the window is used up
  (sender/index.ts:144). That is the credit its block was taken for, unless the block
  is on its way all the same: `WindowRespected` holds only without early timeouts and
  without damaged frames. While a block is sent again, frames of its last sending that
  a hit of the routing hash made longer can complete its byte count; its hash differs,
  and the retry puts it in the queue beside the pump, with a credit of its own. What
  the pump sends then completes it and grants a credit as ever, and two blocks
  overrun a window of one;
- after `MAX_BLOCK_RETRIES`, and when writing a block fails whose buffers the
  worker took, the chunks stay and the `finally` calls `tryVerifyBlock` again, for
  ever (receiver/index.ts:211-221, 281-286): `ReceiverNeverSpins` is about a
  receiver that has not given the file up;
- a receiver that gives a file up does not tell the sender, which keeps resending:
  `BlocksNotForgotten` excepts that receiver too;
- only the first file of a batch repeats its request (network.ts:452), so a lost
  answer to another one leaves that file queued: `session_live` loses requests
  and the manifest, which covers for them, and no acceptance;
- `onError` forgets a sender without cancelling it (network.ts:1954-1962), and a
  sender that is cancelled while it waits for its data channel is started all the
  same (network.ts:1540, sender/index.ts:190-197): either may then send beside
  the next file, so `OneAtATime` and `SettledStays` hold while nobody cancels and
  every file can be read (`Undisturbed`);
- frames that arrive after the end of their file are kept as early ones
  (network.ts:1806), though no receiver will come;
- while files are received, requests of any other batch are accepted without a
  prompt (network.ts:335), so `NothingUnasked` speaks of the first prompt only;
- a file whose receiver was forgotten, after an error (network.ts:2182) or a cancel
  (2223), comes back as `transferring` when a block of it was under verification
  (2131). `hasActiveReceiveFromPeer` then answers for a file nobody receives, which
  is one more way to acceptance without a prompt. If a prompt is open at that moment,
  the next manifest has the prompt's first file answered (1626-1629, 334-337) while
  the user can still answer it: two loops prepare writers for one file, and it may be
  declined as well as sent. `AnsweredOnce` and what rests on one answer
  (`OneAtATime`, `SettledStays`, the part of `StreamOnlyAccepted` about declined
  files) therefore end with `revived`;
- a worker whose script does not load leaves its calls unanswered
  (workerPool.ts:50-52), and with them the block: `JobsSettle` excepts them.

Connections:

- the first failure of a socket sets a retry and, through its close event, a
  reconnection: two attempts run side by side, and the streams and sockets of the
  one that loses stay behind and report their errors as losses
  (core/signaling/index.ts:327); with sockets blocked the reconnection pulls a
  client off a stream that works. `BackOnSocket` is about a network in which
  sockets get through again;
- polls never reset the missed heartbeats, so that a client that polls drops its
  connection again and again (docs/protocol.md:30 speaks of consecutive misses);
- a socket that opens after `destroy()` brings the client back to `connected`;
- an offer that comes while the impolite end sets an answer is ignored although it
  crosses nothing: the other part of `crossed`, with `glare`, in `OneGaveWay`;
- `isServerRelayActive` is never reset (core/path/index.ts), so that from the
  second loss on there is neither a fallback nor a retry: `again` in
  `RelayKeepsRetrying`;
- a poll queue drops its oldest frames when it is full, a page that changes its
  transport leaves frames behind, and `send`'s result is not looked at: `spoiled`
  in `NoFrameLost`.

Server:

- a device that polls, or whose last contact was a POST or a lane, is never
  missed: `unwatched` in `GoneForgotten`; a late message of a replaced socket
  registers that socket again: `stray` in `StaysReachable`;
- an evicted device keeps its seat in rooms, and others are not always told:
  `Unique` in `SeatsTaken` and `NeighboursMeet`; two live devices that look the
  same can evict each other;
- a device that moved to another network, or that probed for the first time after
  it joined, stays listed by those it no longer meets until their next heartbeat:
  `Settled` in `NoGhosts`; rooms that expire end without a word;
- `ensureDeviceSession` replaces a session's keys before `registerDevice` takes
  the old ones out of the index (signaling/index.ts:606), which leaves entries
  without a session's key, though groups/index.ts:39 says that old keys are cleaned
  up on a registration: `IndexComplete` speaks of the other direction, and a device
  that moves and then rescans is shown devices of the network it left: `Traced` in
  `NoGhosts`;
- `create-room`, `join-room` and `leave-room` give the sender a session and bind its
  connection, but tell nobody who is nearby: a device that moved, or whose
  connection had been given up, and that is heard of first by one of them stays
  unseen until its next heartbeat: `Plain` in `NeighboursMeet` and `NoGhosts`;
- a page that begins to poll sends its join before its first request to poll
  (core/signaling/index.ts:380-384), and the server does not make a POST the device's
  connection while another one is registered (signaling/index.ts:380-383). If that
  one is dead and not found out yet, the list of those nearby goes there, and the
  page sees nobody, or whom it saw before, until its next heartbeat is answered:
  `missed` in `NeighboursMeet` and `NoGhosts`. A request to poll that is still under
  way when the page is back on a socket does the same;
- nothing sets `roomPassphrase`, with which the client would join a locked room
  again, and a failed join leaves it in the room it believes to be in.

Page:

- a flush that waits for the database can be overtaken by a later one, and then
  writes the older record last: `raced` in `StoreIsRight`. Nothing reads the
  journal (`getRecord`, `removeRecord` and `pruneExpired` have no caller), though
  docs/troubleshooting.md:27 speaks of resuming;
- two pages that look at the stamp at once, one that comes back, one in a copied tab
  (network.ts:77-82: `sessionStorage` is copied, and its id is taken without a look
  at the stamp), or one whose timers are held back can have the id of another: `odd`
  and `late` in `OneTabPerId`.

## 5. Proofs

**Transfer.** `TypeCorrect` (`Spec => []TypeOK`) has one lemma for each action
with the type of what it changes; `TriedTypes` collects what `TryVerify` can leave
behind, since four actions end in it.

The safety properties are not inductive: nothing in `AckedIsStored` forbids an
acknowledgement in flight for a block that is not verified, or a block that is
verified and once more under verification. `IInv` adds what makes them so:

- `AcksFollow`: an acknowledgement in flight or arrived names a verified block,
  and completion needs all of them;
- `WritesMatch`: only bytes that matched their hash reach the writer, a verified
  block is no longer under verification, and it stays stored unless aborted;
- `ClosedOnce`: the file is closed with every block verified, and once.

From `Spec => []IInv` (`InvariantHolds`) follow `AckedIsStoredAlways`,
`DeliveredIntactAlways`, `CompletedIsWholeAlways` and `WrittenOnceAlways`.
`TransferImplementsDelivery` maps `stored` to `verified`, `confirmed` to
`acked`, `file` to what `output` is worth and `aborted` to `rxCancelled`; it needs
the invariant for the two steps the abstract specification guards (confirming a
stored block, handing over a whole file). The only assumptions are those on the
constants: numbers of blocks and chunks are positive, bounds are natural numbers.

`BlocksNotForgottenAlways` has no others either. Its invariant `MemoryInv` adds
three parts to `IInv`: a sender that was cancelled is not the service's any more
(`Stopped`), the acknowledgement of a verified block has arrived or is on its way
(`AcksComing`), and a block that is not verified is queued, being sent, or known to
the receiver (`Remembered`). No case of the proof uses the watchdog: while no control
message is lost, the receiver's stall timer alone keeps a block from being
forgotten, whatever a pause does to the sender's timers.

`ReceiverNeverSpinsAlways` supposes that no frame is longer than the one that was cut
(`DamageKinds` without `"long"`). `CountTrue` says that the count of a block that is
not under verification is the length of what its map holds, buffers that were taken
away counting nothing; `EnoughIsWhole` that chunks of at most their length add up to
the block only when none is missing. A receiver that is active therefore finds a
whole block whenever it counted enough. `SpinsAfterEnd` leaves the one place where the
count is wrong: after the pipeline was given up.

`WindowRespectedAlways` supposes `MaxEarly = 0` and `MaxDamage = 0`, for the reasons in
section 4, and nothing about losses, writers, pauses or cancels. `WindowInv` has
`CreditsBound`: the credits left, those on their way and the blocks outstanding are
together at most the first ones. For each block `Apart` says that it is in one place:
in the queue, asked for by one message, or busy, that is being sent, on a route, at
the receiver or verified. So a block that returns to the queue was outstanding, and a
block that is verified is not in the queue. `AllGood` rules out the two retries that do
not come from a stall timer.

**Writer.** `WriterInvHolds` and `FinalizeReturnsAllAlways` are about any finite
set of blocks. What `finalize` returns says nothing about where the blocks were
before; `Placed` follows them from the queue to memory, handle or stream and says
for each kind of writer that the place `finalize` reads is the one they went to,
as long as no operation of the disk failed and nobody aborted.

**Session.** `TransferSessionProofs` is about any number of files in any batches,
any number of repetitions, any losses of control messages and any set of
`Faults`. `SessionInvHolds` proves `SessionInv`, which adds to the types:

- `SlotInv`, the sending side: who waits was accepted, waits once, and neither
  opens nor sends; at most one file has the slot, it is known to the service and
  opens or sends, and nobody waits while the slot is free. `PumpDoes` says what
  `pumpAcceptedSenders` leaves behind for any queue, and every handler that ends
  in it is proved through that lemma. `NoIdleSlotHolds` follows, with cancels.
- `PromptInv` and `TurnInv`, the receiving side. `PromptInv` always holds: what is in
  a prompt or a loop was asked for, a file is in one prompt, and nothing is received
  but behind the user's word. `TurnInv` holds until `revived`: a file is in a prompt or
  a loop, once, until it is registered or declined, and there are no prompts while
  files are accepted by themselves. `AnsweredOnce` alone is not inductive: two loops
  could come from one file that is in two prompts. `AnsweredOnceHolds` and
  `NothingUnaskedHolds` follow, the second without a condition.
- `MessageInv`, what is in flight: an acceptance names a file that is registered,
  a decline one that never will be, and a frame or a last acknowledgement one that
  was started. It carries `StreamOnlyAcceptedHolds` from one side to the other:
  what the sender knows is an old message of the receiver.
- `UndisturbedInv`: without cancels and read errors, and until `revived`, what opens
  or sends has the slot, and what is settled is forgotten. `OneAtATimeHolds` and
  `SettledStaysHolds` need it, and have those conditions.

**Worker pool.** `VerifiedIsIntactAlways` is about any number of calls. `PoolInv`
adds `BytesTrue`: what a call still holds of its bytes, and an answer on its way,
are true of the bytes it was given. One lemma says that a step that changes a
single call keeps the invariant, and each action is an instance of it.

**Ladder.** `NeverStrandedAlways` is about any number of sockets, any networks and
outages, and timers that fire as early as they like: it does not need `Timely`,
nor fairness. `LadderInv` is `NeverStranded` with the types and the fact that a
stream has no close event; without that fact a closed stream would count as an
attempt that is still to end. There is one lemma for each method of the client,
and the actions are proved through them.

**Tabs.** `OneTabPerIdAlways` is about any number of tabs and any periods with
`Beat < FreshFor`. Two pages with one id are impossible because the holder's stamp
is never older than its timer (`HolderIsFresh`), hence fresh, and because a page
that found the base id free finds it free until it takes it (`FreeIsFree`), no
other page looking at the same time (`LookAlone`); `OwnId` says that the id of a page
that nothing happened to is the base id or its tab's own, and its token its own, so
that a copy, which has both from another tab, may refresh the stamp but not for it.

`BusKnowsTabsAlways` follows the messages between the tabs. That two open pages
list each other is not inductive, because a page is listed only some time after
it opened: `AllKnown` says that page t has heard of page u since u's timer ran
last, or is about to, or that u is about to be asked. A farewell on its way is
what could take a listed page away; `GoneTabs` says that its sender is closed and
that nobody can take over its id before it is heard, since the stamp is still
fresh. `Ages` bounds what a page that is gone can be listed for.

**Journal.** `StoreIsRightAlways` is about files of any number of blocks and bytes
of any width. `BitmapTrue` says which bit stands for which block (no two share
one), `RecordsTrue` that no record, in memory, waiting for the database, in a
transaction or stored, lists a block that is not verified, and `LatestIsThere`
where the newest record is: at the end of the first of those queues that is not
empty. `raced` marks the overtaking that section 4 names.

**Probe.** `NullOnlyIfNoneAlways` is about any finite set of services. `PendingTrue`
ties the counter of the race to the promises that are not done, by cardinality;
`HeardDecides` and `NullMeansOver` say that an address decides the race before its
promise is done, so the last `finally` cannot find an undecided race behind a
heard address.

**Limiter.** `LimitHoldsAlways` is about any limit and any window. The limiter
does not keep the times of failures, so `RecordTrue` relates its count to the last
failures of the history and its reset to the first of them; `Spread` says that
fewer than the limit lie in the window before, which together bound what two
windows side by side let through: twice the limit less two.

**Path and lanes.** `RelayKeepsRetryingAlways` has three conjuncts besides the
types: statistics are not asked for before the connection came up (`NotYetUp`);
while the server carries the frames nothing overwrites the badge (`ServerHasIt`);
a failed connection has been handed over (`FailedHandsOver`). In
`NoFrameLostAlways` nothing is cut unnoticed (`CutsSpoil`), and no frame waits twice
in a queue (`Once`), without which the answer to a poll would take one frame and
leave its copy.

**Negotiation.** `OneGaveWayAlways` is about any number of offers, of calls of the
service and of ICE restarts, in any order of the two ends' handlers, the browsers'
operations and the signals between them. That the ends agree once all is quiet says
nothing of the states before, so `NegInv` follows every description from the moment
it is made until it is agreed on:

- `Chain`, for each end: what waits in the browser's chain of operations and in which
  order (`Ordered`: one offer being made, one to be taken, one answer to be set and one
  to be given; a rollback is followed by the offer it makes room for), and how that
  goes with the signaling state and the flags. `Kind` forgets of an operation all but
  what it is for.
- `InOnePlace` and `Named`: a pending offer that has arrived waits in the other end's
  chain, is pending there, is answered on the way back, or its answer waits in the
  chain of its own end; it is in one of these places, under its own number.
- `Firm` and `Yielding` are the two roles. The impolite end's offer is never given up:
  while it is pending it is on its way or in one of those places. The polite end may
  have given up an offer that is still on its way; the impolite one then ignores it
  (`Stale`), or an answer goes before any later offer (`Behind`), and when all offers
  of the polite end are lost, the impolite one has made another or will (`Outbid`).
- `Matching`: the ends differ in what they agreed on only while an answer is on its
  way back.
- `Paired` and `Coming`: a candidate follows its description, and the candidates of
  a description that was taken are the next signal, in the queue, added, or to be
  added after it. This holds until `crossed`.

There is one lemma for each handler and each operation of the browser, and under it
one about the types and `Chain` of the end that moves, one about the descriptions
(`...Skeleton`) and one about the candidates. `QuietStable` draws the conclusion: when
nothing is on its way and no operation waits, no offer can be pending. No condition
but `crossed` is needed, and `glare` shows that it is. `NegotiationTypeAlways` follows
from the same invariant: an answer is only set while an offer of theirs is pending.

**Presence.** `PresenceProofs` is about any sets of devices, places, networks,
connections and rooms. `PresenceInv` holds the types (`PlacesTyped`,
`GroupsRight`, `RoomsRight`) and:

- `Indexed`, for each device: its session's keys are in the index. An eviction
  takes the entries of one device out, so `Registering` says that `registerDevice`
  leaves every other device as it was or without a session (`Renewed`).
- `GraceAlone` and `Newer`, the two halves of reachability: a grace period runs
  only for a device without a connection, and while no late message came, the
  registered connection is the one the page uses. Every message of a device ends
  its grace period first (`Ensuring`), which is why it can register.
- `Seated` with the bounds of `RoomsRight`: a device that leaves the groups leaves
  its rooms in the same handler, unless another of its name took its session, which
  is what `Unique` excludes. `Players` says that only devices of the scene act.

From it follow `PresenceTypeOKAlways`, `IndexCompleteAlways`,
`StaysReachableAlways` and `SeatsTakenAlways`. There is a lemma for each method of
the stores, then one for each handler. `PresenceAssumption` asks for bounds that
are numbers, places that exist, pairs of two different devices, keys made of the
ones `Keys` has, and signatures that are a name and a model; that is what
`MCPresence` defines them as.

`NeighboursMeetAlways` and `NoGhostsAlways` speak of what a page remembers of every
message it was ever sent. A handler sends a sequence of messages, of any length, and
the page folds over it. `Least`, the least number of a set, comes from the library's
`WFMin` and `NatLessThanWellFounded`, which take a set and no operator; `Induction`
follows from it for sets of numbers, and with `HandlingExists` every fold over
messages is a sequence of views. `HandlingReaches` is what the rest uses: what every
message to a page leaves true is true at the end, and what one of them makes true,
if the others leave it. So `Presentation` and `Departs` list only which messages may
be in a handler's output, and what must be; the order, which the code takes from its
maps, does not matter (`PresentationHeard`, `DepartureHeard`), and messages about
rooms count for nothing (`Quiet`). `PresentsList` and `NoList` say the same of `missed`:
only a presentation sends a list, and to nobody but the one who presents itself.

`MeetInv` adds to `PresenceInv`:

- `Meeting`: for every two devices, not only those in `Pairs`, what the two properties
  say, of pages that have not missed their last list. The proofs need the server's
  side of it:
- `Traces`: the index lists a device under no key its session does not have, unless
  it moved and rescanned. With `Indexed`, the two directions together, the server
  tells exactly the devices that share a key (`Visible`).
- `InPlace` and `KeysKnown`: a device that does not move has the address and the
  keys of its first place, or of its last probe. A heartbeat can therefore take no
  key from it, which is why nobody needs to be told that it no longer meets them.
- `Attached`: a page that is online and has not missed its last list is registered
  over the connection it uses, and has a session. A message about rooms, which presents
  nobody, then changes no session; and a page that polls before its first request
  to poll is, unless no connection was registered, one that missed its list.
- `Known` and `Watching`: the registered devices and the rooms are finitely many, so
  that sequences of them exist; the lists of a page have their types.

Looking for `MeetInv` showed which histories the properties do not hold for, in scenes
the run does not have: three of the conditions of section 4 (`Plain`, `Settled`,
`Traced`). `MeetInv` was checked by TLC first, on nine scenes and two choices of
`Home`, among them pages that move, rescan and enter rooms.

Checked by TLC only: liveness (`SenderLearns`, `ReceiverDelivers`,
`EveryFileSettles`, `TempFileRemoved`, `GoneForgotten`, `BackOnSocket`,
`JobsSettle`), which is out of the prover's reach; and `PartsTypeOK`, the conjunction
of the parts' types as `MCParts` composes them.

## 6. What could come next

- An abstract specification of presence, a device is listed exactly while one of
  its connections is, or was within the grace, and `Presence` as its refinement.

## 7. Not modelled

The user interface, sounds, vibration, diagnostics, device detection, history
and personal space (no protocol); encryption and hashing (functions of a
library); bundle formats; TURN credentials, address parsing, metrics and static
files of the server; deployment files.

What has no caller in the repository: the options to resume a transfer
(`resumeMissingBlocks`, `resumeWithMissingBlocks`, `initialVerifiedBlocks`), the
journal's reading side, `pickStorageStrategy`, which alone would choose the writer
for the user's own file system, `probeChannel`, the `send` of the encrypted relay
transport (frames go through `sendBinaryRelay` as they are), and the resume
tokens, `reconnect` message and replay of missed messages of the server, which no
client asks for.

In the session: chat messages, `destroy()`, and more than two devices, whose
transfers share nothing but the limits of `seenCtl`. At the server: the limits on
messages per second and on relayed bytes.
