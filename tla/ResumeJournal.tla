--------------------------- MODULE ResumeJournal ---------------------------
(***************************************************************************)
(* What a receiving page writes down of its progress: the bitmap of the    *)
(* verified blocks (web transfer/resume/bitmap.ts) and the journal that    *)
(* keeps it in an IndexedDB store (transfer/resume/journal.ts), for one    *)
(* transfer. Records are collected for a while and written together, each  *)
(* flush waits for the database, and the page may go away at any point.    *)
(*                                                                         *)
(* The database is external: requests to open it succeed in their order or *)
(* fail, transactions are carried out in theirs or fail.                   *)
(***************************************************************************)
EXTENDS Naturals, Sequences

CONSTANTS
  TotalBlocks,     \* the blocks of the file
  Width            \* the bits of a byte

ASSUME BitmapAssumption == TotalBlocks \in Nat \ {0} /\ Width \in Nat \ {0}

VARIABLES
  bits,         \* the bitmap: the offsets of the bits that are set in each byte
  verified,     \* history: the blocks whose onBlockVerified was called
  latest,       \* the record in memoryFallback
  pending,      \* the record in pendingWrites
  debounce,     \* debounceTimer
  db,           \* the database is open
  opening,      \* requests to open it: the record of the flush that waits, in order
  txs,          \* the records of the transactions, in order
  store,        \* the record in the store
  up,           \* the page is there
  lost,         \* history: the database could not be opened, or a write failed
  raced         \* history: a flush overtook one that waited for the database

journalVars == <<bits, verified, latest, pending, debounce, db, opening, txs, store, up, lost, raced>>
diskVars == <<db, opening, txs, store, lost, raced>>

BlockIndices == 0 .. TotalBlocks - 1
ByteLength == (TotalBlocks + Width - 1) \div Width
Bytes == 0 .. ByteLength - 1
NoRecord == <<>>
Records == UNION {[1 .. n -> SUBSET (0 .. Width - 1)] : n \in {0, ByteLength}}

JournalTypeOK ==
  /\ bits \in [Bytes -> SUBSET (0 .. Width - 1)]
  /\ verified \subseteq BlockIndices
  /\ {latest, pending, store} \subseteq Records
  /\ {debounce, db, up, lost, raced} \subseteq BOOLEAN
  /\ \A i \in DOMAIN opening : opening[i] \in Records
  /\ \A i \in DOMAIN txs : txs[i] \in Records

\* The constructor starts to open the database.
JournalInit ==
  /\ bits = [byte \in Bytes |-> {}]
  /\ verified = {}
  /\ latest = NoRecord /\ pending = NoRecord /\ store = NoRecord
  /\ debounce = FALSE /\ db = FALSE /\ lost = FALSE /\ raced = FALSE
  /\ opening = <<NoRecord>>
  /\ txs = <<>>
  /\ up = TRUE

-----------------------------------------------------------------------------
\* As OffsetIn, the place of the byte being taken for that of the bit (a plausible
\* bug).
OffsetDivided(b) == (b \div Width) % Width

OffsetIn(b) == b % Width

MarkVerified(m, b) == [m EXCEPT ![b \div Width] = @ \cup {OffsetIn(b)}]
IsVerified(m, b) == b % Width \in m[b \div Width]
MissingBlocks(m) == {b \in BlockIndices : ~IsVerified(m, b)}

\* toBase64 and fromBase64: the bytes one after the other.
ToBase64(m) == [i \in 1 .. ByteLength |-> m[i - 1]]
FromBase64(s) == [byte \in Bytes |-> s[byte + 1]]

-----------------------------------------------------------------------------
\* onBlockVerified, with markVerified and recordProgress
BlockVerified(b) ==
  /\ up
  /\ b \notin verified
  /\ bits' = MarkVerified(bits, b)
  /\ verified' = verified \cup {b}
  /\ latest' = ToBase64(bits')
  /\ pending' = latest'
  /\ debounce' = TRUE
  /\ UNCHANGED <<diskVars, up>>

\* flushNow, for the timer or because the page is hidden: if something is pending,
\* it is written at once to an open database, or else when the flush has opened it.
Flush ==
  /\ up
  /\ debounce \/ pending # NoRecord
  /\ debounce' = FALSE
  /\ pending' = NoRecord
  /\ LET records == IF pending = NoRecord THEN <<>> ELSE <<pending>> IN
     /\ txs' = IF db THEN txs \o records ELSE txs
     /\ opening' = IF db THEN opening ELSE opening \o records
     /\ raced' = (raced \/ (db /\ records # <<>> /\ \E i \in DOMAIN opening : opening[i] # NoRecord))
  /\ UNCHANGED <<bits, verified, latest, db, store, up, lost>>

\* onsuccess of the first request: its flush goes on.
OpenedWith(left) ==
  /\ up
  /\ opening # <<>>
  /\ db' = TRUE
  /\ opening' = Tail(opening)
  /\ txs' = IF Head(opening) = NoRecord THEN txs ELSE Append(txs, Head(opening))
  /\ pending' = left
  /\ UNCHANGED <<bits, verified, latest, debounce, store, up, lost, raced>>

\* As Opened, pendingWrites being cleared when the database is there (a plausible bug).
OpenedClears == OpenedWith(NoRecord)

Opened == OpenedWith(pending)

\* onerror: its flush gives up.
OpenFails ==
  /\ up
  /\ opening # <<>>
  /\ opening' = Tail(opening)
  /\ lost' = TRUE
  /\ UNCHANGED <<bits, verified, latest, pending, debounce, db, txs, store, up, raced>>

\* A transaction is carried out, in the background if the page is gone, or fails.
Commit ==
  /\ txs # <<>>
  /\ store' = Head(txs)
  /\ txs' = Tail(txs)
  /\ UNCHANGED <<bits, verified, latest, pending, debounce, db, opening, up, lost, raced>>

CommitFails ==
  /\ txs # <<>>
  /\ txs' = Tail(txs)
  /\ lost' = TRUE
  /\ UNCHANGED <<bits, verified, latest, pending, debounce, db, opening, store, up, raced>>

\* The page is gone, whatever it was about to write.
PageGone ==
  /\ up
  /\ up' = FALSE
  /\ opening' = <<>>
  /\ UNCHANGED <<bits, verified, latest, pending, debounce, db, txs, store, lost, raced>>

JournalNext ==
  \/ \E b \in BlockIndices : BlockVerified(b)
  \/ Flush \/ Opened \/ OpenFails \/ Commit \/ CommitFails \/ PageGone

JournalSpec == JournalInit /\ [][JournalNext]_journalVars

-----------------------------------------------------------------------------
\* Once a page that is there has nothing more to write, the store has the latest
\* record: none is dropped between the timer, the flush and the database, unless a
\* write failed or a flush overtook another that still waited.
StoreIsLatest ==
  up /\ ~debounce /\ opening = <<>> /\ txs = <<>> /\ ~lost /\ ~raced => store = latest

\* At any time, and after the page is gone, a block that the store lists was
\* verified. The bitmap itself lists every verified block, whatever byte it falls into.
StoreIsTrue ==
  /\ MissingBlocks(bits) = BlockIndices \ verified
  /\ store # NoRecord => BlockIndices \ MissingBlocks(FromBase64(store)) \subseteq verified

\* journal.ts:61-102: what a page that comes back would read is the truth, and the
\* whole of it as soon as the journal is at rest.
StoreIsRight == StoreIsLatest /\ StoreIsTrue
=============================================================================
