---------------------------- MODULE JoinLimiter ----------------------------
(***************************************************************************)
(* The limit on failed attempts to join a room (RoomManager, signaling     *)
(* rooms/index.ts): the server keeps, for a network and a code, the number *)
(* of failures in a window and a lock. Checking and recording are steps of *)
(* one handler (signaling index.ts:851-868); time passes between attempts. *)
(***************************************************************************)
EXTENDS Integers, Sequences

CONSTANTS
  Attempts,     \* ROOM_JOIN_RATE_LIMIT_ATTEMPTS
  Window,       \* ROOM_JOIN_RATE_LIMIT_WINDOW_MS, in ticks
  MaxTime       \* bound of the clock

ASSUME LimitAssumption ==
  /\ Attempts \in Nat \ {0}
  /\ Window \in Nat \ {0}
  /\ MaxTime \in Nat

VARIABLES
  now,          \* Date.now()
  record,       \* the record of joinRateLimits
  failedAt      \* history: the times at which attempts failed, in order

limiterVars == <<now, record, failedAt>>

\* No record: `failures' is at least 1 in every other.
NoFailures == [failures |-> 0, lockedUntil |-> 0, resetAt |-> 0]

LimiterTypeOK ==
  /\ now \in 0 .. MaxTime
  /\ record \in [failures : Nat, lockedUntil : 0 .. MaxTime + Window, resetAt : 0 .. MaxTime + Window]
  /\ failedAt \in Seq(0 .. MaxTime)

LimiterInit ==
  /\ now = 0
  /\ record = NoFailures
  /\ failedAt = <<>>

\* checkRateLimit: whether an attempt is allowed, and what the check changes.
Allowed(f) ==
  \/ f = NoFailures
  \/ f.lockedUntil <= now /\ (f.resetAt < now \/ f.failures < Attempts)

CheckRateLimit(f) ==
  IF f = NoFailures \/ f.lockedUntil > now THEN f
  ELSE IF f.resetAt < now THEN NoFailures
  ELSE IF f.failures >= Attempts THEN [f EXCEPT !.lockedUntil = now + Window]
  ELSE f

\* As Relocked, one attempt too late (a plausible bug).
RelockedLate(f) == IF f.failures > Attempts THEN [f EXCEPT !.lockedUntil = now + Window] ELSE f

Relocked(f) == IF f.failures >= Attempts THEN [f EXCEPT !.lockedUntil = now + Window] ELSE f

RecordJoinFailure(f) ==
  Relocked(IF f = NoFailures \/ f.resetAt < now
           THEN [failures |-> 1, lockedUntil |-> 0, resetAt |-> now + Window]
           ELSE [f EXCEPT !.failures = @ + 1])

\* An attempt with a wrong password or an unknown code
JoinFails ==
  /\ Allowed(record)
  /\ record' = RecordJoinFailure(CheckRateLimit(record))
  /\ failedAt' = Append(failedAt, now)
  /\ UNCHANGED now

\* An attempt is turned away.
Refuse ==
  /\ ~Allowed(record)
  /\ record' = CheckRateLimit(record)
  /\ UNCHANGED <<now, failedAt>>

\* An attempt that succeeds leaves no trace but what the check changed.
JoinSucceeds ==
  /\ Allowed(record)
  /\ record' = CheckRateLimit(record)
  /\ UNCHANGED <<now, failedAt>>

ClockTick ==
  /\ now < MaxTime
  /\ now' = now + 1
  /\ UNCHANGED <<record, failedAt>>

LimiterNext == JoinFails \/ Refuse \/ JoinSucceeds \/ ClockTick

LimiterSpec == LimiterInit /\ [][LimiterNext]_limiterVars

-----------------------------------------------------------------------------
\* Whatever the times of the attempts, and although the window of the failures
\* starts anew with the first one after it, no more than twice the limit less two
\* fail in any stretch as long as a window (one, if the limit is one).
MostFailures == IF Attempts = 1 THEN 1 ELSE 2 * Attempts - 2

LimitHolds ==
  \A i, j \in DOMAIN failedAt : j - i >= MostFailures => failedAt[i] + Window <= failedAt[j]
=============================================================================
