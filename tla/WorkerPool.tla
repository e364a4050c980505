----------------------------- MODULE WorkerPool -----------------------------
(***************************************************************************)
(* TransferWorkerPool (web transfer/worker/workerPool.ts) and its two      *)
(* workers (transferCore.worker.ts): blocks are read and hashed, or put    *)
(* together and verified, off the page's thread when that works and on it  *)
(* when not. Jobs run side by side; a worker carries out several at once   *)
(* and answers in any order.                                               *)
(*                                                                         *)
(* The browser is external: whether workers can be created, whether their  *)
(* script loads (onerror fires only when it does not) and whether a file   *)
(* can still be read.                                                      *)
(***************************************************************************)
EXTENDS Naturals, FiniteSets

CONSTANTS
  Jobs,     \* the calls of the pool
  Kinds     \* what a call may ask: "slice", "verify", "small" (verified on the page)

ASSUME JobsAssumption == IsFiniteSet(Jobs) /\ Kinds \subseteq {"slice", "verify", "small"}

VARIABLES
  support,    \* workerSupported: "unknown" for null
  workers,    \* the workers there are, and what became of their script
  turn,       \* roundRobin
  jobs,       \* the calls
  inbox       \* answers on their way from the workers

poolVars == <<support, workers, turn, jobs, inbox>>

PoolSize == 2
None == 0

\* `given' is what the call was given, `chunks' what it holds of it: nothing when the
\* buffers went to a worker, in this call or in one before it.
PoolTypeOK ==
  /\ support \in {"unknown", "yes", "no"}
  /\ workers \in [1 .. PoolSize -> {"none", "loading", "up", "dead"}]
  /\ turn \in 0 .. PoolSize - 1
  /\ jobs \in [Jobs -> [phase : {"idle", "posted", "direct", "done", "error"},
                        kind : Kinds, chunks : {"intact", "damaged", "taken"}, given : {"intact", "damaged"},
                        worker : 0 .. PoolSize, result : {"unset", "block", "unverified"}]]
  /\ inbox \subseteq (Jobs \X {"block", "unverified", "error"})

\* A call before it is made; one for a block may come with buffers that are gone.
Fresh(kind) ==
  {[phase |-> "idle", kind |-> kind, chunks |-> c[1], given |-> c[2], worker |-> None,
    result |-> "unset"] :
     c \in IF kind = "slice" THEN {<<"intact", "intact">>}
           ELSE {<<"intact", "intact">>, <<"damaged", "damaged">>, <<"taken", "intact">>}}

PoolInit ==
  /\ support = "unknown"
  /\ workers = [w \in 1 .. PoolSize |-> "none"]
  /\ turn = 0
  /\ jobs \in [Jobs -> UNION {Fresh(kind) : kind \in Kinds}]
  /\ inbox = {}

-----------------------------------------------------------------------------
There == {w \in 1 .. PoolSize : workers[w] # "none"}

\* As NextTurn, beyond the last worker (a plausible bug).
NextTurnFree(last) == last + 1

\* The workers take turns.
NextTurn(last) == (last + 1) % PoolSize

\* ensureWorkers: the workers are created once. When one cannot be, those before
\* it stay without being used.
EnsureWorkers(used) ==
  \/ /\ support # "no"
     /\ workers' = IF There = {} THEN [w \in 1 .. PoolSize |-> "loading"] ELSE workers
     /\ support' = IF There = {} THEN "yes" ELSE support
     /\ used = turn + 1
     /\ turn' = NextTurn(turn)
  \/ /\ support # "no"
     /\ There = {}
     /\ \E n \in 0 .. PoolSize - 1 :
          workers' = [w \in 1 .. PoolSize |-> IF w <= n THEN "loading" ELSE "none"]
     /\ support' = "no"
     /\ used = None
     /\ UNCHANGED turn
  \/ /\ support = "no"
     /\ used = None
     /\ UNCHANGED <<support, workers, turn>>

\* sliceAndHashBlock and assembleAndVerifyBlock, up to the answer they wait for. The
\* buffers of a block go over to the worker, unless they are part of larger ones,
\* which are copied; a buffer that is gone makes postMessage() throw.
Posted(job, used) ==
  {[job EXCEPT !.phase = "posted", !.worker = used, !.chunks = left] :
     left \in IF job.kind = "verify" THEN {job.chunks, "taken"} ELSE {job.chunks}}

Call(j) ==
  /\ jobs[j].phase = "idle"
  /\ \E used \in 0 .. PoolSize :
       /\ EnsureWorkers(used)
       /\ \E job \in IF used = None \/ jobs[j].kind = "small" \/ jobs[j].chunks = "taken"
                    THEN {[jobs[j] EXCEPT !.phase = "direct"]} ELSE Posted(jobs[j], used) :
            jobs' = [jobs EXCEPT ![j] = job]
  /\ UNCHANGED inbox

\* The script of a worker is loaded, or is not.
Loads(w) ==
  /\ workers[w] = "loading"
  /\ workers' = [workers EXCEPT ![w] = "up"]
  /\ UNCHANGED <<support, turn, jobs, inbox>>

LoadFails(w) ==
  /\ workers[w] = "loading"
  /\ workers' = [workers EXCEPT ![w] = "dead"]
  /\ support' = "no"
  /\ UNCHANGED <<turn, jobs, inbox>>

\* ctx.onmessage: the hash tells a block that was damaged on its way; a file that
\* cannot be read is an error, and so is a block longer than it should be.
Outcomes(kind, given) ==
  IF kind = "slice" THEN {"block", "error"}
  ELSE IF given = "intact" THEN {"block"} ELSE {"unverified", "error"}

WorkerAnswers(j) ==
  /\ jobs[j].phase = "posted"
  /\ workers[jobs[j].worker] = "up"
  /\ \A a \in inbox : a[1] # j
  /\ \E answer \in Outcomes(jobs[j].kind, jobs[j].given) : inbox' = inbox \cup {<<j, answer>>}
  /\ UNCHANGED <<support, workers, turn, jobs>>

-----------------------------------------------------------------------------
\* As JobSettled, an error being taken for no answer (a plausible bug).
JobSettledUnlessError(job, answer) ==
  IF answer = "error" THEN job ELSE [job EXCEPT !.phase = "done", !.result = answer]

\* onmessage of a worker and what the call does next: on an error it goes on here.
JobSettled(job, answer) ==
  IF answer = "error" THEN [job EXCEPT !.phase = "direct"]
  ELSE [job EXCEPT !.phase = "done", !.result = answer]

AnswerArrives(j) ==
  /\ \E answer \in {a \in inbox : a[1] = j} :
       /\ inbox' = inbox \ {answer}
       /\ jobs' = [jobs EXCEPT ![j] = JobSettled(@, answer[2])]
  /\ UNCHANGED <<support, workers, turn>>

\* As Assembled, the hash not being compared (a plausible bug).
AssembledUnchecked(job) == {[job EXCEPT !.phase = "done", !.result = "block"]}

\* On the page: chunks that a worker has taken are empty, and do not verify; a
\* file that cannot be read, or a block that is too long, is an error.
Assembled(job) ==
  IF job.kind = "slice"
  THEN {[job EXCEPT !.phase = "done", !.result = "block"], [job EXCEPT !.phase = "error"]}
  ELSE IF job.chunks = "intact" THEN {[job EXCEPT !.phase = "done", !.result = "block"]}
  ELSE {[job EXCEPT !.phase = "done", !.result = "unverified"]}
       \cup (IF job.chunks = "damaged" THEN {[job EXCEPT !.phase = "error"]} ELSE {})

RunsHere(j) ==
  /\ jobs[j].phase = "direct"
  /\ \E job \in Assembled(jobs[j]) : jobs' = [jobs EXCEPT ![j] = job]
  /\ UNCHANGED <<support, workers, turn, inbox>>

PoolNext ==
  \/ \E j \in Jobs : Call(j) \/ WorkerAnswers(j) \/ AnswerArrives(j) \/ RunsHere(j)
  \/ \E w \in 1 .. PoolSize : Loads(w) \/ LoadFails(w)

\* The browser loads a script or fails to, workers run, answers arrive. Nobody has
\* to call the pool.
PoolFairness ==
  /\ \A j \in Jobs : WF_poolVars(WorkerAnswers(j)) /\ WF_poolVars(AnswerArrives(j)) /\ WF_poolVars(RunsHere(j))
  /\ \A w \in 1 .. PoolSize : WF_poolVars(Loads(w) \/ LoadFails(w))

PoolSpec == PoolInit /\ [][PoolNext]_poolVars /\ PoolFairness

-----------------------------------------------------------------------------
\* Every call comes to an end, by the worker's answer or on the page, unless it
\* went to a worker whose script did not load: for those onerror does nothing
\* (workerPool.ts:50-52), they wait for ever, and with them the transfer.
Abandoned(j) == jobs[j].worker # None /\ workers[jobs[j].worker] = "dead"

JobsSettle ==
  \A j \in Jobs : jobs[j].phase \in {"posted", "direct"} ~>
                    jobs[j].phase \in {"done", "error"} \/ Abandoned(j)

\* Whichever way a block went, through a worker, on the page, or on the page after a
\* worker, it is handed back only if its bytes are the expected ones.
VerifiedIsIntact ==
  \A j \in Jobs : jobs[j].result = "block" => jobs[j].given = "intact"
=============================================================================
