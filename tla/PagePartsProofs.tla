-------------------------- MODULE PagePartsProofs ---------------------------
(***************************************************************************)
(* Proofs about the parts that stand alone: the worker pool, the tabs of a *)
(* browser and what they know of each other, the journal of a transfer,    *)
(* the race for the page's address, the server's limit on failed joins and *)
(* the writers of blocks. Each section has the part's inductive invariant, *)
(* then one lemma per handler, then the theorem.                           *)
(***************************************************************************)
EXTENDS WorkerPool, BrowserTabs, ResumeJournal, ProbeRace, JoinLimiter, BlockWriter, Integers,
        FiniteSetTheorems, TLAPS

-----------------------------------------------------------------------------
(* WorkerPool: a block is handed back only if its bytes are the expected ones. *)

\* What a call knows of its bytes is true: those it still holds, and the answer that
\* is on its way.
BytesTrue ==
  /\ \A j \in Jobs : jobs[j].kind = "slice" \/ jobs[j].chunks = "intact" => jobs[j].given = "intact"
  /\ \A j \in Jobs : <<j, "block">> \in inbox => jobs[j].given = "intact"

\* The inductive invariant
PoolInv == PoolTypeOK /\ BytesTrue /\ VerifiedIsIntact

JobType ==
  [phase : {"idle", "posted", "direct", "done", "error"}, kind : Kinds,
   chunks : {"intact", "damaged", "taken"}, given : {"intact", "damaged"},
   worker : 0 .. PoolSize, result : {"unset", "block", "unverified"}]

\* A step that changes one call, keeping what it is about, keeps the invariant if
\* what the call holds and returns is still true.
LEMMA OneJob ==
  ASSUME PoolInv, NEW j \in Jobs, NEW job \in JobType,
         job.given = jobs[j].given, job.kind = jobs[j].kind,
         job.chunks = "intact" => jobs[j].chunks = "intact",
         job.result = "block" => job.given = "intact",
         jobs' = [jobs EXCEPT ![j] = job],
         support' \in {"unknown", "yes", "no"},
         workers' \in [1 .. PoolSize -> {"none", "loading", "up", "dead"}],
         turn' \in 0 .. PoolSize - 1, inbox' \subseteq inbox
  PROVE  PoolInv'
<1>1. jobs \in [Jobs -> JobType] BY DEF PoolInv, PoolTypeOK, JobType
<1>2. jobs' \in [Jobs -> JobType] /\ \A k \in Jobs : jobs'[k] = IF k = j THEN job ELSE jobs[k]
  BY <1>1
<1>3. PoolTypeOK' BY <1>2 DEF PoolInv, PoolTypeOK, JobType
<1>4. BytesTrue' BY <1>2 DEF PoolInv, BytesTrue
<1>5. VerifiedIsIntact' BY <1>2 DEF PoolInv, VerifiedIsIntact
<1>6. QED BY <1>3, <1>4, <1>5 DEF PoolInv

\* Making workers, or not, and taking the next one
LEMMA WorkersMade ==
  ASSUME PoolTypeOK, NEW used \in 0 .. PoolSize, EnsureWorkers(used)
  PROVE  /\ support' \in {"unknown", "yes", "no"}
         /\ workers' \in [1 .. PoolSize -> {"none", "loading", "up", "dead"}]
         /\ turn' \in 0 .. PoolSize - 1
  BY DEF PoolTypeOK, EnsureWorkers, NextTurn, PoolSize, None

\* Calls, answers and what is done on the page, one action at a time
LEMMA CallKeeps ==
  ASSUME PoolInv, NEW j \in Jobs, Call(j)
  PROVE  PoolInv'
<1>1. jobs[j] \in JobType BY DEF PoolInv, PoolTypeOK, JobType
<1>2. PICK used \in 0 .. PoolSize :
        /\ EnsureWorkers(used)
        /\ \E job \in IF used = None \/ jobs[j].kind = "small" \/ jobs[j].chunks = "taken"
                      THEN {[jobs[j] EXCEPT !.phase = "direct"]} ELSE Posted(jobs[j], used) :
             jobs' = [jobs EXCEPT ![j] = job]
  BY DEF Call
<1>3. PICK job \in {[jobs[j] EXCEPT !.phase = "direct"]} \cup Posted(jobs[j], used) :
        jobs' = [jobs EXCEPT ![j] = job]
  BY <1>2
<1>4. /\ job \in JobType /\ job.given = jobs[j].given /\ job.kind = jobs[j].kind
      /\ job.chunks = "intact" => jobs[j].chunks = "intact"
      /\ job.result = jobs[j].result
  <2>1. CASE job = [jobs[j] EXCEPT !.phase = "direct"] BY <1>1, <2>1 DEF JobType
  <2>2. CASE job \in Posted(jobs[j], used)
    <3>1. PICK left \in {jobs[j].chunks, "taken"} :
            job = [jobs[j] EXCEPT !.phase = "posted", !.worker = used, !.chunks = left]
      BY <2>2 DEF Posted
    <3>2. QED BY <1>1, <3>1 DEF JobType
  <2>3. QED BY <1>3, <2>1, <2>2
<1>5. job.result = "block" => job.given = "intact" BY <1>4 DEF PoolInv, VerifiedIsIntact
<1>6. inbox' \subseteq inbox BY DEF Call
<1>7. QED BY <1>2, <1>3, <1>4, <1>5, <1>6, OneJob, WorkersMade DEF PoolInv

LEMMA AnswerKeeps ==
  ASSUME PoolInv, NEW j \in Jobs, AnswerArrives(j)
  PROVE  PoolInv'
<1>1. jobs[j] \in JobType BY DEF PoolInv, PoolTypeOK, JobType
<1>2. PICK answer \in {a \in inbox : a[1] = j} :
        inbox' = inbox \ {answer} /\ jobs' = [jobs EXCEPT ![j] = JobSettled(@, answer[2])]
  BY DEF AnswerArrives
<1>3. answer \in inbox /\ answer \in Jobs \X {"block", "unverified", "error"} /\ answer[1] = j
  BY <1>2 DEF PoolInv, PoolTypeOK
<1>4. answer = <<j, answer[2]>> /\ answer[2] \in {"block", "unverified", "error"} BY <1>3
<1>5. answer[2] = "block" => jobs[j].given = "intact" BY <1>3, <1>4 DEF PoolInv, BytesTrue
<1>6. DEFINE job == JobSettled(jobs[j], answer[2])
<1>7. /\ job \in JobType /\ job.given = jobs[j].given /\ job.kind = jobs[j].kind
      /\ job.chunks = jobs[j].chunks
      /\ job.result \in {jobs[j].result, answer[2]}
  BY <1>1, <1>4 DEF JobSettled, JobType
<1>8. job.result = "block" => job.given = "intact" BY <1>5, <1>7 DEF PoolInv, VerifiedIsIntact
<1>9. jobs' = [jobs EXCEPT ![j] = job] BY <1>2
<1>10. UNCHANGED <<support, workers, turn>> /\ inbox' \subseteq inbox BY <1>2 DEF AnswerArrives
<1>11. QED BY <1>7, <1>8, <1>9, <1>10, OneJob DEF PoolInv, PoolTypeOK

LEMMA PageKeeps ==
  ASSUME PoolInv, NEW j \in Jobs, RunsHere(j)
  PROVE  PoolInv'
<1>1. jobs[j] \in JobType BY DEF PoolInv, PoolTypeOK, JobType
<1>2. PICK job \in Assembled(jobs[j]) : jobs' = [jobs EXCEPT ![j] = job] BY DEF RunsHere
<1>3. \/ job = [jobs[j] EXCEPT !.phase = "done", !.result = "block"]
         /\ (jobs[j].kind = "slice" \/ jobs[j].chunks = "intact")
      \/ job = [jobs[j] EXCEPT !.phase = "done", !.result = "unverified"]
      \/ job = [jobs[j] EXCEPT !.phase = "error"]
  BY <1>2 DEF Assembled
<1>4. /\ job \in JobType /\ job.given = jobs[j].given /\ job.kind = jobs[j].kind
      /\ job.chunks = jobs[j].chunks
  BY <1>1, <1>3 DEF JobType
<1>5. job.result = "block" => job.given = "intact"
  BY <1>1, <1>3, <1>4 DEF PoolInv, VerifiedIsIntact, BytesTrue, JobType
<1>6. UNCHANGED <<support, workers, turn>> /\ inbox' \subseteq inbox BY DEF RunsHere
<1>7. QED BY <1>2, <1>4, <1>5, <1>6, OneJob DEF PoolInv, PoolTypeOK

LEMMA WorkerKeeps ==
  ASSUME PoolInv, NEW j \in Jobs, WorkerAnswers(j)
  PROVE  PoolInv'
<1>1. PICK answer \in Outcomes(jobs[j].kind, jobs[j].given) : inbox' = inbox \cup {<<j, answer>>}
  BY DEF WorkerAnswers
<1>2. UNCHANGED <<support, workers, turn, jobs>> BY DEF WorkerAnswers
<1>3. answer \in {"block", "unverified", "error"} BY <1>1 DEF Outcomes
<1>4. answer = "block" => jobs[j].given = "intact" BY <1>1 DEF Outcomes, PoolInv, BytesTrue
<1>5. PoolTypeOK' BY <1>1, <1>2, <1>3 DEF PoolInv, PoolTypeOK
<1>6. BytesTrue' BY <1>1, <1>2, <1>4 DEF PoolInv, BytesTrue
<1>7. QED BY <1>2, <1>5, <1>6 DEF PoolInv, VerifiedIsIntact

LEMMA ScriptKeeps ==
  ASSUME PoolInv, NEW w \in 1 .. PoolSize, Loads(w) \/ LoadFails(w)
  PROVE  PoolInv'
<1>1. UNCHANGED <<turn, jobs, inbox>> BY DEF Loads, LoadFails
<1>2. PoolTypeOK' BY <1>1 DEF PoolInv, PoolTypeOK, Loads, LoadFails
<1>3. QED BY <1>1, <1>2 DEF PoolInv, BytesTrue, VerifiedIsIntact

-----------------------------------------------------------------------------
\* Nothing was given out before the first call.
LEMMA PoolStarts == PoolInit => PoolInv
<1>1. SUFFICES ASSUME PoolInit PROVE PoolInv OBVIOUS
<1>2. \A j \in Jobs :
        /\ jobs[j] \in JobType /\ jobs[j].result = "unset"
        /\ jobs[j].kind = "slice" \/ jobs[j].chunks = "intact" => jobs[j].given = "intact"
  <2>1. TAKE j \in Jobs
  <2>2. PICK sort \in Kinds : jobs[j] \in Fresh(sort) BY <1>1 DEF PoolInit
  <2>3. PICK chunks \in {"intact", "damaged", "taken"}, given \in {"intact", "damaged"} :
          /\ jobs[j] = [phase |-> "idle", kind |-> sort, chunks |-> chunks, given |-> given,
                        worker |-> None, result |-> "unset"]
          /\ sort = "slice" \/ chunks = "intact" => given = "intact"
    <3>1. CASE sort = "slice" BY <2>2, <3>1 DEF Fresh
    <3>2. CASE sort # "slice" BY <2>2, <3>2 DEF Fresh
    <3>3. QED BY <3>1, <3>2
  <2>4. None \in 0 .. PoolSize BY DEF None, PoolSize
  <2>5. QED BY <2>3, <2>4 DEF JobType
<1>3. jobs \in [Jobs -> JobType]
  <2>1. jobs = [j \in Jobs |-> jobs[j]] BY <1>1 DEF PoolInit
  <2>2. QED BY <1>2, <2>1
<1>4. PoolTypeOK
  <2>1. 0 \in 0 .. PoolSize - 1 BY DEF PoolSize
  <2>2. QED BY <1>1, <1>3, <2>1 DEF PoolInit, PoolTypeOK, JobType
<1>5. BytesTrue /\ VerifiedIsIntact
  <2>1. inbox = {} BY <1>1 DEF PoolInit
  <2>2. QED BY <1>2, <2>1 DEF BytesTrue, VerifiedIsIntact
<1>6. QED BY <1>4, <1>5 DEF PoolInv

LEMMA PoolSteps == PoolInv /\ [PoolNext]_poolVars => PoolInv'
<1>1. SUFFICES ASSUME PoolInv, [PoolNext]_poolVars PROVE PoolInv' OBVIOUS
<1>2. ASSUME NEW j \in Jobs, Call(j) PROVE PoolInv' BY <1>1, <1>2, CallKeeps
<1>3. ASSUME NEW j \in Jobs, WorkerAnswers(j) PROVE PoolInv' BY <1>1, <1>3, WorkerKeeps
<1>4. ASSUME NEW j \in Jobs, AnswerArrives(j) PROVE PoolInv' BY <1>1, <1>4, AnswerKeeps
<1>5. ASSUME NEW j \in Jobs, RunsHere(j) PROVE PoolInv' BY <1>1, <1>5, PageKeeps
<1>6. ASSUME NEW w \in 1 .. PoolSize, Loads(w) \/ LoadFails(w) PROVE PoolInv'
  BY <1>1, <1>6, ScriptKeeps
<1>7. CASE UNCHANGED poolVars
  BY <1>1, <1>7 DEF poolVars, PoolInv, PoolTypeOK, BytesTrue, VerifiedIsIntact
<1>8. QED BY <1>1, <1>2, <1>3, <1>4, <1>5, <1>6, <1>7 DEF PoolNext

\* Whatever the workers do, fail to load and fail to read, a block that is handed
\* back has the bytes that were expected, for any number of calls at once.
THEOREM VerifiedIsIntactAlways == PoolSpec => []VerifiedIsIntact
<1>1. PoolSpec => []PoolInv BY PoolStarts, PoolSteps, PTL DEF PoolSpec
<1>2. PoolInv => VerifiedIsIntact BY DEF PoolInv
<1>3. QED BY <1>1, <1>2, PTL

-----------------------------------------------------------------------------
(* BrowserTabs: two pages of a browser are not the same device.              *)

TabType ==
  [phase : {"new", "looking", "open", "closed"}, id : Ids \cup {"none"}, token : Tabs,
   free : BOOLEAN, clock : 0 .. Beat, seen : [Ids -> Nat]]

\* An open page that nothing out of the ordinary happened to
Plain(t) == t \in Tabs /\ tabs[t].phase = "open" /\ t \notin odd \cup late

TabsTyped ==
  tabs \in [Tabs -> TabType] /\ stamp \in [holder : Tabs \cup {"none"}, age : Nat]

\* A page that was open has an id, and if nothing happened to it its own or the
\* browser's, and its own token.
OwnId ==
  /\ \A t \in Tabs : tabs[t].phase \in {"open", "closed"} => tabs[t].id \in Ids
  /\ \A t \in Tabs : Plain(t) => tabs[t].id \in {t, "base"} /\ tabs[t].token = t

\* Who has the base id holds the stamp, which is not older than the page's timer.
HolderIsFresh ==
  \A t \in Tabs : Plain(t) /\ tabs[t].id = "base" => stamp.holder = t /\ stamp.age <= tabs[t].clock

\* While a page that found the base id free has not taken it, nobody has it.
FreeIsFree ==
  \A t \in Tabs : tabs[t].phase = "looking" /\ tabs[t].free =>
                    \A u \in Tabs : ~(Plain(u) /\ tabs[u].id = "base")

\* Pages that look at once are odd.
LookAlone ==
  \A t, u \in Tabs : tabs[t].phase = "looking" /\ tabs[u].phase = "looking" /\ t # u => t \in odd

TabsInv == TabsTyped /\ OwnId /\ HolderIsFresh /\ FreeIsFree /\ LookAlone

-----------------------------------------------------------------------------
\* No page of a tab changes but that of t.
LEMMA OneTab ==
  ASSUME TabsTyped, NEW t \in Tabs, NEW tab \in TabType, tabs' = [tabs EXCEPT ![t] = tab]
  PROVE  tabs' \in [Tabs -> TabType] /\ \A u \in Tabs : tabs'[u] = IF u = t THEN tab ELSE tabs[u]
  BY DEF TabsTyped

LEMMA Clocks == 0 \in 0 .. Beat /\ Beat < FreshFor /\ Unlisted \in Nat
  BY TabsAssumption DEF TabsAssumption, Unlisted

LEMMA LookKeeps ==
  ASSUME TabsInv, NEW t \in Tabs, Look(t)
  PROVE  TabsInv'
<1> DEFINE tab == [tabs[t] EXCEPT !.phase = "looking", !.free = ~Taken(t)]
<1>1. tabs[t] \in TabType BY DEF TabsInv, TabsTyped
<1>2. PICK free \in BOOLEAN : free <=> ~Taken(t) OBVIOUS
<1>3. tab = [tabs[t] EXCEPT !.phase = "looking", !.free = free] BY <1>1, <1>2 DEF TabType
<1>4. tab \in TabType /\ tab.phase = "looking" /\ tab.free = free BY <1>1, <1>2, <1>3 DEF TabType
<1>5. tabs' = [tabs EXCEPT ![t] = tab] BY <1>1 DEF Look, TabsInv, TabsTyped, TabType
<1> HIDE DEF tab
<1>6. tabs' \in [Tabs -> TabType] /\ \A u \in Tabs : tabs'[u] = IF u = t THEN tab ELSE tabs[u]
  BY <1>4, <1>5, OneTab DEF TabsInv
<1>7. stamp' = stamp /\ late' = late /\ odd \subseteq odd' BY DEF Look
<1>9. \A u \in Tabs : Plain(u)' => Plain(u) /\ tabs'[u] = tabs[u]
  BY <1>4, <1>6, <1>7 DEF Plain
<1>8. TabsTyped' /\ OwnId' BY <1>4, <1>6, <1>7, <1>9 DEF TabsInv, TabsTyped, OwnId
<1>10. HolderIsFresh' BY <1>7, <1>9 DEF TabsInv, HolderIsFresh
<1>11. ASSUME free, NEW u \in Tabs, Plain(u), tabs[u].id = "base" PROVE FALSE
  <2>1. stamp.holder = u /\ stamp.age <= tabs[u].clock BY <1>11 DEF TabsInv, HolderIsFresh
  <2>2. tabs[u].clock \in 0 .. Beat /\ stamp.age \in Nat BY DEF TabsInv, TabsTyped, TabType
  <2>3. stamp.age < FreshFor BY <2>1, <2>2, Clocks, TabsAssumption DEF TabsAssumption
  <2>4. u # t BY <1>11 DEF Look, Plain
  <2>5. u # "none" BY TabsAssumption DEF TabsAssumption
  <2>6. Taken(t) BY <2>1, <2>3, <2>4, <2>5 DEF Taken
  <2>7. QED BY <1>2, <1>11, <2>6
<1>12. FreeIsFree' BY <1>4, <1>6, <1>9, <1>11 DEF TabsInv, FreeIsFree
<1>13. LookAlone'
  <2> DEFINE others == {u \in Tabs : tabs[u].phase = "looking"}
  <2>1. odd' = IF others = {} THEN odd ELSE odd \cup others \cup {t} BY DEF Look
  <2>2. QED BY <1>4, <1>6, <2>1 DEF TabsInv, LookAlone
<1>14. QED BY <1>8, <1>10, <1>12, <1>13 DEF TabsInv

\* A page takes its id, from what it looked for or from its session.
LEMMA JoinsOpens ==
  ASSUME TabsInv, NEW t \in Tabs, NEW id \in Ids, NEW token \in Tabs, Joins(t, id, token)
  PROVE  \E tab \in TabType :
           /\ tab.phase = "open" /\ tab.id = id /\ tab.token = token /\ tab.clock = 0
           /\ tabs' \in [Tabs -> TabType]
           /\ \A u \in Tabs : tabs'[u] = IF u = t THEN tab ELSE tabs[u]
<1> DEFINE tab == [tabs[t] EXCEPT !.phase = "open", !.id = id, !.token = token, !.clock = 0]
<1>1. tabs[t] \in TabType BY DEF TabsInv, TabsTyped
<1>3. tab \in TabType /\ tab.phase = "open" /\ tab.id = id /\ tab.token = token /\ tab.clock = 0
  BY <1>1, Clocks DEF TabType
<1>4. tabs' = [tabs EXCEPT ![t] = tab] BY DEF Joins
<1>5. QED BY <1>3, <1>4, OneTab DEF TabsInv

LEMMA ClaimKeeps ==
  ASSUME TabsInv, NEW t \in Tabs, Claim(t)
  PROVE  TabsInv'
<1> DEFINE id == IF tabs[t].free THEN "base" ELSE t
<1>1. Joins(t, id, t) BY DEF Claim
<1>2. id \in {t, "base"} /\ id \in Ids BY DEF Ids
<1>3. tabs[t].phase = "looking" /\ odd' = odd /\ late' = late
      /\ stamp' = IF tabs[t].free THEN [holder |-> t, age |-> 0] ELSE stamp
  BY DEF Claim
<1> HIDE DEF id
<1>4. PICK tab \in TabType :
        /\ tab.phase = "open" /\ tab.id = id /\ tab.token = t /\ tab.clock = 0
        /\ tabs' \in [Tabs -> TabType]
        /\ \A u \in Tabs : tabs'[u] = IF u = t THEN tab ELSE tabs[u]
  BY <1>1, <1>2, JoinsOpens
<1>5. TabsTyped' BY <1>3, <1>4 DEF TabsInv, TabsTyped
<1>7. \A u \in Tabs : Plain(u)' <=> IF u = t THEN t \notin odd \cup late ELSE Plain(u)
  BY <1>3, <1>4 DEF Plain
<1>6. OwnId' /\ LookAlone' BY <1>2, <1>3, <1>4, <1>7 DEF TabsInv, OwnId, LookAlone
<1>8. CASE tabs[t].free
  <2>1. \A u \in Tabs : ~(Plain(u) /\ tabs[u].id = "base")
    BY <1>3, <1>8 DEF TabsInv, FreeIsFree
  <2>2. stamp'.holder = t /\ stamp'.age = 0 BY <1>3, <1>8
  <2>3. HolderIsFresh' BY <1>4, <1>7, <2>1, <2>2 DEF HolderIsFresh
  <2>4. ASSUME NEW v \in Tabs, v # t, tabs[v].phase = "looking" PROVE t \in odd
    BY <1>3, <2>4 DEF TabsInv, LookAlone
  <2>5. FreeIsFree' BY <1>4, <1>7, <2>1, <2>4 DEF FreeIsFree
  <2>6. QED BY <1>5, <1>6, <2>3, <2>5 DEF TabsInv
<1>9. CASE ~tabs[t].free
  <2>1. id # "base" /\ stamp' = stamp BY <1>3, <1>9, TabsAssumption DEF TabsAssumption, id
  <2>2. HolderIsFresh' BY <1>4, <1>7, <2>1 DEF TabsInv, HolderIsFresh
  <2>3. FreeIsFree' BY <1>4, <1>7, <2>1 DEF TabsInv, FreeIsFree
  <2>4. QED BY <1>5, <1>6, <2>2, <2>3 DEF TabsInv
<1>10. QED BY <1>8, <1>9

\* A page that opens with the id and token of a session is not plain.
LEMMA SessionKeeps ==
  ASSUME TabsInv, NEW t \in Tabs, NEW id \in Ids, NEW token \in Tabs, Joins(t, id, token),
         odd' = odd \cup {t}, late' = late, stamp' = stamp
  PROVE  TabsInv'
<1>3. PICK tab \in TabType :
        /\ tab.phase = "open" /\ tab.id = id /\ tab.token = token /\ tab.clock = 0
        /\ tabs' \in [Tabs -> TabType]
        /\ \A u \in Tabs : tabs'[u] = IF u = t THEN tab ELSE tabs[u]
  BY JoinsOpens
<1>4. TabsTyped' BY <1>3 DEF TabsInv, TabsTyped
<1>6. \A u \in Tabs : Plain(u)' => Plain(u) /\ tabs'[u] = tabs[u] BY <1>3 DEF Plain
<1>5. OwnId' /\ LookAlone' BY <1>3, <1>6 DEF TabsInv, OwnId, LookAlone
<1>7. HolderIsFresh' BY <1>6 DEF TabsInv, HolderIsFresh
<1>8. FreeIsFree' BY <1>3, <1>6 DEF TabsInv, FreeIsFree
<1>9. QED BY <1>4, <1>5, <1>7, <1>8 DEF TabsInv

LEMMA ComesBackKeeps ==
  ASSUME TabsInv, NEW t \in Tabs, ComesBack(t)
  PROVE  TabsInv'
<1>1. tabs[t].phase = "closed" /\ tabs[t] \in TabType BY DEF ComesBack, TabsInv, TabsTyped
<1>2. PICK id \in Ids, token \in Tabs : id = tabs[t].id /\ token = tabs[t].token
  BY <1>1 DEF TabsInv, OwnId, TabType
<1>3. Joins(t, id, token) /\ odd' = odd \cup {t} /\ late' = late /\ stamp' = stamp
  BY <1>2 DEF ComesBack
<1>4. QED BY <1>3, SessionKeeps

LEMMA CopiedKeeps ==
  ASSUME TabsInv, NEW t \in Tabs, NEW u \in Tabs, Copied(t, u)
  PROVE  TabsInv'
<1>1. tabs[u].phase = "open" /\ tabs[u] \in TabType BY DEF Copied, Open, TabsInv, TabsTyped
<1>2. PICK id \in Ids, token \in Tabs : id = tabs[u].id /\ token = tabs[u].token
  BY <1>1 DEF TabsInv, OwnId, TabType
<1>3. Joins(t, id, token) /\ odd' = odd \cup {t} /\ late' = late /\ stamp' = stamp
  BY <1>2 DEF Copied
<1>4. QED BY <1>3, SessionKeeps

\* A step after which pages have the phase, the id, the token and what they found,
\* that they had, and the stamp may have become younger for its holder.
LEMMA SameTabs ==
  ASSUME TabsInv, tabs' \in [Tabs -> TabType],
         \A u \in Tabs : /\ tabs'[u].phase = tabs[u].phase /\ tabs'[u].id = tabs[u].id
                         /\ tabs'[u].token = tabs[u].token /\ tabs'[u].free = tabs[u].free,
         odd' = odd, late \subseteq late',
         stamp' \in [holder : Tabs \cup {"none"}, age : Nat], stamp'.holder = stamp.holder,
         \A u \in Tabs : Plain(u)' /\ stamp.holder = u /\ stamp.age <= tabs[u].clock =>
                           stamp'.age <= tabs'[u].clock
  PROVE  TabsInv'
<1>2. \A u \in Tabs : Plain(u)' => Plain(u) BY DEF Plain
<1>1. TabsTyped' /\ OwnId' /\ LookAlone' BY <1>2 DEF TabsInv, TabsTyped, OwnId, LookAlone
<1>3. HolderIsFresh' BY <1>2 DEF TabsInv, HolderIsFresh
<1>4. FreeIsFree' BY <1>2 DEF TabsInv, FreeIsFree
<1>5. QED BY <1>1, <1>3, <1>4 DEF TabsInv

LEMMA LeavesKeeps ==
  ASSUME TabsInv, NEW t \in Tabs, Leaves(t)
  PROVE  TabsInv'
<1> DEFINE seen == [i \in Ids |-> Unlisted]
           tab == [tabs[t] EXCEPT !.phase = "closed", !.clock = 0, !.seen = seen]
<1>1. tabs[t] \in TabType /\ tabs[t].phase = "open" BY DEF TabsInv, TabsTyped, Leaves, Open
<1>2. seen \in [Ids -> Nat] BY Clocks
<1>3. tabs' = [tabs EXCEPT ![t] = tab] BY <1>1 DEF Leaves, TabsInv, TabsTyped, TabType
<1> HIDE DEF seen
<1>4. tab \in TabType /\ tab.phase = "closed" /\ tab.id = tabs[t].id BY <1>1, <1>2, Clocks DEF TabType
<1> HIDE DEF tab
<1>5. tabs' \in [Tabs -> TabType] /\ \A u \in Tabs : tabs'[u] = IF u = t THEN tab ELSE tabs[u]
  BY <1>3, <1>4, OneTab DEF TabsInv
<1>6. stamp' = stamp /\ odd' = odd /\ late' = late BY DEF Leaves
<1>8. \A u \in Tabs : Plain(u)' => Plain(u) /\ tabs'[u] = tabs[u] BY <1>4, <1>5, <1>6 DEF Plain
<1>7. TabsTyped' /\ OwnId' /\ LookAlone'
  BY <1>1, <1>4, <1>5, <1>6, <1>8 DEF TabsInv, TabsTyped, OwnId, LookAlone
<1>9. HolderIsFresh' BY <1>6, <1>8 DEF TabsInv, HolderIsFresh
<1>10. FreeIsFree' BY <1>4, <1>5, <1>8 DEF TabsInv, FreeIsFree
<1>11. QED BY <1>7, <1>9, <1>10 DEF TabsInv

LEMMA TimerKeeps ==
  ASSUME TabsInv, NEW t \in Tabs, Timer(t)
  PROVE  TabsInv'
<1> DEFINE seen == Expired(tabs[t].seen)
           tab == [tabs[t] EXCEPT !.clock = 0, !.seen = seen]
<1>1. tabs[t] \in TabType BY DEF TabsInv, TabsTyped
<1>2. tabs' = [tabs EXCEPT ![t] = tab] BY <1>1 DEF Timer, TabsInv, TabsTyped, TabType
<1>3. seen \in [Ids -> Nat] BY <1>1, Clocks DEF Expired, TabType
<1> HIDE DEF seen
<1>4. tab \in TabType /\ tab.phase = tabs[t].phase /\ tab.id = tabs[t].id
      /\ tab.token = tabs[t].token /\ tab.free = tabs[t].free /\ tab.clock = 0
  BY <1>1, <1>3, Clocks DEF TabType
<1> HIDE DEF tab
<1>5. tabs' \in [Tabs -> TabType] /\ \A u \in Tabs : tabs'[u] = IF u = t THEN tab ELSE tabs[u]
  BY <1>2, <1>4, OneTab DEF TabsInv
<1>6. odd' = odd /\ late' = late /\ stamp' = Refreshed(t) BY DEF Timer
<1>7. stamp \in [holder : Tabs \cup {"none"}, age : Nat] BY DEF TabsInv, TabsTyped
<1>8. /\ stamp' \in [holder : Tabs \cup {"none"}, age : Nat] /\ stamp'.holder = stamp.holder
      /\ stamp'.age = IF stamp.holder = tabs[t].token THEN 0 ELSE stamp.age
  BY <1>6, <1>7 DEF Refreshed
<1>9. ASSUME NEW u \in Tabs, Plain(u)', stamp.holder = u, stamp.age <= tabs[u].clock
      PROVE  stamp'.age <= tabs'[u].clock
  <2>1. Plain(u) BY <1>4, <1>5, <1>6, <1>9 DEF Plain
  <2>2. CASE u = t
    <3>1. tabs[t].token = t BY <2>1, <2>2 DEF TabsInv, OwnId
    <3>2. QED BY <1>4, <1>5, <1>8, <1>9, <2>2, <3>1
  <2>3. CASE u # t
    <3>1. tabs'[u] = tabs[u] /\ tabs[u].clock \in Nat BY <1>5, <2>3 DEF TabsInv, TabsTyped, TabType
    <3>2. QED BY <1>8, <1>9, <3>1
  <2>4. QED BY <2>2, <2>3
<1>10. QED BY <1>4, <1>5, <1>6, <1>8, <1>9, SameTabs

LEMMA HearsKeeps ==
  ASSUME TabsInv, NEW t \in Tabs, Hears(t)
  PROVE  TabsInv'
<1> DEFINE m == Head(bus[t])
<1>1. tabs[t] \in TabType /\ tabs \in [Tabs -> TabType] BY DEF TabsInv, TabsTyped
<1>2. stamp' = stamp /\ odd' = odd /\ late' = late BY DEF Hears
<1>3. CASE tabs' = tabs
  BY <1>2, <1>3 DEF TabsInv, TabsTyped, OwnId, HolderIsFresh, FreeIsFree, LookAlone, Plain
<1>4. CASE tabs' # tabs
  <2>1. PICK since \in {0, Unlisted} : tabs' = [tabs EXCEPT ![t].seen[m.from] = since]
    BY <1>4 DEF Hears
  <2> DEFINE seen == [tabs[t].seen EXCEPT ![m.from] = since]
             tab == [tabs[t] EXCEPT !.seen = seen]
  <2>2. tabs' = [tabs EXCEPT ![t] = tab] BY <1>1, <2>1 DEF TabType
  <2> HIDE DEF m
  <2>3. seen \in [Ids -> Nat]
    <3>1. since \in Nat BY <2>1, Clocks
    <3>2. tabs[t].seen \in [Ids -> Nat] BY <1>1 DEF TabType
    <3>3. QED BY <3>1, <3>2
  <2> HIDE DEF seen
  <2>4. tab \in TabType /\ tab.phase = tabs[t].phase /\ tab.id = tabs[t].id
        /\ tab.token = tabs[t].token /\ tab.free = tabs[t].free /\ tab.clock = tabs[t].clock
    BY <1>1, <2>3 DEF TabType
  <2> HIDE DEF tab
  <2>5. tabs' \in [Tabs -> TabType] /\ \A u \in Tabs : tabs'[u] = IF u = t THEN tab ELSE tabs[u]
    BY <2>2, <2>4, OneTab DEF TabsInv
  <2>6. stamp \in [holder : Tabs \cup {"none"}, age : Nat] BY DEF TabsInv, TabsTyped
  <2>7. QED BY <1>2, <2>4, <2>5, <2>6, SameTabs
<1>5. QED BY <1>3, <1>4

LEMMA TimeKeeps ==
  ASSUME TabsInv, Time
  PROVE  TabsInv'
<1> DEFINE seen(t) == [i \in Ids |-> IF tabs[t].seen[i] = Unlisted THEN tabs[t].seen[i]
                                     ELSE Older(tabs[t].seen[i], Unlisted - 1)]
           older(t) == [tabs[t] EXCEPT !.clock = Older(tabs[t].clock, Beat), !.seen = seen(t)]
<1>1. tabs' = [t \in Tabs |-> IF t \in Open THEN older(t) ELSE tabs[t]] BY DEF Time
<1>2. ASSUME NEW t \in Tabs
      PROVE  /\ tabs[t] \in TabType
             /\ older(t) \in TabType /\ older(t).phase = tabs[t].phase /\ older(t).id = tabs[t].id
             /\ older(t).token = tabs[t].token /\ older(t).free = tabs[t].free
             /\ older(t).clock = Older(tabs[t].clock, Beat)
  <2>1. tabs[t] \in TabType BY DEF TabsInv, TabsTyped
  <2>2. Beat \in Nat BY TabsAssumption DEF TabsAssumption
  <2>3. Older(tabs[t].clock, Beat) \in 0 .. Beat BY <2>1, <2>2 DEF TabType, Older
  <2>4. seen(t) \in [Ids -> Nat] BY <2>1, Clocks DEF TabType, Older
  <2> HIDE DEF seen
  <2>5. QED BY <2>1, <2>3, <2>4 DEF TabType
<1> HIDE DEF older
<1>3. tabs' \in [Tabs -> TabType]
      /\ \A t \in Tabs : tabs'[t] = IF t \in Open THEN older(t) ELSE tabs[t]
  BY <1>1, <1>2
<1>4. odd' = odd /\ late' = late /\ stamp' = [stamp EXCEPT !.age = Older(@, FreshFor)] BY DEF Time
<1>5. stamp \in [holder : Tabs \cup {"none"}, age : Nat] /\ FreshFor \in Nat /\ Beat \in Nat
  BY TabsAssumption DEF TabsInv, TabsTyped, TabsAssumption
<1>6. Older(stamp.age, FreshFor) \in Nat /\ Older(stamp.age, FreshFor) <= stamp.age + 1
  BY <1>5 DEF Older
<1>7. /\ stamp' \in [holder : Tabs \cup {"none"}, age : Nat] /\ stamp'.holder = stamp.holder
      /\ stamp'.age <= stamp.age + 1
  BY <1>4, <1>5, <1>6
<1>8. ASSUME NEW u \in Tabs, Plain(u)', stamp.age <= tabs[u].clock
      PROVE  stamp'.age <= tabs'[u].clock
  <2>1. u \in Open /\ u \notin late BY <1>2, <1>3, <1>4, <1>8 DEF Plain, Open
  <2>2. tabs[u].clock < Beat BY <2>1 DEF Time
  <2>3. tabs'[u].clock = tabs[u].clock + 1 BY <1>2, <1>3, <2>1, <2>2 DEF Older
  <2>4. tabs[u].clock \in Nat /\ stamp.age \in Nat /\ stamp'.age \in Nat
    BY <1>2, <1>5, <1>7 DEF TabType
  <2>5. QED BY <1>7, <1>8, <2>3, <2>4
<1>9. \A u \in Tabs : /\ tabs'[u].phase = tabs[u].phase /\ tabs'[u].id = tabs[u].id
                      /\ tabs'[u].token = tabs[u].token /\ tabs'[u].free = tabs[u].free
  BY <1>2, <1>3
<1>10. QED BY <1>3, <1>4, <1>7, <1>8, <1>9, SameTabs

-----------------------------------------------------------------------------
LEMMA TabsStart == TabsInit => TabsInv
<1>1. SUFFICES ASSUME TabsInit PROVE TabsInv OBVIOUS
<1> DEFINE seen == [i \in Ids |-> Unlisted]
           tab(t) == [phase |-> "new", id |-> "none", token |-> t, free |-> FALSE, clock |-> 0,
                      seen |-> seen]
<1>2. seen \in [Ids -> Nat] BY Clocks
<1>3. tabs = [t \in Tabs |-> tab(t)] /\ stamp = [holder |-> "none", age |-> FreshFor]
  BY <1>1 DEF TabsInit
<1> HIDE DEF seen
<1>4. \A t \in Tabs : tab(t) \in TabType /\ tab(t).phase = "new" BY <1>2, Clocks DEF TabType
<1> HIDE DEF tab
<1>5. TabsTyped BY <1>3, <1>4, TabsAssumption DEF TabsTyped, TabsAssumption
<1>6. QED BY <1>3, <1>4, <1>5
        DEF TabsInv, OwnId, HolderIsFresh, FreeIsFree, LookAlone, Plain

LEMMA TabsSteps == TabsInv /\ [TabsNext]_tabsVars => TabsInv'
<1>1. SUFFICES ASSUME TabsInv, [TabsNext]_tabsVars PROVE TabsInv' OBVIOUS
<1>2. ASSUME NEW t \in Tabs, HeldBack(t) PROVE TabsInv'
  <2>1. tabs' = tabs /\ stamp' = stamp /\ odd' = odd /\ late \subseteq late' BY <1>2 DEF HeldBack
  <2>2. TabsTyped BY <1>1 DEF TabsInv
  <2>3. QED BY <1>1, <2>1, <2>2, SameTabs DEF TabsTyped
<1>3. CASE UNCHANGED tabsVars
  BY <1>1, <1>3 DEF tabsVars, TabsInv, TabsTyped, OwnId, HolderIsFresh, FreeIsFree, LookAlone, Plain
<1>4. QED
  BY <1>1, <1>2, <1>3, LookKeeps, ClaimKeeps, CopiedKeeps, ComesBackKeeps, LeavesKeeps, TimerKeeps,
     HearsKeeps, TimeKeeps DEF TabsNext

\* network.ts:77-109: two open pages of a browser are never the same device, unless the
\* browser copied, reloaded, restored or held back one of the two tabs or let them look
\* at once: for any number of tabs, copies of these among them, and any period of the
\* timer that is shorter than the stamp is good for.
THEOREM OneTabPerIdAlways == TabsSpec => []OneTabPerId
<1>1. TabsSpec => []TabsInv BY TabsStart, TabsSteps, PTL DEF TabsSpec
<1>2. TabsInv => OneTabPerId
  <2>1. SUFFICES ASSUME TabsInv, NEW t \in Open \ (odd \cup late), NEW u \in Open \ (odd \cup late),
                        tabs[t].id = tabs[u].id
                 PROVE  t = u
    BY DEF OneTabPerId
  <2>2. Plain(t) /\ Plain(u) BY DEF Open, Plain
  <2>3. tabs[t].id \in {t, "base"} /\ tabs[u].id \in {u, "base"}
    BY <2>1, <2>2 DEF TabsInv, OwnId, Plain
  <2>4. t # "base" /\ u # "base" BY <2>2, TabsAssumption DEF Plain, TabsAssumption
  <2>5. CASE tabs[t].id = "base"
    <3>1. stamp.holder = t /\ stamp.holder = u
      BY <2>1, <2>2, <2>5 DEF TabsInv, HolderIsFresh, Plain
    <3>2. QED BY <3>1
  <2>6. CASE tabs[t].id = t BY <2>1, <2>3, <2>4, <2>6
  <2>7. QED BY <2>3, <2>5, <2>6
<1>3. QED BY <1>1, <1>2, PTL

-----------------------------------------------------------------------------
(* BrowserTabs: what the pages of a browser know of each other.              *)

Message == [kind : {"presence", "bye"}, from : Ids, reply : BOOLEAN]

\* The messages of a queue
In(q) == {q[k] : k \in DOMAIN q}

\* A page that was copied, came back or was held back has the id i.
Shared(i) == \E v \in odd \cup late : tabs[v].id = i

\* The ids that somebody is about to hear a farewell of
Byes == {i \in Ids : \E t \in Tabs : \E m \in In(bus[t]) : m.kind = "bye" /\ m.from = i}

\* A page has an id, and lists others, once it was open.
Blank ==
  /\ \A t \in Tabs : tabs[t].phase \in {"new", "looking"} => tabs[t].id = "none"
  /\ \A t \in Tabs : tabs[t].phase # "open" => \A i \in Ids : tabs[t].seen[i] = Unlisted

\* A farewell that is on its way is that of a page that is closed, and nobody can
\* take the base id before it is heard.
GoneTabs ==
  \A i \in Byes :
    \/ Shared(i)
    \/ i \in Tabs /\ tabs[i].phase = "closed" /\ tabs[i].id = i
    \/ /\ i = "base" /\ stamp.holder \in Tabs /\ stamp.age < FreshFor
       /\ tabs[stamp.holder].phase = "closed" /\ tabs[stamp.holder].id = "base"
       /\ \A t \in Tabs : tabs[t].phase = "looking" => ~tabs[t].free

\* Page t has heard of page u since u's timer ran, is about to, or is about to ask.
Listed(t, u) == tabs[t].seen[tabs[u].id] <= tabs[u].clock
Coming(t, u) == \E m \in In(bus[t]) : m.kind = "presence" /\ m.from = tabs[u].id
Asked(u) == \E m \in In(bus[u]) : m.kind = "presence" /\ m.reply /\ m.from # tabs[u].id

Pair(t, u) ==
  /\ Plain(u) /\ t \in Open \ late
  /\ tabs[t].id # tabs[u].id /\ ~Shared(tabs[u].id)

AllKnown == \A t, u \in Tabs : Pair(t, u) => Listed(t, u) \/ Coming(t, u) \/ Asked(u)

\* Nobody is listed for longer than the last run of the timer allows.
Ages ==
  \A t \in Open \ late : \A i \in Ids :
    tabs[t].seen[i] = Unlisted \/ tabs[t].seen[i] <= Expiry + tabs[t].clock

BusTyped == bus \in [Tabs -> Seq(Message)]

BusInv == BusTyped /\ Blank /\ GoneTabs /\ AllKnown /\ Ages

-----------------------------------------------------------------------------
LEMMA Periods ==
  /\ Beat \in Nat \ {0} /\ FreshFor \in Nat /\ Expiry \in Nat /\ Beat < FreshFor /\ FreshFor < Expiry
  /\ Unlisted = Expiry + Beat + 2 /\ "base" \notin Tabs /\ "none" \notin Tabs /\ "none" \notin Ids
  /\ Tabs \subseteq Ids /\ "base" \in Ids
  BY TabsAssumption DEF TabsAssumption, Unlisted, Ids

LEMMA Queue ==
  ASSUME NEW q \in Seq(Message)
  PROVE  /\ q = <<>> <=> In(q) = {}
         /\ \A m \in Message : Append(q, m) \in Seq(Message) /\ In(Append(q, m)) = In(q) \cup {m}
         /\ q # <<>> => Head(q) \in Message /\ Tail(q) \in Seq(Message) /\ In(q) = {Head(q)} \cup In(Tail(q))
         /\ In(q) \subseteq Message
<1>1. Len(q) \in Nat /\ DOMAIN q = 1 .. Len(q) /\ \A k \in 1 .. Len(q) : q[k] \in Message OBVIOUS
<1>2. q = <<>> <=> In(q) = {}
  <2>1. ASSUME q # <<>> PROVE In(q) # {}
    <3>1. 1 \in DOMAIN q BY <2>1
    <3>2. QED BY <3>1 DEF In
  <2>2. ASSUME q = <<>> PROVE In(q) = {}
    <3>1. DOMAIN q = {} BY <2>2
    <3>2. QED BY <3>1 DEF In
  <2>3. QED BY <2>1, <2>2
<1>3. ASSUME NEW m \in Message
      PROVE  Append(q, m) \in Seq(Message) /\ In(Append(q, m)) = In(q) \cup {m}
  <2> DEFINE r == Append(q, m)
  <2>1. /\ r \in Seq(Message) /\ DOMAIN r = 1 .. Len(q) + 1 /\ r[Len(q) + 1] = m
        /\ \A k \in 1 .. Len(q) : r[k] = q[k]
    OBVIOUS
  <2> HIDE DEF r
  <2>2. \A k \in DOMAIN r : r[k] = m \/ r[k] \in In(q) BY <1>1, <2>1 DEF In
  <2>3. m \in In(r) /\ \A k \in DOMAIN q : q[k] \in In(r)
    <3>1. Len(q) + 1 \in DOMAIN r BY <1>1, <2>1
    <3>2. \A k \in DOMAIN q : k \in DOMAIN r /\ r[k] = q[k] BY <1>1, <2>1
    <3>3. QED BY <2>1, <3>1, <3>2 DEF In
  <2>4. In(r) = In(q) \cup {m} BY <2>2, <2>3 DEF In
  <2>5. QED BY <2>1, <2>4 DEF r
<1>4. ASSUME q # <<>>
      PROVE  Head(q) \in Message /\ Tail(q) \in Seq(Message) /\ In(q) = {Head(q)} \cup In(Tail(q))
  <2> DEFINE r == Tail(q)
  <2>1. /\ r \in Seq(Message) /\ DOMAIN r = 1 .. Len(q) - 1 /\ Head(q) = q[1] /\ Len(q) >= 1
        /\ \A k \in 1 .. Len(q) - 1 : r[k] = q[k + 1]
    BY <1>4
  <2> HIDE DEF r
  <2>2. Head(q) \in Message /\ Head(q) \in In(q)
    <3>1. 1 \in DOMAIN q BY <1>1, <2>1
    <3>2. QED BY <1>1, <2>1, <3>1 DEF In
  <2>3. \A k \in DOMAIN r : r[k] \in In(q)
    <3>1. \A k \in DOMAIN r : k + 1 \in DOMAIN q /\ r[k] = q[k + 1] BY <1>1, <2>1
    <3>2. QED BY <3>1 DEF In
  <2>4. \A k \in DOMAIN q : q[k] = Head(q) \/ q[k] \in In(r)
    <3>1. TAKE k \in DOMAIN q
    <3>2. CASE k = 1 BY <2>1, <3>2
    <3>3. CASE k # 1
      <4>1. k - 1 \in DOMAIN r /\ (k - 1) + 1 = k BY <1>1, <2>1, <3>3
      <4>2. r[k - 1] = q[k] BY <2>1, <4>1
      <4>3. QED BY <4>1, <4>2 DEF In
    <3>4. QED BY <3>2, <3>3
  <2>5. In(q) = {Head(q)} \cup In(r) BY <2>2, <2>3, <2>4 DEF In
  <2>6. QED BY <2>1, <2>2, <2>5 DEF r
<1>5. In(q) \subseteq Message BY <1>1 DEF In
<1>6. QED BY <1>2, <1>3, <1>4, <1>5

\* What reaches whom
QueuesWith(t, m, queues) == [u \in Tabs |-> IF u \in Open \ {t} THEN Append(queues[u], m) ELSE queues[u]]

LEMMA Posts ==
  ASSUME NEW t \in Tabs, NEW m \in Message, NEW queues, NEW u \in Tabs, queues[u] \in Seq(Message)
  PROVE  /\ QueuesWith(t, m, queues)[u] \in Seq(Message)
         /\ In(queues[u]) \subseteq In(QueuesWith(t, m, queues)[u])
         /\ In(QueuesWith(t, m, queues)[u]) \subseteq In(queues[u]) \cup {m}
         /\ u \in Open \ {t} => m \in In(QueuesWith(t, m, queues)[u])
<1>1. Append(queues[u], m) \in Seq(Message) /\ In(Append(queues[u], m)) = In(queues[u]) \cup {m}
  BY Queue
<1>2. QueuesWith(t, m, queues)[u] = IF u \in Open \ {t} THEN Append(queues[u], m) ELSE queues[u]
  BY DEF QueuesWith
<1> QED BY <1>1, <1>2

\* Ids are kept, so that what is shared stays shared.
LEMMA SharedKeeps ==
  ASSUME odd \subseteq odd', late \subseteq late', odd \cup late \subseteq Tabs, NEW i \in Ids,
         \A v \in Tabs : tabs[v].id # "none" => tabs'[v].id = tabs[v].id,
         Shared(i)
  PROVE  Shared(i)'
  BY Periods DEF Shared

\* Nobody is about to hear a farewell of a page that is there.
LEMMA NoBye ==
  ASSUME TabsInv, BusInv, NEW u \in Tabs, Plain(u), ~Shared(tabs[u].id)
  PROVE  tabs[u].id \notin Byes
<1>1. SUFFICES ASSUME tabs[u].id \in Byes PROVE FALSE OBVIOUS
<1>2. tabs[u].id \in {u, "base"} /\ tabs[u].phase = "open" BY DEF TabsInv, OwnId, Plain
<1>3. CASE tabs[u].id = u BY <1>1, <1>2, <1>3, Periods DEF BusInv, GoneTabs
<1>4. CASE tabs[u].id = "base"
  <2>1. stamp.holder = u BY <1>4 DEF TabsInv, HolderIsFresh
  <2>2. QED BY <1>1, <1>2, <1>4, <2>1, Periods DEF BusInv, GoneTabs
<1>5. QED BY <1>2, <1>3, <1>4

-----------------------------------------------------------------------------
OddTyped == odd \subseteq Tabs /\ late \subseteq Tabs

LEMMA LookKeepsBus ==
  ASSUME TabsInv, BusInv, OddTyped, NEW w \in Tabs, Look(w)
  PROVE  BusInv'
<1> DEFINE tab == [tabs[w] EXCEPT !.phase = "looking", !.free = ~Taken(w)]
<1>1. /\ tabs[w].phase = "new" /\ UNCHANGED <<stamp, bus, reloads, late>> /\ odd \subseteq odd'
      /\ tabs[w] \in TabType /\ tabs \in [Tabs -> TabType]
  BY DEF Look, TabsInv, TabsTyped
<1>2. PICK free \in BOOLEAN : free <=> ~Taken(w) OBVIOUS
<1>3. tab = [tabs[w] EXCEPT !.phase = "looking", !.free = free] BY <1>1, <1>2 DEF TabType
<1>4. tab \in TabType /\ tab.phase = "looking" /\ tab.free = free /\ tab.id = tabs[w].id
      /\ tab.seen = tabs[w].seen
  BY <1>1, <1>2, <1>3 DEF TabType
<1>5. tabs' = [tabs EXCEPT ![w] = tab] BY <1>1 DEF Look, TabType
<1> HIDE DEF tab
<1>6. \A u \in Tabs : tabs'[u] = IF u = w THEN tab ELSE tabs[u] BY <1>1, <1>5
<1>7. BusTyped' /\ Byes' = Byes BY <1>1 DEF BusInv, BusTyped, Byes
<1>8. Blank' BY <1>1, <1>4, <1>6 DEF BusInv, Blank
<1>9. \A u \in Tabs : tabs'[u].id = tabs[u].id BY <1>4, <1>6
<1>10. \A i \in Ids : Shared(i) => Shared(i)' BY <1>1, <1>9, SharedKeeps DEF OddTyped
<1>11. \A u \in Tabs : /\ Plain(u)' => Plain(u) /\ tabs'[u] = tabs[u]
                       /\ u \in Open' => u \in Open /\ tabs'[u] = tabs[u]
  BY <1>1, <1>4, <1>6 DEF Plain, Open
<1>12. GoneTabs'
  <2>1. SUFFICES ASSUME NEW i \in Byes, ~Shared(i)'
                 PROVE  (i \in Tabs /\ tabs[i].phase = "closed" /\ tabs[i].id = i)' \/
                        (/\ i = "base" /\ stamp.holder \in Tabs /\ stamp.age < FreshFor
                         /\ tabs[stamp.holder].phase = "closed" /\ tabs[stamp.holder].id = "base"
                         /\ \A t \in Tabs : tabs[t].phase = "looking" => ~tabs[t].free)'
    BY <1>7 DEF GoneTabs
  <2>2. i \in Ids /\ ~Shared(i) BY <1>10, <2>1 DEF Byes
  <2>3. CASE i \in Tabs /\ tabs[i].phase = "closed" /\ tabs[i].id = i BY <1>1, <1>6, <2>3
  <2>4. CASE /\ i = "base" /\ stamp.holder \in Tabs /\ stamp.age < FreshFor
             /\ tabs[stamp.holder].phase = "closed" /\ tabs[stamp.holder].id = "base"
             /\ \A t \in Tabs : tabs[t].phase = "looking" => ~tabs[t].free
    <3>1. stamp.holder # w BY <1>1, <2>4
    <3>2. Taken(w) BY <2>4, <3>1, Periods DEF Taken
    <3>3. ~free BY <1>2, <3>2
    <3>4. \A t \in Tabs : tabs'[t].phase = "looking" => ~tabs'[t].free BY <1>4, <1>6, <2>4, <3>3
    <3>5. QED BY <1>1, <1>6, <2>4, <3>1, <3>4
  <2>5. QED BY <2>1, <2>2, <2>3, <2>4 DEF BusInv, GoneTabs
<1>13. \A t, u \in Tabs : Pair(t, u)' => Pair(t, u) /\ tabs'[t] = tabs[t] /\ tabs'[u] = tabs[u]
  <2>1. TAKE t \in Tabs, u \in Tabs
  <2>2. SUFFICES ASSUME Pair(t, u)' PROVE Pair(t, u) /\ tabs'[t] = tabs[t] /\ tabs'[u] = tabs[u]
    OBVIOUS
  <2>3. Plain(u) /\ t \in Open \ late /\ tabs'[t] = tabs[t] /\ tabs'[u] = tabs[u]
    BY <1>1, <1>11, <2>2 DEF Pair
  <2>4. tabs[u].id \in Ids BY <2>3, Periods DEF TabsInv, OwnId, Plain
  <2>5. QED BY <1>10, <2>2, <2>3, <2>4 DEF Pair
<1>14. AllKnown' BY <1>1, <1>13 DEF BusInv, AllKnown, Listed, Coming, Asked
<1>15. Ages' BY <1>1, <1>11 DEF BusInv, Ages, Open
<1>16. QED BY <1>7, <1>8, <1>12, <1>14, <1>15 DEF BusInv


\* A page opens, after it looked or with what its session has, and greets the others.
LEMMA JoinsGreets ==
  ASSUME TabsInv, BusInv, OddTyped, NEW w \in Tabs, NEW id \in Ids, NEW token \in Tabs,
         Joins(w, id, token),
         tabs[w].phase # "open", tabs[w].id \in {"none", id}, odd \subseteq odd', late' = late
  PROVE  /\ BusTyped' /\ Blank' /\ AllKnown' /\ Ages' /\ Byes' = Byes
         /\ \A i \in Ids : Shared(i) => Shared(i)'
         /\ tabs'[w].phase = "open" /\ tabs'[w].id = id
         /\ \A u \in Tabs : u # w => tabs'[u] = tabs[u]
<1> DEFINE tab == [tabs[w] EXCEPT !.phase = "open", !.id = id, !.token = token, !.clock = 0]
           hello == [kind |-> "presence", from |-> id, reply |-> TRUE]
<1>1. tabs[w] \in TabType /\ tabs \in [Tabs -> TabType] BY DEF TabsInv, TabsTyped
<1>3. tab.phase = "open" /\ tab.id = id /\ tab.clock = 0 /\ tab.seen = tabs[w].seen
  BY <1>1 DEF TabType
<1>4. tabs' = [tabs EXCEPT ![w] = tab] BY DEF Joins
<1> HIDE DEF tab
<1>5. \A u \in Tabs : tabs'[u] = IF u = w THEN tab ELSE tabs[u] BY <1>1, <1>4
<1>6. /\ bus' \in [Tabs -> Seq(Message)]
      /\ \A u \in Tabs : /\ In(bus[u]) \subseteq In(bus'[u])
                         /\ In(bus'[u]) \subseteq In(bus[u]) \cup {hello}
                         /\ u \in Open \ {w} => hello \in In(bus'[u])
  <2>1. bus' = PostedToAll(w, "presence", id, TRUE, bus) BY DEF Joins
  <2>2. bus \in [Tabs -> Seq(Message)] BY DEF BusInv, BusTyped
  <2>3. hello \in Message BY DEF Message
  <2>4. bus' = QueuesWith(w, hello, bus) BY <2>1 DEF PostedToAll, QueuesWith
  <2> HIDE DEF hello
  <2>5. \A u \in Tabs : /\ bus'[u] \in Seq(Message)
                        /\ In(bus[u]) \subseteq In(bus'[u])
                        /\ In(bus'[u]) \subseteq In(bus[u]) \cup {hello}
                        /\ u \in Open \ {w} => hello \in In(bus'[u])
    BY <2>2, <2>3, <2>4, Posts
  <2>6. bus' \in [Tabs -> Seq(Message)] BY <2>4, <2>5 DEF QueuesWith
  <2>7. QED BY <2>5, <2>6
<1>7. hello.kind = "presence" /\ hello.from = id /\ hello.reply OBVIOUS
<1> HIDE DEF hello
<1>8. Byes' = Byes BY <1>6, <1>7 DEF Byes
<1>9. \A u \in Tabs : tabs[u].id # "none" => tabs'[u].id = tabs[u].id BY <1>3, <1>5
<1>10. \A i \in Ids : Shared(i) => Shared(i)' BY <1>9, SharedKeeps DEF OddTyped
<1>11. Blank' BY <1>3, <1>5 DEF BusInv, Blank
<1>12. Ages'
  <2>1. \A i \in Ids : tab.seen[i] = Unlisted BY <1>3 DEF BusInv, Blank
  <2>2. \A u \in Open' \ late' : u = w \/ (u \in Open \ late /\ tabs'[u] = tabs[u])
    BY <1>5 DEF Open
  <2>3. QED BY <1>3, <1>5, <2>1, <2>2 DEF BusInv, Ages, Open
<1>13. ASSUME NEW t \in Tabs, NEW u \in Tabs, Pair(t, u)'
       PROVE  (Listed(t, u) \/ Coming(t, u) \/ Asked(u))'
  <2>1. /\ tabs'[u].phase = "open" /\ u \notin odd /\ u \notin late /\ u \notin odd'
        /\ tabs'[t].phase = "open" /\ t \notin late /\ tabs'[t].id # tabs'[u].id
    BY <1>13 DEF Pair, Plain, Open
  <2>2. CASE t = w
    <3>1. u # w /\ u \in Open BY <1>5, <2>1, <2>2 DEF Open
    <3>2. hello \in In(bus'[u]) /\ tabs'[u].id # id BY <1>3, <1>5, <1>6, <2>1, <2>2, <3>1
    <3>3. QED BY <1>7, <3>2 DEF Asked
  <2>3. CASE u = w
    <3>1. t # w /\ t \in Open BY <1>5, <2>1, <2>3 DEF Open
    <3>2. hello \in In(bus'[t]) /\ tabs'[u].id = id BY <1>3, <1>5, <1>6, <2>3, <3>1
    <3>3. QED BY <1>7, <3>2 DEF Coming
  <2>4. CASE t # w /\ u # w
    <3>1. tabs'[t] = tabs[t] /\ tabs'[u] = tabs[u] BY <1>5, <2>4
    <3>2. Plain(u) /\ t \in Open \ late BY <2>1, <3>1 DEF Plain, Open
    <3>3. tabs[u].id \in Ids BY <3>2, Periods DEF TabsInv, OwnId, Plain
    <3>4. Pair(t, u) BY <1>10, <1>13, <3>1, <3>2, <3>3 DEF Pair
    <3>5. Listed(t, u) \/ Coming(t, u) \/ Asked(u) BY <3>4 DEF BusInv, AllKnown
    <3>6. In(bus[t]) \subseteq In(bus'[t]) /\ In(bus[u]) \subseteq In(bus'[u]) BY <1>6
    <3>7. QED BY <3>1, <3>5, <3>6 DEF Listed, Coming, Asked
  <2>5. QED BY <2>2, <2>3, <2>4
<1>14. AllKnown' BY <1>13 DEF AllKnown
<1>15. QED BY <1>3, <1>5, <1>6, <1>8, <1>10, <1>11, <1>12, <1>14 DEF BusTyped

LEMMA ClaimKeepsBus ==
  ASSUME TabsInv, BusInv, OddTyped, NEW w \in Tabs, Claim(w)
  PROVE  BusInv'
<1> DEFINE id == IF tabs[w].free THEN "base" ELSE w
<1>1. /\ tabs[w].phase = "looking" /\ Joins(w, id, w) /\ odd' = odd /\ late' = late
      /\ stamp' = IF tabs[w].free THEN [holder |-> w, age |-> 0] ELSE stamp
  BY DEF Claim
<1>2. id \in Ids /\ tabs[w].id = "none" BY <1>1, Periods DEF BusInv, Blank
<1> HIDE DEF id
<1>3. /\ BusTyped' /\ Blank' /\ AllKnown' /\ Ages' /\ Byes' = Byes
      /\ \A i \in Ids : Shared(i) => Shared(i)'
      /\ tabs'[w].phase = "open" /\ \A u \in Tabs : u # w => tabs'[u] = tabs[u]
  BY <1>1, <1>2, JoinsGreets
<1>4. GoneTabs'
  <2>1. SUFFICES ASSUME NEW i \in Byes, ~Shared(i)'
                 PROVE  (i \in Tabs /\ tabs[i].phase = "closed" /\ tabs[i].id = i)' \/
                        (/\ i = "base" /\ stamp.holder \in Tabs /\ stamp.age < FreshFor
                         /\ tabs[stamp.holder].phase = "closed" /\ tabs[stamp.holder].id = "base"
                         /\ \A t \in Tabs : tabs[t].phase = "looking" => ~tabs[t].free)'
    BY <1>3 DEF GoneTabs
  <2>2. ~Shared(i) BY <1>3, <2>1 DEF Byes
  <2>3. CASE i \in Tabs /\ tabs[i].phase = "closed" /\ tabs[i].id = i BY <1>1, <1>3, <2>3
  <2>4. CASE /\ i = "base" /\ stamp.holder \in Tabs /\ stamp.age < FreshFor
             /\ tabs[stamp.holder].phase = "closed" /\ tabs[stamp.holder].id = "base"
             /\ \A t \in Tabs : tabs[t].phase = "looking" => ~tabs[t].free
    <3>1. ~tabs[w].free /\ stamp' = stamp /\ stamp.holder # w BY <1>1, <2>4
    <3>2. \A t \in Tabs : tabs'[t].phase = "looking" => ~tabs'[t].free BY <1>3, <2>4
    <3>3. QED BY <1>3, <2>4, <3>1, <3>2
  <2>5. QED BY <2>1, <2>2, <2>3, <2>4 DEF BusInv, GoneTabs
<1>5. QED BY <1>3, <1>4 DEF BusInv

\* A page that opens with the id of a session shares it.
LEMMA SessionKeepsBus ==
  ASSUME TabsInv, BusInv, OddTyped, NEW w \in Tabs, NEW id \in Ids, NEW token \in Tabs,
         Joins(w, id, token), tabs[w].phase # "open", tabs[w].id \in {"none", id},
         odd' = odd \cup {w}, late' = late, stamp' = stamp
  PROVE  BusInv'
<1>3. /\ BusTyped' /\ Blank' /\ AllKnown' /\ Ages' /\ Byes' = Byes
      /\ \A i \in Ids : Shared(i) => Shared(i)'
      /\ tabs'[w].phase = "open" /\ tabs'[w].id = id /\ \A u \in Tabs : u # w => tabs'[u] = tabs[u]
  BY JoinsGreets
<1>4. Shared(id)' BY <1>3 DEF Shared
<1>5. GoneTabs'
  <2>1. SUFFICES ASSUME NEW i \in Byes, ~Shared(i)'
                 PROVE  (i \in Tabs /\ tabs[i].phase = "closed" /\ tabs[i].id = i)' \/
                        (/\ i = "base" /\ stamp.holder \in Tabs /\ stamp.age < FreshFor
                         /\ tabs[stamp.holder].phase = "closed" /\ tabs[stamp.holder].id = "base"
                         /\ \A t \in Tabs : tabs[t].phase = "looking" => ~tabs[t].free)'
    BY <1>3 DEF GoneTabs
  <2>2. ~Shared(i) BY <1>3, <2>1 DEF Byes
  <2>3. CASE i \in Tabs /\ tabs[i].phase = "closed" /\ tabs[i].id = i
    <3>1. i # w BY <1>4, <2>1, <2>3, Periods
    <3>2. QED BY <1>3, <2>3, <3>1
  <2>4. CASE /\ i = "base" /\ stamp.holder \in Tabs /\ stamp.age < FreshFor
             /\ tabs[stamp.holder].phase = "closed" /\ tabs[stamp.holder].id = "base"
             /\ \A t \in Tabs : tabs[t].phase = "looking" => ~tabs[t].free
    <3>1. stamp.holder # w BY <1>4, <2>1, <2>4, Periods
    <3>2. \A t \in Tabs : tabs'[t].phase = "looking" => ~tabs'[t].free BY <1>3, <2>4
    <3>3. QED BY <1>3, <2>4, <3>1, <3>2
  <2>5. QED BY <2>1, <2>2, <2>3, <2>4 DEF BusInv, GoneTabs
<1>6. QED BY <1>3, <1>5 DEF BusInv

LEMMA ComesBackKeepsBus ==
  ASSUME TabsInv, BusInv, OddTyped, NEW w \in Tabs, ComesBack(w)
  PROVE  BusInv'
<1>1. tabs[w].phase = "closed" /\ tabs[w] \in TabType BY DEF ComesBack, TabsInv, TabsTyped
<1>2. PICK id \in Ids, token \in Tabs : id = tabs[w].id /\ token = tabs[w].token
  BY <1>1 DEF TabsInv, OwnId, TabType
<1>3. Joins(w, id, token) /\ odd' = odd \cup {w} /\ late' = late /\ stamp' = stamp
  BY <1>2 DEF ComesBack
<1>4. QED BY <1>1, <1>2, <1>3, SessionKeepsBus

LEMMA CopiedKeepsBus ==
  ASSUME TabsInv, BusInv, OddTyped, NEW w \in Tabs, NEW v \in Tabs, Copied(w, v)
  PROVE  BusInv'
<1>1. tabs[v].phase = "open" /\ tabs[v] \in TabType BY DEF Copied, Open, TabsInv, TabsTyped
<1>2. PICK id \in Ids, token \in Tabs : id = tabs[v].id /\ token = tabs[v].token
  BY <1>1 DEF TabsInv, OwnId, TabType
<1>3. Joins(w, id, token) /\ odd' = odd \cup {w} /\ late' = late /\ stamp' = stamp
  BY <1>2 DEF Copied
<1>4. tabs[w].phase = "new" /\ tabs[w].id = "none" BY DEF Copied, BusInv, Blank
<1>5. QED BY <1>3, <1>4, SessionKeepsBus

\* The pairs of pages that a step leaves as they were, or finds younger, and messages
\* that are still to be heard
LEMMA SameKnown ==
  ASSUME TabsInv, BusInv, OddTyped, odd \subseteq odd', late \subseteq late',
         \A v \in Tabs : tabs'[v].id = tabs[v].id,
         NEW t \in Tabs, NEW u \in Tabs, Pair(t, u)', tabs[t].phase = "open", tabs[u].phase = "open"
  PROVE  Pair(t, u) /\ (Listed(t, u) \/ Coming(t, u) \/ Asked(u)) /\ tabs[u].id \in Ids
         /\ tabs[u].id \notin Byes
<1>1. Plain(u) /\ t \in Open \ late BY DEF Pair, Plain, Open
<1>2. tabs[u].id \in Ids BY <1>1, Periods DEF TabsInv, OwnId, Plain
<1>3. ~Shared(tabs[u].id)
  <2>1. PICK i \in Ids : i = tabs[u].id BY <1>2
  <2>2. tabs'[u].id = i BY <2>1
  <2>3. ~Shared(i)' BY <2>2 DEF Pair
  <2>4. odd \cup late \subseteq Tabs BY DEF OddTyped
  <2>5. ~Shared(i) BY <2>3, <2>4, SharedKeeps
  <2>6. QED BY <2>1, <2>5
<1>4. Pair(t, u) BY <1>1, <1>3 DEF Pair
<1>5. QED BY <1>1, <1>2, <1>3, <1>4, NoBye DEF BusInv, AllKnown

LEMMA LeavesKeepsBus ==
  ASSUME TabsInv, BusInv, OddTyped, NEW w \in Tabs, Leaves(w)
  PROVE  BusInv'
<1> DEFINE seen == [i \in Ids |-> Unlisted]
           tab == [tabs[w] EXCEPT !.phase = "closed", !.clock = 0, !.seen = seen]
           id == tabs[w].id
           farewell == [kind |-> "bye", from |-> id, reply |-> FALSE]
<1>1. /\ tabs[w] \in TabType /\ tabs \in [Tabs -> TabType] /\ tabs[w].phase = "open"
      /\ id \in Ids /\ UNCHANGED <<stamp, odd, late>>
  BY Periods DEF TabsInv, TabsTyped, OwnId, Leaves, Open
<1>2. tabs' = [tabs EXCEPT ![w] = tab] BY <1>1 DEF Leaves, TabType
<1>3. \A i \in Ids : seen[i] = Unlisted OBVIOUS
<1> HIDE DEF seen
<1>4. tab.phase = "closed" /\ tab.id = id /\ tab.seen = seen BY <1>1 DEF TabType
<1> HIDE DEF tab
<1>5. \A u \in Tabs : tabs'[u] = IF u = w THEN tab ELSE tabs[u] BY <1>1, <1>2
<1>6. /\ bus' \in [Tabs -> Seq(Message)]
      /\ \A u \in Tabs : u # w => In(bus[u]) \subseteq In(bus'[u])
      /\ \A u \in Tabs : In(bus'[u]) \subseteq In(bus[u]) \cup {farewell}
  <2>1. bus \in [Tabs -> Seq(Message)] /\ <<>> \in Seq(Message) /\ In(<<>>) = {}
    <3>1. bus \in [Tabs -> Seq(Message)] BY DEF BusInv, BusTyped
    <3>2. DEFINE empty == <<>>
    <3>3. empty \in Seq(Message) /\ empty = <<>> OBVIOUS
    <3> HIDE DEF empty
    <3>4. In(empty) = {} BY ONLY <3>3, Queue
    <3>5. QED BY <3>1, <3>3, <3>4
  <2>2. PICK queues \in {bus, PostedToAll(w, "bye", id, FALSE, bus)} : bus' = [queues EXCEPT ![w] = <<>>]
    BY DEF Leaves
  <2>5. farewell \in Message BY <1>1 DEF Message
  <2>6. PostedToAll(w, "bye", id, FALSE, bus) = QueuesWith(w, farewell, bus) BY DEF PostedToAll, QueuesWith
  <2> HIDE DEF id, farewell
  <2>3. /\ queues \in [Tabs -> Seq(Message)]
        /\ \A u \in Tabs : /\ In(bus[u]) \subseteq In(queues[u])
                           /\ In(queues[u]) \subseteq In(bus[u]) \cup {farewell}
    <3>1. CASE queues = bus BY <2>1, <3>1
    <3>2. CASE queues = PostedToAll(w, "bye", id, FALSE, bus)
      <4>1. queues = QueuesWith(w, farewell, bus) BY <2>6, <3>2
      <4>2. \A u \in Tabs : /\ queues[u] \in Seq(Message)
                            /\ In(bus[u]) \subseteq In(queues[u])
                            /\ In(queues[u]) \subseteq In(bus[u]) \cup {farewell}
        BY <2>1, <2>5, <4>1, Posts
      <4>3. QED BY <4>1, <4>2 DEF QueuesWith
    <3>3. QED BY <2>2, <3>1, <3>2
  <2>4. QED BY <2>1, <2>2, <2>3
<1>7. farewell.kind = "bye" /\ farewell.from = id OBVIOUS
<1> HIDE DEF farewell, id
<1>8. Byes' \subseteq Byes \cup {id} BY <1>6, <1>7 DEF Byes
<1>9. \A u \in Tabs : tabs'[u].id = tabs[u].id BY <1>4, <1>5 DEF id
<1>10. \A i \in Ids : Shared(i) => Shared(i)' BY <1>1, <1>9, SharedKeeps DEF OddTyped
<1>11. Blank' BY <1>1, <1>3, <1>4, <1>5 DEF BusInv, Blank
<1>12. Ages' BY <1>1, <1>4, <1>5 DEF BusInv, Ages, Open
<1>13. GoneTabs'
  <2>1. SUFFICES ASSUME NEW i \in Byes \cup {id}, ~Shared(i)'
                 PROVE  (i \in Tabs /\ tabs[i].phase = "closed" /\ tabs[i].id = i)' \/
                        (/\ i = "base" /\ stamp.holder \in Tabs /\ stamp.age < FreshFor
                         /\ tabs[stamp.holder].phase = "closed" /\ tabs[stamp.holder].id = "base"
                         /\ \A t \in Tabs : tabs[t].phase = "looking" => ~tabs[t].free)'
    BY <1>8 DEF GoneTabs
  <2>2. i \in Ids /\ ~Shared(i) BY <1>1, <1>10, <2>1 DEF Byes
  <2>3. CASE i \in Tabs /\ tabs[i].phase = "closed" /\ tabs[i].id = i BY <1>4, <1>5, <2>3 DEF id
  <2>4. CASE /\ i = "base" /\ stamp.holder \in Tabs /\ stamp.age < FreshFor
             /\ tabs[stamp.holder].phase = "closed" /\ tabs[stamp.holder].id = "base"
             /\ \A t \in Tabs : tabs[t].phase = "looking" => ~tabs[t].free
    BY <1>1, <1>4, <1>5, <2>4 DEF id
  <2>5. CASE i = id
    <3>1. Plain(w) BY <1>1, <2>2, <2>5 DEF Plain, Shared, id
    <3>2. CASE id = w BY <1>4, <1>5, <2>5, <3>2
    <3>3. CASE id = "base"
      <4>1. stamp.holder = w /\ stamp.age <= tabs[w].clock
        BY <3>1, <3>3 DEF TabsInv, HolderIsFresh, id
      <4>2. stamp.age < FreshFor
        <5>1. stamp.age \in Nat /\ tabs[w].clock \in 0 .. Beat
          BY <1>1 DEF TabType, TabsInv, TabsTyped
        <5>2. QED BY <4>1, <5>1, Periods
      <4>3. \A t \in Tabs : tabs[t].phase = "looking" => ~tabs[t].free
        BY <3>1, <3>3 DEF TabsInv, FreeIsFree, id
      <4>4. \A t \in Tabs : tabs'[t].phase = "looking" => ~tabs'[t].free BY <1>4, <1>5, <4>3
      <4>5. QED BY <1>1, <1>4, <1>5, <2>5, <3>3, <4>1, <4>2, <4>4
    <3>4. id \in {w, "base"} BY <3>1 DEF TabsInv, OwnId, id
    <3>5. QED BY <3>2, <3>3, <3>4
  <2>6. QED BY <2>1, <2>2, <2>3, <2>4, <2>5 DEF BusInv, GoneTabs
<1>14. ASSUME NEW t \in Tabs, NEW u \in Tabs, Pair(t, u)'
       PROVE  (Listed(t, u) \/ Coming(t, u) \/ Asked(u))'
  <2>1. t # w /\ u # w BY <1>4, <1>5, <1>14 DEF Pair, Plain, Open
  <2>2. tabs'[t] = tabs[t] /\ tabs'[u] = tabs[u] BY <1>5, <2>1
  <2>3. tabs[t].phase = "open" /\ tabs[u].phase = "open" BY <1>14, <2>2 DEF Pair, Plain, Open
  <2>4. Listed(t, u) \/ Coming(t, u) \/ Asked(u) BY <1>1, <1>9, <1>14, <2>3, SameKnown
  <2>5. In(bus[t]) \subseteq In(bus'[t]) /\ In(bus[u]) \subseteq In(bus'[u]) BY <1>6, <2>1
  <2>6. QED BY <2>2, <2>4, <2>5 DEF Listed, Coming, Asked
<1>15. AllKnown' BY <1>14 DEF AllKnown
<1>16. QED BY <1>6, <1>11, <1>12, <1>13, <1>15 DEF BusInv, BusTyped


LEMMA TimerKeepsBus ==
  ASSUME TabsInv, BusInv, OddTyped, NEW w \in Tabs, Timer(w)
  PROVE  BusInv'
<1>1. /\ tabs[w] \in TabType /\ tabs \in [Tabs -> TabType] /\ w \in Open /\ tabs[w].clock = Beat
      /\ UNCHANGED <<odd, late>> /\ stamp' = Refreshed(w)
  BY DEF TabsInv, TabsTyped, Timer
<1>2. PICK id \in Ids : id = tabs[w].id BY <1>1, Periods DEF TabsInv, OwnId, Open
<1> DEFINE seen == Expired(tabs[w].seen)
           tab == [tabs[w] EXCEPT !.clock = 0, !.seen = seen]
           hello == [kind |-> "presence", from |-> id, reply |-> FALSE]
<1>3. tabs' = [tabs EXCEPT ![w] = tab] BY <1>1 DEF Timer, TabType
<1>4. \A i \in Ids : seen[i] = IF tabs[w].seen[i] > Expiry THEN Unlisted ELSE tabs[w].seen[i]
  BY DEF Expired
<1> HIDE DEF seen
<1>5. tab.phase = "open" /\ tab.id = id /\ tab.seen = seen /\ tab.clock = 0 /\ tab.free = tabs[w].free
  BY <1>1, <1>2 DEF TabType, Open
<1> HIDE DEF tab
<1>6. \A u \in Tabs : tabs'[u] = IF u = w THEN tab ELSE tabs[u] BY <1>1, <1>3
<1>7. hello \in Message BY <1>2 DEF Message
<1>8. bus' = QueuesWith(w, hello, bus) BY <1>2 DEF Timer, PostedToAll, QueuesWith
<1>9. hello.kind = "presence" /\ hello.from = id OBVIOUS
<1> HIDE DEF hello
<1>10. /\ bus' \in [Tabs -> Seq(Message)]
       /\ \A u \in Tabs : /\ In(bus[u]) \subseteq In(bus'[u])
                          /\ In(bus'[u]) \subseteq In(bus[u]) \cup {hello}
                          /\ u \in Open \ {w} => hello \in In(bus'[u])
  <2>1. bus \in [Tabs -> Seq(Message)] BY DEF BusInv, BusTyped
  <2>2. \A u \in Tabs : /\ bus'[u] \in Seq(Message)
                        /\ In(bus[u]) \subseteq In(bus'[u])
                        /\ In(bus'[u]) \subseteq In(bus[u]) \cup {hello}
                        /\ u \in Open \ {w} => hello \in In(bus'[u])
    BY <1>7, <1>8, <2>1, Posts
  <2>3. bus' \in [Tabs -> Seq(Message)] BY <1>8, <2>2 DEF QueuesWith
  <2>4. QED BY <2>2, <2>3
<1>11. BusTyped' BY <1>10 DEF BusTyped
<1>12. Byes' \subseteq Byes BY <1>9, <1>10 DEF Byes
<1>13. \A u \in Tabs : /\ tabs'[u].id = tabs[u].id /\ tabs'[u].phase = tabs[u].phase
                      /\ tabs'[u].free = tabs[u].free
  BY <1>1, <1>2, <1>5, <1>6 DEF Open
<1>14. \A i \in Ids : Shared(i) => Shared(i)' BY <1>1, <1>13, SharedKeeps DEF OddTyped
<1>15. Blank'
  <2>1. \A u \in Tabs : tabs'[u].phase # "open" => tabs'[u] = tabs[u] BY <1>5, <1>6
  <2>2. QED BY <1>13, <2>1 DEF BusInv, Blank
<1>16. GoneTabs'
  <2>1. stamp'.holder = stamp.holder /\ (stamp'.age = stamp.age \/ stamp'.age = 0)
    BY <1>1 DEF Refreshed, TabsInv, TabsTyped
  <2>2. stamp.age < FreshFor => stamp'.age < FreshFor BY <2>1, Periods
  <2>3. QED BY <1>12, <1>13, <1>14, <2>1, <2>2 DEF BusInv, GoneTabs, Byes
<1>17. ASSUME NEW t \in Tabs, NEW u \in Tabs, Pair(t, u)'
       PROVE  (Listed(t, u) \/ Coming(t, u) \/ Asked(u))'
  <2>1. tabs[t].phase = "open" /\ tabs[u].phase = "open" BY <1>13, <1>17 DEF Pair, Plain, Open
  <2>2. Pair(t, u) /\ (Listed(t, u) \/ Coming(t, u) \/ Asked(u)) /\ tabs[u].id \in Ids
    BY <1>1, <1>13, <1>17, <2>1, SameKnown
  <2>3. CASE u = w
    <3>1. t \in Open \ {w} BY <2>2, <2>3 DEF Pair
    <3>2. hello \in In(bus'[t]) /\ tabs'[u].id = id BY <1>2, <1>10, <1>13, <2>3, <3>1
    <3>3. QED BY <1>9, <3>2 DEF Coming
  <2>4. CASE u # w /\ Listed(t, u)
    <3>1. tabs'[u] = tabs[u] BY <1>6, <2>4
    <3>2. CASE t # w BY <1>6, <2>4, <3>1, <3>2 DEF Listed
    <3>3. CASE t = w
      <4>1. /\ tabs[w].seen[tabs[u].id] <= tabs[u].clock /\ tabs[u].clock \in Nat
            /\ tabs[u].clock <= Beat /\ tabs[w].seen[tabs[u].id] \in Nat
        BY <1>1, <2>2, <2>4, <3>3, Periods DEF Listed, TabType
      <4>2. ~(tabs[w].seen[tabs[u].id] > Expiry) BY <4>1, Periods
      <4>3. seen[tabs[u].id] = tabs[w].seen[tabs[u].id] BY <1>4, <2>2, <4>2
      <4>4. QED BY <1>5, <1>6, <3>1, <3>3, <4>1, <4>3 DEF Listed
    <3>4. QED BY <3>2, <3>3
  <2>5. CASE Coming(t, u) \/ Asked(u)
    <3>1. /\ In(bus[t]) \subseteq In(bus'[t]) /\ In(bus[u]) \subseteq In(bus'[u])
          /\ tabs'[u].id = tabs[u].id
      BY <1>10, <1>13
    <3>2. QED BY <2>5, <3>1 DEF Coming, Asked
  <2>6. QED BY <2>2, <2>3, <2>4, <2>5
<1>18. AllKnown' BY <1>17 DEF AllKnown
<1>19. Ages'
  <2>1. \A i \in Ids : seen[i] = Unlisted \/ seen[i] <= Expiry + 0
    <3>1. TAKE i \in Ids
    <3>2. tabs[w].seen[i] \in Nat BY <1>1, Periods DEF TabType
    <3>3. QED BY <1>4, <3>2, Periods
  <2>2. \A u \in Open' \ late' : u = w \/ (u \in Open \ late /\ tabs'[u] = tabs[u])
    BY <1>1, <1>6 DEF Open
  <2>3. QED BY <1>5, <1>6, <2>1, <2>2 DEF BusInv, Ages, Open
<1>20. QED BY <1>11, <1>15, <1>16, <1>18, <1>19 DEF BusInv

LEMMA HeldBackKeepsBus ==
  ASSUME TabsInv, BusInv, OddTyped, NEW w \in Tabs, HeldBack(w)
  PROVE  BusInv'
<1>1. UNCHANGED <<tabs, stamp, bus, odd>> /\ late' = late \cup {w} BY DEF HeldBack
<1>2. \A i \in Ids : Shared(i) => Shared(i)' BY <1>1 DEF Shared
<1>3. BusTyped' /\ Blank' /\ Byes' = Byes BY <1>1 DEF BusInv, BusTyped, Blank, Byes
<1>4. GoneTabs' BY <1>1, <1>2, <1>3 DEF BusInv, GoneTabs, Byes
<1>5. ASSUME NEW t \in Tabs, NEW u \in Tabs, Pair(t, u)'
      PROVE  (Listed(t, u) \/ Coming(t, u) \/ Asked(u))'
  <2>1. tabs[t].phase = "open" /\ tabs[u].phase = "open" BY <1>1, <1>5 DEF Pair, Plain, Open
  <2>2. Listed(t, u) \/ Coming(t, u) \/ Asked(u) BY <1>1, <1>5, <2>1, SameKnown
  <2>3. QED BY <1>1, <2>2 DEF Listed, Coming, Asked
<1>6. AllKnown' BY <1>5 DEF AllKnown
<1>7. Ages' BY <1>1 DEF BusInv, Ages, Open
<1>8. QED BY <1>3, <1>4, <1>6, <1>7 DEF BusInv


\* What hearing message m does to those that wait: it is heard, nobody else loses one,
\* no farewell is added, and a page that asks is answered.
HeardOnce(w, m, id) ==
  /\ m \in Message /\ m \in In(bus[w])
  /\ bus' \in [Tabs -> Seq(Message)]
  /\ \A u \in Tabs : /\ In(bus[u]) \subseteq In(bus'[u]) \cup IF u = w THEN {m} ELSE {}
                     /\ \A x \in In(bus'[u]) : x \in In(bus[u]) \/ x.kind = "presence"
  /\ m.from # id /\ m.kind = "presence" /\ m.reply =>
       \A u \in Open \ {w} : \E x \in In(bus'[u]) : x.kind = "presence" /\ x.from = id

LEMMA Heard ==
  ASSUME TabsInv, BusInv, NEW w \in Tabs, Hears(w), NEW m, m = Head(bus[w]),
         NEW id \in Ids, id = tabs[w].id
  PROVE  HeardOnce(w, m, id)
<1> DEFINE rest == [bus EXCEPT ![w] = Tail(bus[w])]
           answer == [kind |-> "presence", from |-> id, reply |-> FALSE]
<1>1. bus \in [Tabs -> Seq(Message)] /\ bus[w] # <<>> BY DEF BusInv, BusTyped, Hears
<1>2. m \in Message /\ Tail(bus[w]) \in Seq(Message) /\ In(bus[w]) = {m} \cup In(Tail(bus[w]))
  BY <1>1, Queue
<1>3. rest \in [Tabs -> Seq(Message)] /\ \A u \in Tabs : rest[u] = IF u = w THEN Tail(bus[w]) ELSE bus[u]
  BY <1>1, <1>2
<1>4. \A u \in Tabs : /\ In(bus[u]) \subseteq In(rest[u]) \cup IF u = w THEN {m} ELSE {}
                     /\ In(rest[u]) \subseteq In(bus[u])
  BY <1>2, <1>3
<1>5. answer \in Message BY DEF Message
<1>6. bus' = IF m.from # id /\ m.kind = "presence" /\ m.reply THEN QueuesWith(w, answer, rest) ELSE rest
  BY <1>1 DEF Hears, Replies, PostedToAll, QueuesWith
<1>7. answer.kind = "presence" /\ answer.from = id OBVIOUS
<1> HIDE DEF rest, answer
<1>8. CASE m.from # id /\ m.kind = "presence" /\ m.reply
  <2>1. bus' = QueuesWith(w, answer, rest) BY <1>6, <1>8
  <2>2. \A u \in Tabs : /\ bus'[u] \in Seq(Message)
                        /\ In(rest[u]) \subseteq In(bus'[u])
                        /\ In(bus'[u]) \subseteq In(rest[u]) \cup {answer}
                        /\ u \in Open \ {w} => answer \in In(bus'[u])
    BY <1>3, <1>5, <2>1, Posts
  <2>3. bus' \in [Tabs -> Seq(Message)] BY <2>1, <2>2 DEF QueuesWith
  <2>4. \A u \in Tabs : /\ In(bus[u]) \subseteq In(bus'[u]) \cup IF u = w THEN {m} ELSE {}
                       /\ \A x \in In(bus'[u]) : x \in In(bus[u]) \/ x.kind = "presence"
    <3>1. TAKE u \in Tabs
    <3>2. In(bus[u]) \subseteq In(bus'[u]) \cup IF u = w THEN {m} ELSE {} BY <1>4, <2>2
    <3>3. \A x \in In(bus'[u]) : x \in In(bus[u]) \/ x = answer BY <1>4, <2>2
    <3>4. QED BY <1>7, <3>2, <3>3
  <2>5. \A u \in Open \ {w} : \E x \in In(bus'[u]) : x.kind = "presence" /\ x.from = id
    BY <1>7, <2>2 DEF Open
  <2>6. QED BY <1>2, <2>3, <2>4, <2>5 DEF HeardOnce
<1>9. CASE ~(m.from # id /\ m.kind = "presence" /\ m.reply)
  <2>1. bus' = rest BY <1>6, <1>9
  <2>2. \A u \in Tabs : /\ In(bus[u]) \subseteq In(bus'[u]) \cup IF u = w THEN {m} ELSE {}
                       /\ \A x \in In(bus'[u]) : x \in In(bus[u]) \/ x.kind = "presence"
    BY <1>4, <2>1
  <2>3. QED BY <1>2, <1>3, <1>9, <2>1, <2>2 DEF HeardOnce
<1>10. QED BY <1>8, <1>9

LEMMA HearsKeepsBus ==
  ASSUME TabsInv, BusInv, OddTyped, NEW w \in Tabs, Hears(w)
  PROVE  BusInv'
<1>1. /\ tabs[w] \in TabType /\ tabs \in [Tabs -> TabType] /\ tabs[w].phase = "open" /\ w \in Open
      /\ UNCHANGED <<odd, late, stamp>>
  BY DEF TabsInv, TabsTyped, Hears, Open
<1>2. PICK id \in Ids : id = tabs[w].id BY <1>1, Periods DEF TabsInv, OwnId, Open
<1>3. PICK m : m = Head(bus[w]) OBVIOUS
<1>4. /\ m \in Message /\ m \in In(bus[w])
      /\ bus' \in [Tabs -> Seq(Message)]
      /\ \A u \in Tabs : /\ In(bus[u]) \subseteq In(bus'[u]) \cup IF u = w THEN {m} ELSE {}
                         /\ \A x \in In(bus'[u]) : x \in In(bus[u]) \/ x.kind = "presence"
      /\ m.from # id /\ m.kind = "presence" /\ m.reply =>
           \A u \in Open \ {w} : \E x \in In(bus'[u]) : x.kind = "presence" /\ x.from = id
  <2>1. HeardOnce(w, m, id) BY <1>2, <1>3, Heard
  <2>2. QED BY <2>1 DEF HeardOnce
<1>5. m.kind \in {"presence", "bye"} /\ m.from \in Ids BY <1>4 DEF Message
<1> DEFINE seen == IF m.from = id THEN tabs[w].seen
                   ELSE [tabs[w].seen EXCEPT ![m.from] = IF m.kind = "presence" THEN 0 ELSE Unlisted]
           tab == [tabs[w] EXCEPT !.seen = seen]
<1>6. tabs' = [tabs EXCEPT ![w] = tab]
  <2>1. CASE m.from = id BY <1>1, <1>2, <1>3, <2>1 DEF Hears, TabType
  <2>2. CASE m.from # id /\ m.kind = "presence" BY <1>1, <1>2, <1>3, <2>2 DEF Hears, TabType
  <2>3. CASE m.from # id /\ m.kind = "bye" BY <1>1, <1>2, <1>3, <2>3 DEF Hears, TabType
  <2>4. QED BY <1>5, <2>1, <2>2, <2>3
<1>7. /\ \A i \in Ids : seen[i] = tabs[w].seen[i] \/ (i = m.from /\ seen[i] \in {0, Unlisted})
      /\ m.from # id /\ m.kind = "presence" => seen[m.from] = 0
      /\ m.kind # "bye" => \A i \in Ids : seen[i] = tabs[w].seen[i] \/ seen[i] = 0
  BY <1>1, <1>5 DEF TabType
<1> HIDE DEF seen
<1>8. tab.phase = "open" /\ tab.id = id /\ tab.seen = seen /\ tab.clock = tabs[w].clock
      /\ tab.free = tabs[w].free
  BY <1>1, <1>2 DEF TabType
<1> HIDE DEF tab
<1>9. \A u \in Tabs : tabs'[u] = IF u = w THEN tab ELSE tabs[u] BY <1>1, <1>6
<1>10. \A u \in Tabs : /\ tabs'[u].id = tabs[u].id /\ tabs'[u].phase = tabs[u].phase
                      /\ tabs'[u].free = tabs[u].free /\ tabs'[u].clock = tabs[u].clock
  BY <1>1, <1>2, <1>8, <1>9
<1>11. BusTyped' BY <1>4 DEF BusTyped
<1>12. Byes' \subseteq Byes
  <2>1. \A u \in Tabs : \A x \in In(bus'[u]) : x.kind = "bye" => x \in In(bus[u]) BY <1>4
  <2>2. QED BY <2>1 DEF Byes
<1>13. \A i \in Ids : Shared(i) => Shared(i)' BY <1>1, <1>10, SharedKeeps DEF OddTyped
<1>14. Blank'
  <2>1. \A u \in Tabs : tabs'[u].phase # "open" => tabs'[u] = tabs[u] BY <1>8, <1>9
  <2>2. QED BY <1>10, <2>1 DEF BusInv, Blank
<1>15. GoneTabs' BY <1>1, <1>10, <1>12, <1>13 DEF BusInv, GoneTabs, Byes
<1>16. ASSUME NEW t \in Tabs, NEW u \in Tabs, Pair(t, u)'
       PROVE  (Listed(t, u) \/ Coming(t, u) \/ Asked(u))'
  <2>1. tabs[t].phase = "open" /\ tabs[u].phase = "open" BY <1>10, <1>16 DEF Pair, Plain, Open
  <2>2. /\ Pair(t, u) /\ (Listed(t, u) \/ Coming(t, u) \/ Asked(u)) /\ tabs[u].id \in Ids
        /\ tabs[u].id \notin Byes
    BY <1>1, <1>10, <1>16, <2>1, SameKnown
  <2>3. PICK i \in Ids : i = tabs[u].id BY <2>2
  <2>4. tabs'[u].id = i /\ tabs'[u].clock = tabs[u].clock /\ tabs[u].clock \in Nat
        /\ tabs[t].id # i /\ tabs'[t].id # i
    BY <1>1, <1>10, <2>2, <2>3 DEF Pair, TabType
  <2>5. CASE Listed(t, u)
    <3>1. tabs[t].seen[i] <= tabs[u].clock BY <2>3, <2>5 DEF Listed
    <3>2. CASE t # w BY <1>9, <2>4, <3>1, <3>2 DEF Listed
    <3>3. CASE t = w /\ m.from = i
      <4>1. m.kind # "bye" BY <1>4, <2>2, <2>3, <3>3 DEF Byes
      <4>2. m.from # id BY <1>2, <2>4, <3>3
      <4>3. seen[i] = 0 BY <1>5, <1>7, <3>3, <4>1, <4>2
      <4>4. QED BY <1>8, <1>9, <2>4, <3>3, <4>3 DEF Listed
    <3>4. CASE t = w /\ m.from # i
      <4>1. seen[i] = tabs[w].seen[i] BY <1>7, <3>4
      <4>2. QED BY <1>8, <1>9, <2>4, <3>1, <3>4, <4>1 DEF Listed
    <3>5. QED BY <3>2, <3>3, <3>4
  <2>6. CASE Coming(t, u)
    <3>1. PICK x \in In(bus[t]) : x.kind = "presence" /\ x.from = i BY <2>3, <2>6 DEF Coming
    <3>2. CASE x \in In(bus'[t]) BY <2>4, <3>1, <3>2 DEF Coming
    <3>3. CASE x \notin In(bus'[t])
      <4>1. t = w /\ x = m BY <1>4, <3>1, <3>3
      <4>2. seen[i] = 0 BY <1>2, <1>7, <2>4, <3>1, <4>1
      <4>3. QED BY <1>8, <1>9, <2>4, <4>1, <4>2 DEF Listed
    <3>4. QED BY <3>2, <3>3
  <2>7. CASE Asked(u)
    <3>1. PICK x \in In(bus[u]) : x.kind = "presence" /\ x.reply /\ x.from # i
      BY <2>3, <2>7 DEF Asked
    <3>2. CASE x \in In(bus'[u]) BY <2>4, <3>1, <3>2 DEF Asked
    <3>3. CASE x \notin In(bus'[u])
      <4>1. u = w /\ x = m BY <1>4, <3>1, <3>3
      <4>2. t \in Open \ {w} /\ i = id BY <1>2, <2>2, <2>3, <4>1 DEF Pair
      <4>3. \E y \in In(bus'[t]) : y.kind = "presence" /\ y.from = id BY <1>4, <3>1, <4>1, <4>2
      <4>4. QED BY <2>4, <4>2, <4>3 DEF Coming
    <3>4. QED BY <3>2, <3>3
  <2>8. QED BY <2>2, <2>5, <2>6, <2>7
<1>17. AllKnown' BY <1>16 DEF AllKnown
<1>18. Ages'
  <2>1. SUFFICES ASSUME NEW t \in Open' \ late', NEW i \in Ids
                 PROVE  tabs'[t].seen[i] = Unlisted \/ tabs'[t].seen[i] <= Expiry + tabs'[t].clock
    BY DEF Ages
  <2>2. t \in Open \ late /\ t \in Tabs BY <1>1, <1>10 DEF Open
  <2>3. tabs[t].seen[i] = Unlisted \/ tabs[t].seen[i] <= Expiry + tabs[t].clock
    BY <2>2 DEF BusInv, Ages
  <2>4. CASE t # w BY <1>9, <2>2, <2>3, <2>4
  <2>5. CASE t = w
    <3>1. tabs'[t].seen[i] \in {tabs[t].seen[i], 0, Unlisted} BY <1>7, <1>8, <1>9, <2>2, <2>5
    <3>2. tabs[t].clock \in Nat /\ tabs'[t].clock = tabs[t].clock BY <1>1, <1>10, <2>2 DEF TabType
    <3>3. 0 <= Expiry + tabs[t].clock BY <3>2, Periods
    <3>4. QED BY <2>3, <3>1, <3>2, <3>3
  <2>6. QED BY <2>4, <2>5
<1>19. QED BY <1>11, <1>14, <1>15, <1>17, <1>18 DEF BusInv


LEMMA TimeKeepsBus ==
  ASSUME TabsInv, BusInv, OddTyped, Time
  PROVE  BusInv'
<1>1. /\ tabs \in [Tabs -> TabType] /\ UNCHANGED <<bus, reloads, odd, late>>
      /\ \A t \in Tabs : bus[t] = <<>>
      /\ \A t \in Open \ late : tabs[t].clock < Beat
  BY DEF TabsInv, TabsTyped, Time
<1>2. \A t \in Tabs :
        tabs'[t] = IF t \in Open
                   THEN [tabs[t] EXCEPT !.clock = Older(@, Beat),
                                        !.seen = [i \in Ids |-> IF @[i] = Unlisted THEN @[i]
                                                                ELSE Older(@[i], Unlisted - 1)]]
                   ELSE tabs[t]
  BY DEF Time
<1>13. \A t \in Tabs : tabs'[t].phase = tabs[t].phase /\ tabs'[t].id = tabs[t].id
  BY <1>1, <1>2 DEF TabType
<1>14. \A t \in Tabs : tabs[t].phase # "open" => tabs'[t] = tabs[t] BY <1>2 DEF Open
<1>15. \A t \in Tabs : tabs[t].phase = "open" => tabs'[t].clock = Older(tabs[t].clock, Beat)
  BY <1>1, <1>2 DEF TabType, Open
<1>16. \A t \in Tabs : tabs[t].phase = "open" =>
         \A i \in Ids : tabs'[t].seen[i] = IF tabs[t].seen[i] = Unlisted THEN Unlisted
                                         ELSE Older(tabs[t].seen[i], Unlisted - 1)
  <2>1. SUFFICES ASSUME NEW t \in Tabs, tabs[t].phase = "open", NEW i \in Ids
                 PROVE  tabs'[t].seen[i] = IF tabs[t].seen[i] = Unlisted THEN Unlisted
                                           ELSE Older(tabs[t].seen[i], Unlisted - 1)
    OBVIOUS
  <2> DEFINE seen == [j \in Ids |-> IF tabs[t].seen[j] = Unlisted THEN tabs[t].seen[j]
                                    ELSE Older(tabs[t].seen[j], Unlisted - 1)]
  <2>2. tabs'[t] = [tabs[t] EXCEPT !.clock = Older(@, Beat), !.seen = seen] BY <1>2, <2>1 DEF Open
  <2>3. seen[i] = IF tabs[t].seen[i] = Unlisted THEN Unlisted ELSE Older(tabs[t].seen[i], Unlisted - 1)
    BY <2>1
  <2> HIDE DEF seen
  <2>4. tabs'[t].seen = seen BY <1>1, <2>2 DEF TabType
  <2>5. QED BY <2>3, <2>4
<1>3. \A t \in Tabs : In(bus[t]) = {}
  <2>1. bus \in [Tabs -> Seq(Message)] BY DEF BusInv, BusTyped
  <2>2. QED BY <1>1, <2>1, Queue
<1>4. \A i \in Ids : Shared(i) => Shared(i)' BY <1>1, <1>13, SharedKeeps DEF OddTyped
<1>5. BusTyped' BY <1>1 DEF BusInv, BusTyped
<1>6. Byes' = {} BY <1>1, <1>3 DEF Byes
<1>7. GoneTabs' BY <1>6 DEF GoneTabs
<1>8. Blank' BY <1>13, <1>14 DEF BusInv, Blank
<1>9. ASSUME NEW t \in Tabs, NEW u \in Tabs, Pair(t, u)'
      PROVE  (Listed(t, u) \/ Coming(t, u) \/ Asked(u))'
  <2>1. tabs[t].phase = "open" /\ tabs[u].phase = "open" BY <1>13, <1>9 DEF Pair, Plain, Open
  <2>2. Pair(t, u) /\ (Listed(t, u) \/ Coming(t, u) \/ Asked(u)) /\ tabs[u].id \in Ids
    BY <1>1, <1>13, <1>9, <2>1, SameKnown
  <2>3. ~Coming(t, u) /\ ~Asked(u) BY <1>3 DEF Coming, Asked
  <2>4. PICK i \in Ids : i = tabs[u].id BY <2>2
  <2>5. /\ tabs[t].seen[i] <= tabs[u].clock /\ tabs[t].seen[i] \in Nat /\ tabs[u].clock \in Nat
        /\ tabs[u].clock < Beat
    <3>1. u \in Open \ late BY <2>2 DEF Pair, Plain, Open
    <3>2. tabs[t] \in TabType /\ tabs[u] \in TabType BY <1>1
    <3>3. QED BY <1>1, <2>2, <2>3, <2>4, <3>1, <3>2 DEF Listed, TabType
  <2>6. tabs'[u].clock = tabs[u].clock + 1 /\ tabs'[u].id = i BY <1>13, <1>15, <2>1, <2>4, <2>5 DEF Older
  <2>7. tabs[t].seen[i] # Unlisted BY <2>5, Periods
  <2>8. tabs'[t].seen[i] \in {tabs[t].seen[i], tabs[t].seen[i] + 1}
    BY <1>16, <2>1, <2>4, <2>7 DEF Older
  <2>9. tabs'[t].seen[i] <= tabs'[u].clock BY <2>5, <2>6, <2>8
  <2>10. QED BY <2>6, <2>9 DEF Listed
<1>10. AllKnown' BY <1>9 DEF AllKnown
<1>11. Ages'
  <2>1. SUFFICES ASSUME NEW t \in Open' \ late', NEW i \in Ids
                 PROVE  tabs'[t].seen[i] = Unlisted \/ tabs'[t].seen[i] <= Expiry + tabs'[t].clock
    BY DEF Ages
  <2>2. t \in Open \ late /\ t \in Tabs /\ tabs[t].phase = "open" BY <1>1, <1>13 DEF Open
  <2>3. tabs[t].clock \in Nat /\ tabs[t].clock < Beat /\ tabs[t].seen[i] \in Nat
    BY <1>1, <2>2 DEF TabType
  <2>4. tabs'[t].clock = tabs[t].clock + 1 BY <1>15, <2>2, <2>3 DEF Older
  <2>5. CASE tabs[t].seen[i] = Unlisted BY <1>16, <2>2, <2>5
  <2>6. CASE tabs[t].seen[i] # Unlisted
    <3>1. tabs[t].seen[i] <= Expiry + tabs[t].clock BY <2>2, <2>6 DEF BusInv, Ages
    <3>2. tabs'[t].seen[i] \in {tabs[t].seen[i], tabs[t].seen[i] + 1} BY <1>16, <2>2, <2>6 DEF Older
    <3>3. QED BY <2>3, <2>4, <3>1, <3>2, Periods
  <2>7. QED BY <2>5, <2>6
<1>12. QED BY <1>5, <1>7, <1>8, <1>10, <1>11 DEF BusInv

-----------------------------------------------------------------------------
LEMMA BusStarts == TabsInit => BusInv /\ OddTyped
<1>1. SUFFICES ASSUME TabsInit PROVE BusInv /\ OddTyped OBVIOUS
<1> DEFINE seen == [i \in Ids |-> Unlisted]
           tab(t) == [phase |-> "new", id |-> "none", token |-> t, free |-> FALSE, clock |-> 0,
                      seen |-> seen]
           empty == <<>>
<1>2. tabs = [t \in Tabs |-> tab(t)] /\ bus = [t \in Tabs |-> empty] /\ odd = {} /\ late = {}
  BY <1>1 DEF TabsInit
<1>3. \A i \in Ids : seen[i] = Unlisted OBVIOUS
<1> HIDE DEF seen
<1>4. \A t \in Tabs : tab(t).phase = "new" /\ tab(t).id = "none" /\ tab(t).seen = seen OBVIOUS
<1> HIDE DEF tab
<1>5. empty \in Seq(Message) /\ empty = <<>> OBVIOUS
<1> HIDE DEF empty
<1>6. In(empty) = {} BY ONLY <1>5, Queue
<1>7. BusTyped BY <1>2, <1>5 DEF BusTyped
<1>8. Byes = {} BY <1>2, <1>6 DEF Byes
<1>9. QED BY <1>2, <1>3, <1>4, <1>7, <1>8
          DEF BusInv, Blank, GoneTabs, AllKnown, Ages, OddTyped, Pair, Plain, Open

LEMMA OddSteps ==
  ASSUME OddTyped, [TabsNext]_tabsVars
  PROVE  OddTyped'
  BY DEF OddTyped, tabsVars, TabsNext, Look, Claim, Copied, ComesBack, Leaves, Timer, Hears, HeldBack, Time, Open

LEMMA BusSteps ==
  ASSUME TabsInv, BusInv, OddTyped, [TabsNext]_tabsVars
  PROVE  BusInv'
<1>1. CASE UNCHANGED tabsVars
  BY <1>1 DEF tabsVars, BusInv, BusTyped, Blank, GoneTabs, Byes, AllKnown, Pair, Plain, Shared, Open,
              Listed, Coming, Asked, Ages
<1>2. QED
  BY <1>1, LookKeepsBus, ClaimKeepsBus, CopiedKeepsBus, ComesBackKeepsBus, LeavesKeepsBus,
     TimerKeepsBus, HearsKeepsBus, HeldBackKeepsBus, TimeKeepsBus DEF TabsNext

\* The pages of a browser know of each other while they are open, in whatever order
\* they open, ask, answer, close and die, and for as long only: for any number of tabs
\* and reloads.
THEOREM BusKnowsTabsAlways == TabsSpec => []BusKnowsTabs
<1>1. TabsSpec => [](TabsInv /\ BusInv /\ OddTyped)
  <2>1. TabsInit => TabsInv /\ BusInv /\ OddTyped BY TabsStart, BusStarts
  <2>2. TabsInv /\ BusInv /\ OddTyped /\ [TabsNext]_tabsVars => (TabsInv /\ BusInv /\ OddTyped)'
    BY TabsSteps, BusSteps, OddSteps
  <2>3. QED BY <2>1, <2>2, PTL DEF TabsSpec
<1>2. ASSUME TabsInv, BusInv, OddTyped PROVE TabsListed
  <2>1. SUFFICES ASSUME NEW t \in Open \ late, NEW u \in Open \ late,
                        tabs[t].id # tabs[u].id, ~Shared(tabs[u].id),
                        \A v \in Tabs : bus[v] = <<>>
                 PROVE  tabs[t].seen[tabs[u].id] # Unlisted
    BY DEF TabsListed, Shared
  <2>2. Plain(u) /\ t \in Tabs /\ u \in Tabs /\ tabs[u].id \in Ids
    BY <1>2, <2>1, Periods DEF Plain, Shared, Open, TabsInv, OwnId
  <2>3. Listed(t, u) \/ Coming(t, u) \/ Asked(u) BY <1>2, <2>1, <2>2 DEF BusInv, AllKnown, Pair
  <2>4. In(bus[t]) = {} /\ In(bus[u]) = {}
    <3>1. bus \in [Tabs -> Seq(Message)] BY <1>2 DEF BusInv, BusTyped
    <3>2. QED BY <2>1, <2>2, <3>1, Queue
  <2>5. tabs[t].seen[tabs[u].id] <= tabs[u].clock BY <2>3, <2>4 DEF Listed, Coming, Asked
  <2>6. tabs[t].seen[tabs[u].id] \in Nat /\ tabs[u].clock \in Nat /\ tabs[u].clock <= Beat
    BY <1>2, <2>2, Periods DEF TabsInv, TabsTyped, TabType
  <2>7. QED BY <2>5, <2>6, Periods
<1>3. ASSUME TabsInv, BusInv PROVE NoGhostTabs
  <2>1. SUFFICES ASSUME NEW t \in Open \ late, NEW i \in Ids
                 PROVE  tabs[t].seen[i] \in 0 .. Expiry + Beat \cup {Unlisted}
    BY DEF NoGhostTabs
  <2>2. /\ tabs[t].seen[i] \in Nat /\ tabs[t].clock \in Nat /\ tabs[t].clock <= Beat
    BY <1>3, Periods DEF TabsInv, TabsTyped, TabType, Open
  <2>3. tabs[t].seen[i] = Unlisted \/ tabs[t].seen[i] <= Expiry + tabs[t].clock
    BY <1>3 DEF BusInv, Ages
  <2>4. QED BY <2>2, <2>3, Periods
<1>4. QED BY <1>1, <1>2, <1>3, PTL DEF BusKnowsTabs

-----------------------------------------------------------------------------
(* ResumeJournal: what a reload finds of a transfer.                         *)

\* A record that lists verified blocks only
TrueRecord(r) ==
  r # NoRecord => \A b \in BlockIndices : (b % Width) \in r[(b \div Width) + 1] => b \in verified

\* The bitmap, and every record wherever it is on its way
BitmapTrue ==
  /\ bits \in [Bytes -> SUBSET (0 .. Width - 1)] /\ verified \subseteq BlockIndices
  /\ \A b \in BlockIndices : (b % Width) \in bits[b \div Width] <=> b \in verified

RecordsTrue ==
  /\ opening \in Seq(Records) /\ txs \in Seq(Records)
  /\ {latest, pending, store} \subseteq Records
  /\ TrueRecord(latest) /\ TrueRecord(pending) /\ TrueRecord(store)
  /\ \A i \in DOMAIN opening : TrueRecord(opening[i])
  /\ \A i \in DOMAIN txs : TrueRecord(txs[i])

\* A flush waits for the database with a record, the first of the page excepted.
Waits == opening # <<>> /\ (Len(opening) > 1 \/ opening[1] # NoRecord)

\* Where the latest record is: about to be written, the last of those that wait for
\* the database, or the last that was written.
LatestIsThere ==
  /\ \A i \in DOMAIN opening : i > 1 => opening[i] # NoRecord
  /\ pending # NoRecord => debounce /\ pending = latest
  /\ up /\ pending = NoRecord /\ ~lost /\ ~raced =>
       IF Waits THEN opening[Len(opening)] = latest
       ELSE IF txs # <<>> THEN txs[Len(txs)] = latest ELSE store = latest

JournalInv ==
  /\ {debounce, db, up, lost, raced} \subseteq BOOLEAN
  /\ BitmapTrue /\ RecordsTrue /\ LatestIsThere

-----------------------------------------------------------------------------
\* Where a block's bit is, and that no other has it
LEMMA Places ==
  ASSUME NEW b \in BlockIndices
  PROVE  /\ b \in Nat /\ (b % Width) \in 0 .. Width - 1 /\ (b \div Width) \in Bytes
         /\ (b \div Width) + 1 \in 1 .. ByteLength
         /\ \A c \in BlockIndices : b \div Width = c \div Width /\ b % Width = c % Width => b = c
<1>1. TotalBlocks \in Nat \ {0} /\ Width \in Nat \ {0} BY BitmapAssumption DEF BitmapAssumption
<1>2. b \in Nat /\ b <= TotalBlocks - 1 /\ TotalBlocks - 1 \in Nat BY <1>1 DEF BlockIndices
<1>3. b % Width \in 0 .. Width - 1 /\ b \div Width \in Nat BY <1>1, <1>2
<1>4. b \div Width <= (TotalBlocks - 1) \div Width BY <1>1, <1>2
<1>5. ((TotalBlocks - 1) + Width) \div Width = ((TotalBlocks - 1) \div Width) + 1 BY <1>1, <1>2
<1>6. ByteLength = ((TotalBlocks - 1) \div Width) + 1
  <2>1. TotalBlocks + Width - 1 = (TotalBlocks - 1) + Width BY <1>1
  <2>2. QED BY <1>5, <2>1 DEF ByteLength
<1>7. (TotalBlocks - 1) \div Width \in Nat BY <1>1, <1>2
<1>8. b \div Width \in Bytes BY <1>3, <1>4, <1>6, <1>7 DEF Bytes
<1>9. (b \div Width) + 1 \in 1 .. ByteLength BY <1>3, <1>4, <1>6, <1>7
<1>10. ASSUME NEW c \in BlockIndices, b \div Width = c \div Width, b % Width = c % Width
       PROVE  b = c
  <2>1. c \in Nat BY <1>1 DEF BlockIndices
  <2>2. QED BY <1>1, <1>2, <1>10, <2>1
<1>11. QED BY <1>2, <1>3, <1>8, <1>9, <1>10

\* A record of a bitmap says what the bitmap says.
LEMMA RecordOfBits ==
  ASSUME NEW m \in [Bytes -> SUBSET (0 .. Width - 1)]
  PROVE  /\ ToBase64(m) \in Records /\ ToBase64(m) # NoRecord
         /\ \A b \in BlockIndices : ToBase64(m)[(b \div Width) + 1] = m[b \div Width]
<1> DEFINE r == ToBase64(m)
<1>1. ByteLength \in Nat \ {0}
  <2>1. 0 \in BlockIndices BY BitmapAssumption DEF BitmapAssumption, BlockIndices
  <2>2. (0 \div Width) + 1 \in 1 .. ByteLength BY <2>1, Places
  <2>3. ByteLength \in Int BY BitmapAssumption DEF BitmapAssumption, ByteLength
  <2>4. QED BY <2>2, <2>3
<1>2. r = [i \in 1 .. ByteLength |-> m[i - 1]] BY DEF ToBase64
<1>3. \A i \in 1 .. ByteLength : i - 1 \in Bytes BY <1>1 DEF Bytes
<1>4. r \in [1 .. ByteLength -> SUBSET (0 .. Width - 1)] BY <1>2, <1>3
<1>5. r \in Records BY <1>4 DEF Records
<1>6. r # NoRecord
  <2>1. DOMAIN r = 1 .. ByteLength /\ 1 \in 1 .. ByteLength BY <1>1, <1>2
  <2>2. 1 \notin DOMAIN NoRecord BY DEF NoRecord
  <2>3. QED BY <2>1, <2>2
<1>7. ASSUME NEW b \in BlockIndices PROVE r[(b \div Width) + 1] = m[b \div Width]
  <2>1. (b \div Width) + 1 \in 1 .. ByteLength /\ b \div Width \in Bytes BY Places
  <2>2. b \div Width \in Int BY <2>1 DEF Bytes
  <2>3. ((b \div Width) + 1) - 1 = b \div Width BY <2>2
  <2>4. QED BY <1>2, <2>1, <2>3
<1>8. QED BY <1>5, <1>6, <1>7

LEMMA VerifiedKeeps ==
  ASSUME JournalInv, NEW b \in BlockIndices, BlockVerified(b)
  PROVE  JournalInv'
<1>1. /\ bits' = [bits EXCEPT ![b \div Width] = @ \cup {b % Width}]
      /\ verified' = verified \cup {b} /\ latest' = ToBase64(bits') /\ pending' = latest'
      /\ debounce' = TRUE /\ UNCHANGED <<db, opening, txs, store, lost, raced, up>>
  BY DEF BlockVerified, MarkVerified, OffsetIn, ToBase64, diskVars
<1>2. /\ b % Width \in 0 .. Width - 1 /\ b \div Width \in Bytes
      /\ bits \in [Bytes -> SUBSET (0 .. Width - 1)]
  BY Places DEF JournalInv, BitmapTrue
<1>3. BitmapTrue'
  <2>1. /\ bits' \in [Bytes -> SUBSET (0 .. Width - 1)]
        /\ \A y \in Bytes : bits'[y] = IF y = b \div Width THEN bits[y] \cup {b % Width} ELSE bits[y]
    BY <1>1, <1>2
  <2>2. verified' \subseteq BlockIndices BY <1>1 DEF JournalInv, BitmapTrue
  <2>3. ASSUME NEW c \in BlockIndices PROVE (c % Width) \in bits'[c \div Width] <=> c \in verified'
    <3>1. (c % Width) \in bits[c \div Width] <=> c \in verified BY DEF JournalInv, BitmapTrue
    <3>2. c \div Width \in Bytes BY Places
    <3>3. CASE c = b BY <1>1, <1>2, <2>1, <3>3
    <3>4. CASE c # b
      <4>1. ~(b \div Width = c \div Width /\ b % Width = c % Width) BY <3>4, Places
      <4>2. QED BY <1>1, <2>1, <3>1, <3>2, <3>4, <4>1
    <3>5. QED BY <3>3, <3>4
  <2>4. QED BY <2>1, <2>2, <2>3 DEF BitmapTrue
<1>4. /\ latest' \in Records /\ latest' # NoRecord
      /\ \A c \in BlockIndices : latest'[(c \div Width) + 1] = bits'[c \div Width]
  BY <1>1, <1>3, RecordOfBits DEF BitmapTrue
<1>5. RecordsTrue'
  <2>1. TrueRecord(latest)' BY <1>3, <1>4 DEF TrueRecord, BitmapTrue
  <2>2. \A q : TrueRecord(q) => TrueRecord(q)' BY <1>1 DEF TrueRecord
  <2>3. pending' = latest' /\ {latest', pending', store'} \subseteq Records
    BY <1>1, <1>4 DEF JournalInv, RecordsTrue
  <2>4. TrueRecord(pending)' BY <2>1, <2>3 DEF TrueRecord
  <2>5. QED BY <1>1, <2>1, <2>2, <2>3, <2>4 DEF JournalInv, RecordsTrue
<1>6. LatestIsThere' BY <1>1, <1>4 DEF JournalInv, LatestIsThere
<1>7. {debounce', db', up', lost', raced'} \subseteq BOOLEAN BY <1>1 DEF JournalInv
<1>8. QED BY <1>3, <1>5, <1>6, <1>7 DEF JournalInv

\* The steps that leave the bitmap alone
LEMMA SameBits ==
  ASSUME JournalInv, UNCHANGED <<bits, verified>>
  PROVE  BitmapTrue' /\ \A r : TrueRecord(r)' <=> TrueRecord(r)
  BY DEF JournalInv, BitmapTrue, TrueRecord

LEMMA FlushKeeps ==
  ASSUME JournalInv, Flush
  PROVE  JournalInv'
<1>1. /\ UNCHANGED <<bits, verified, latest, db, store, up, lost>>
      /\ debounce' = FALSE /\ pending' = NoRecord
  BY DEF Flush
<1>2. opening \in Seq(Records) /\ txs \in Seq(Records) /\ pending \in Records
  BY DEF JournalInv, RecordsTrue
<1>3. CASE pending = NoRecord
  <2>1. txs' = txs /\ opening' = opening /\ raced' = raced
    <3>1. txs' = (IF db THEN txs \o <<>> ELSE txs) /\ opening' = (IF db THEN opening ELSE opening \o <<>>)
          /\ raced' = (raced \/ FALSE)
      BY <1>3 DEF Flush
    <3>2. raced \in BOOLEAN BY DEF JournalInv
    <3>3. QED BY <1>2, <3>1, <3>2
  <2>2. RecordsTrue' BY <1>1, <1>3, <2>1, SameBits DEF JournalInv, RecordsTrue
  <2>3. LatestIsThere' BY <1>1, <1>3, <2>1 DEF JournalInv, LatestIsThere, Waits
  <2>4. QED BY <1>1, <2>1, <2>2, <2>3, SameBits DEF JournalInv
<1>4. CASE pending # NoRecord /\ db
  <2>1. /\ txs' = Append(txs, pending) /\ opening' = opening
        /\ raced' = (raced \/ \E i \in DOMAIN opening : opening[i] # NoRecord)
    <3>1. txs' = txs \o <<pending>> /\ opening' = opening
          /\ raced' = (raced \/ (db /\ <<pending>> # <<>> /\ \E i \in DOMAIN opening : opening[i] # NoRecord))
      BY <1>4 DEF Flush
    <3>2. txs \o <<pending>> = Append(txs, pending) BY <1>2
    <3>3. QED BY <1>4, <3>1, <3>2
  <2>2. txs' \in Seq(Records) /\ Len(txs') = Len(txs) + 1 /\ txs' # <<>> /\ txs'[Len(txs')] = pending
        /\ \A i \in DOMAIN txs' : txs'[i] = pending \/ (i \in DOMAIN txs /\ txs'[i] = txs[i])
    BY <1>2, <2>1
  <2>3. RecordsTrue'
    <3>1. NoRecord \in Records /\ TrueRecord(NoRecord)
      <4>1. NoRecord \in [1 .. 0 -> SUBSET (0 .. Width - 1)] BY DEF NoRecord
      <4>2. QED BY <4>1 DEF Records, TrueRecord
    <3>2. QED BY <1>1, <2>1, <2>2, <3>1, SameBits DEF JournalInv, RecordsTrue
  <2>4. LatestIsThere'
    <3>1. ~raced' => ~Waits' /\ ~raced
      <4>1. SUFFICES ASSUME Waits', ~raced' PROVE FALSE BY <2>1
      <4>2. opening # <<>> /\ (Len(opening) > 1 \/ opening[1] # NoRecord) BY <2>1, <4>1 DEF Waits
      <4>3. Len(opening) \in Nat /\ DOMAIN opening = 1 .. Len(opening) /\ Len(opening) # 0
        BY <1>2, <4>2
      <4>4. CASE Len(opening) > 1
        <5>1. 2 \in DOMAIN opening BY <4>3, <4>4
        <5>2. opening[2] # NoRecord BY <5>1 DEF JournalInv, LatestIsThere
        <5>3. QED BY <2>1, <4>1, <5>1, <5>2
      <4>5. CASE opening[1] # NoRecord
        <5>1. 1 \in DOMAIN opening BY <4>3
        <5>2. QED BY <2>1, <4>1, <4>5, <5>1
      <4>6. QED BY <4>2, <4>4, <4>5
    <3>2. pending = latest BY <1>4 DEF JournalInv, LatestIsThere
    <3>3. QED BY <1>1, <2>1, <2>2, <3>1, <3>2 DEF JournalInv, LatestIsThere
  <2>5. raced' \in BOOLEAN BY <2>1 DEF JournalInv
  <2>6. QED BY <1>1, <2>3, <2>4, <2>5, SameBits DEF JournalInv
<1>5. CASE pending # NoRecord /\ ~db
  <2>1. txs' = txs /\ opening' = Append(opening, pending) /\ raced' = raced
    <3>1. txs' = txs /\ opening' = opening \o <<pending>>
          /\ raced' = (raced \/ FALSE)
      BY <1>5 DEF Flush
    <3>2. opening \o <<pending>> = Append(opening, pending) BY <1>2
    <3>3. raced \in BOOLEAN BY DEF JournalInv
    <3>4. QED BY <3>1, <3>2, <3>3
  <2>2. /\ opening' \in Seq(Records) /\ Len(opening') = Len(opening) + 1 /\ Len(opening) \in Nat
        /\ opening' # <<>> /\ opening'[Len(opening')] = pending
        /\ Len(opening) = 0 => opening'[1] = pending
        /\ \A i \in DOMAIN opening' : opening'[i] = pending \/ (i \in DOMAIN opening /\ opening'[i] = opening[i])
    BY <1>2, <2>1
  <2>3. RecordsTrue'
    <3>1. NoRecord \in Records /\ TrueRecord(NoRecord)
      <4>1. NoRecord \in [1 .. 0 -> SUBSET (0 .. Width - 1)] BY DEF NoRecord
      <4>2. QED BY <4>1 DEF Records, TrueRecord
    <3>2. QED BY <1>1, <2>1, <2>2, <3>1, SameBits DEF JournalInv, RecordsTrue
  <2>4. LatestIsThere'
    <3>1. Waits' BY <1>5, <2>2 DEF Waits
    <3>2. pending = latest BY <1>5 DEF JournalInv, LatestIsThere
    <3>3. QED BY <1>1, <1>5, <2>1, <2>2, <3>1, <3>2 DEF JournalInv, LatestIsThere
  <2>5. QED BY <1>1, <2>1, <2>3, <2>4, SameBits DEF JournalInv
<1>6. db \in BOOLEAN BY DEF JournalInv
<1>7. QED BY <1>3, <1>4, <1>5, <1>6

\* What is left of a sequence without its head
LEMMA TailOf ==
  ASSUME NEW S, NEW q \in Seq(S), q # <<>>
  PROVE  /\ Tail(q) \in Seq(S) /\ Head(q) = q[1] /\ Head(q) \in S /\ Len(q) \in Nat \ {0}
         /\ DOMAIN q = 1 .. Len(q) /\ 1 \in DOMAIN q
         /\ Len(Tail(q)) = Len(q) - 1 /\ DOMAIN Tail(q) = 1 .. Len(q) - 1
         /\ \A i \in DOMAIN Tail(q) : i + 1 \in DOMAIN q /\ Tail(q)[i] = q[i + 1]
         /\ Tail(q) = <<>> <=> Len(q) = 1
         /\ Tail(q) # <<>> => Tail(q)[Len(Tail(q))] = q[Len(q)]
<1>1. /\ Tail(q) \in Seq(S) /\ Head(q) = q[1] /\ Head(q) \in S /\ Len(q) \in Nat \ {0}
      /\ DOMAIN q = 1 .. Len(q) /\ Len(Tail(q)) = Len(q) - 1 /\ DOMAIN Tail(q) = 1 .. Len(q) - 1
      /\ \A i \in 1 .. Len(q) - 1 : Tail(q)[i] = q[i + 1]
  OBVIOUS
<1>2. Tail(q) = <<>> <=> Len(q) = 1 BY <1>1
<1>3. Tail(q) # <<>> => Tail(q)[Len(Tail(q))] = q[Len(q)]
  <2>1. SUFFICES ASSUME Tail(q) # <<>> PROVE Tail(q)[Len(q) - 1] = q[Len(q)] BY <1>1
  <2>2. Len(q) - 1 \in 1 .. Len(q) - 1 BY <1>1, <1>2, <2>1
  <2>3. (Len(q) - 1) + 1 = Len(q) BY <1>1
  <2>4. QED BY <1>1, <2>2, <2>3
<1>4. \A i \in DOMAIN Tail(q) : i + 1 \in DOMAIN q BY <1>1
<1>5. QED BY <1>1, <1>2, <1>3, <1>4

\* A sequence with one element more
LEMMA OneAppended ==
  ASSUME NEW S, NEW q \in Seq(S), NEW e \in S
  PROVE  /\ Append(q, e) \in Seq(S) /\ Append(q, e) # <<>> /\ Append(q, e)[Len(Append(q, e))] = e
         /\ \A i \in DOMAIN Append(q, e) :
              Append(q, e)[i] = e \/ (i \in DOMAIN q /\ Append(q, e)[i] = q[i])
  OBVIOUS

LEMMA OpenedKeeps ==
  ASSUME JournalInv, Opened
  PROVE  JournalInv'
<1>1. /\ UNCHANGED <<bits, verified, latest, pending, debounce, store, up, lost, raced>>
      /\ opening # <<>> /\ db' = TRUE /\ opening' = Tail(opening)
      /\ txs' = IF Head(opening) = NoRecord THEN txs ELSE Append(txs, Head(opening))
  BY DEF Opened, OpenedWith
<1>2. opening \in Seq(Records) /\ txs \in Seq(Records) BY DEF JournalInv, RecordsTrue
<1>3. /\ opening' \in Seq(Records) /\ Head(opening) = opening[1] /\ opening[1] \in Records
      /\ Len(opening) \in Nat \ {0} /\ 1 \in DOMAIN opening
      /\ DOMAIN opening' = 1 .. Len(opening) - 1
      /\ \A i \in DOMAIN opening' : i + 1 \in DOMAIN opening /\ opening'[i] = opening[i + 1]
      /\ opening' = <<>> <=> Len(opening) = 1
      /\ opening' # <<>> => opening'[Len(opening')] = opening[Len(opening)]
  BY <1>1, <1>2, TailOf
<1>4. \A i \in DOMAIN opening' : opening'[i] # NoRecord
  <2>1. \A i \in DOMAIN opening' : i + 1 > 1 BY <1>3
  <2>2. QED BY <1>3, <2>1 DEF JournalInv, LatestIsThere
<1>5. Waits' <=> opening' # <<>>
  <2>1. ASSUME opening' # <<>> PROVE Waits'
    <3>1. 1 \in DOMAIN opening' BY <1>3, <2>1
    <3>2. QED BY <1>4, <2>1, <3>1 DEF Waits
  <2>2. QED BY <2>1 DEF Waits
<1>6. opening' # <<>> => Waits
  <2>1. SUFFICES ASSUME opening' # <<>> PROVE Waits OBVIOUS
  <2>2. Len(opening) > 1 BY <1>3, <2>1
  <2>3. QED BY <1>1, <2>2 DEF Waits
<1>7. CASE Head(opening) = NoRecord
  <2>1. txs' = txs BY <1>1, <1>7
  <2>2. RecordsTrue' BY <1>1, <1>3, <2>1, SameBits DEF JournalInv, RecordsTrue
  <2>3. ASSUME opening' = <<>> PROVE ~Waits
    <3>1. Len(opening) = 1 /\ ~(1 > 1) BY <1>3, <2>3
    <3>2. QED BY <1>3, <1>7, <3>1 DEF Waits
  <2>4. LatestIsThere' BY <1>1, <1>3, <1>4, <1>5, <1>6, <2>1, <2>3 DEF JournalInv, LatestIsThere
  <2>5. QED BY <1>1, <2>2, <2>4, SameBits DEF JournalInv
<1>8. CASE Head(opening) # NoRecord
  <2>1. /\ txs' \in Seq(Records) /\ txs' # <<>> /\ txs'[Len(txs')] = opening[1]
        /\ \A i \in DOMAIN txs' : txs'[i] = opening[1] \/ (i \in DOMAIN txs /\ txs'[i] = txs[i])
    <3>1. txs' = Append(txs, opening[1]) BY <1>1, <1>3, <1>8
    <3>2. QED BY <1>2, <1>3, <3>1, OneAppended
  <2>2. RecordsTrue' BY <1>1, <1>3, <2>1, SameBits DEF JournalInv, RecordsTrue
  <2>3. Waits BY <1>1, <1>3, <1>8 DEF Waits
  <2>4. opening' = <<>> => opening[Len(opening)] = opening[1] BY <1>3
  <2>5. LatestIsThere' BY <1>1, <1>3, <1>4, <1>5, <2>1, <2>3, <2>4 DEF JournalInv, LatestIsThere
  <2>6. QED BY <1>1, <2>2, <2>5, SameBits DEF JournalInv
<1>9. QED BY <1>7, <1>8

LEMMA OpenFailsKeeps ==
  ASSUME JournalInv, OpenFails
  PROVE  JournalInv'
<1>1. /\ UNCHANGED <<bits, verified, latest, pending, debounce, db, txs, store, up, raced>>
      /\ opening # <<>> /\ opening' = Tail(opening) /\ lost' = TRUE
  BY DEF OpenFails
<1>2. opening \in Seq(Records) BY DEF JournalInv, RecordsTrue
<1>3. /\ opening' \in Seq(Records) /\ DOMAIN opening' = 1 .. Len(opening) - 1
      /\ Len(opening) \in Nat
      /\ \A i \in DOMAIN opening' : i + 1 \in DOMAIN opening /\ opening'[i] = opening[i + 1]
  BY <1>1, <1>2, TailOf
<1>4. \A i \in DOMAIN opening' : opening'[i] # NoRecord
  <2>1. \A i \in DOMAIN opening' : i + 1 > 1 BY <1>3
  <2>2. QED BY <1>3, <2>1 DEF JournalInv, LatestIsThere
<1>5. RecordsTrue' BY <1>1, <1>3, SameBits DEF JournalInv, RecordsTrue
<1>6. LatestIsThere' BY <1>1, <1>4 DEF JournalInv, LatestIsThere
<1>7. QED BY <1>1, <1>5, <1>6, SameBits DEF JournalInv

\* A transaction is carried out or fails.
LEMMA CommitsKeep ==
  ASSUME JournalInv, Commit \/ CommitFails
  PROVE  JournalInv'
<1>1. /\ UNCHANGED <<bits, verified, latest, pending, debounce, db, opening, up, raced>>
      /\ txs # <<>> /\ txs' = Tail(txs)
      /\ (store' = Head(txs) /\ lost' = lost) \/ (store' = store /\ lost' = TRUE)
  BY DEF Commit, CommitFails
<1>2. txs \in Seq(Records) BY DEF JournalInv, RecordsTrue
<1>3. /\ txs' \in Seq(Records) /\ Head(txs) = txs[1] /\ txs[1] \in Records
      /\ Len(txs) \in Nat \ {0} /\ 1 \in DOMAIN txs
      /\ \A i \in DOMAIN txs' : i + 1 \in DOMAIN txs /\ txs'[i] = txs[i + 1]
      /\ txs' = <<>> <=> Len(txs) = 1
      /\ txs' # <<>> => txs'[Len(txs')] = txs[Len(txs)]
  BY <1>1, <1>2, TailOf
<1>4. RecordsTrue' BY <1>1, <1>3, SameBits DEF JournalInv, RecordsTrue
<1>5. LatestIsThere'
  <2>1. Waits' <=> Waits BY <1>1 DEF Waits
  <2>2. CASE lost' = TRUE BY <1>1, <2>1, <2>2 DEF JournalInv, LatestIsThere
  <2>3. CASE store' = Head(txs) /\ lost' = lost
    <3>1. txs' = <<>> => store' = txs[Len(txs)] BY <1>3, <2>3
    <3>2. QED BY <1>1, <1>3, <2>1, <2>3, <3>1 DEF JournalInv, LatestIsThere
  <2>4. QED BY <1>1, <2>2, <2>3
<1>6. QED BY <1>1, <1>4, <1>5, SameBits DEF JournalInv

LEMMA GoneKeeps ==
  ASSUME JournalInv, PageGone
  PROVE  JournalInv'
<1>1. /\ UNCHANGED <<bits, verified, latest, pending, debounce, db, txs, store, lost, raced>>
      /\ up' = FALSE /\ opening' = <<>>
  BY DEF PageGone
<1>2. RecordsTrue' BY <1>1, SameBits DEF JournalInv, RecordsTrue
<1>3. LatestIsThere' BY <1>1 DEF JournalInv, LatestIsThere
<1>4. QED BY <1>1, <1>2, <1>3, SameBits DEF JournalInv

LEMMA JournalStarts == JournalInit => JournalInv
<1>1. SUFFICES ASSUME JournalInit PROVE JournalInv OBVIOUS
<1>2. NoRecord \in Records
  <2>1. NoRecord \in [1 .. 0 -> SUBSET (0 .. Width - 1)] BY DEF NoRecord
  <2>2. QED BY <2>1 DEF Records
<1>3. BitmapTrue
  <2>1. bits = [byte \in Bytes |-> {}] /\ verified = {} BY <1>1 DEF JournalInit
  <2>2. \A b \in BlockIndices : b \div Width \in Bytes BY Places
  <2>3. QED BY <2>1, <2>2 DEF BitmapTrue
<1>4. opening = <<NoRecord>> /\ txs = <<>> /\ latest = NoRecord /\ pending = NoRecord /\ store = NoRecord
  BY <1>1 DEF JournalInit
<1>5. opening \in Seq(Records) /\ Len(opening) = 1 /\ opening[1] = NoRecord /\ DOMAIN opening = {1}
  BY <1>2, <1>4
<1>6. RecordsTrue BY <1>2, <1>4, <1>5 DEF RecordsTrue, TrueRecord
<1>7. LatestIsThere BY <1>4, <1>5 DEF LatestIsThere, Waits
<1>8. QED BY <1>1, <1>3, <1>6, <1>7 DEF JournalInv, JournalInit

LEMMA JournalSteps == JournalInv /\ [JournalNext]_journalVars => JournalInv'
<1>1. SUFFICES ASSUME JournalInv, [JournalNext]_journalVars PROVE JournalInv' OBVIOUS
<1>2. CASE UNCHANGED journalVars
  BY <1>1, <1>2 DEF journalVars, JournalInv, BitmapTrue, RecordsTrue, TrueRecord, LatestIsThere, Waits
<1>3. QED BY <1>1, <1>2, VerifiedKeeps, FlushKeeps, OpenedKeeps, OpenFailsKeeps, CommitsKeep, GoneKeeps
            DEF JournalNext

\* What the store has is true, and it is all there once the journal is at rest, for
\* files and bytes of any size and whenever the page goes away.
THEOREM StoreIsRightAlways == JournalSpec => []StoreIsRight
<1>1. JournalSpec => []JournalInv BY JournalStarts, JournalSteps, PTL DEF JournalSpec
<1>2. JournalInv => StoreIsLatest
  <2>1. SUFFICES ASSUME JournalInv, up, ~debounce, opening = <<>>, txs = <<>>, ~lost, ~raced
                 PROVE  store = latest
    BY DEF StoreIsLatest
  <2>2. ~Waits /\ pending = NoRecord BY <2>1 DEF Waits, JournalInv, LatestIsThere
  <2>3. QED BY <2>1, <2>2 DEF JournalInv, LatestIsThere
<1>3. JournalInv => StoreIsTrue
  <2>1. SUFFICES ASSUME JournalInv PROVE StoreIsTrue OBVIOUS
  <2>2. MissingBlocks(bits) = BlockIndices \ verified
    BY <2>1 DEF JournalInv, BitmapTrue, MissingBlocks, IsVerified
  <2>3. ASSUME store # NoRecord, NEW b \in BlockIndices, b \notin MissingBlocks(FromBase64(store))
        PROVE  b \in verified
    <3>1. b \div Width \in Bytes BY Places
    <3>2. (b % Width) \in store[(b \div Width) + 1]
      BY <2>3, <3>1 DEF MissingBlocks, IsVerified, FromBase64
    <3>3. QED BY <2>1, <2>3, <3>2 DEF JournalInv, RecordsTrue, TrueRecord
  <2>4. QED BY <2>2, <2>3 DEF StoreIsTrue
<1>4. QED BY <1>1, <1>2, <1>3, PTL DEF StoreIsRight

-----------------------------------------------------------------------------
(* ProbeRace: the page does without an address only if none came in time.    *)

Waiting == {e \in Endpoints : fetches[e].step # "over"}

\* The race counts the services whose promise is not done, whatever came of them.
PendingTrue == race.pending = Cardinality(Waiting)

\* An address that was heard has decided the race.
HeardDecides ==
  \A e \in Endpoints : fetches[e].answer = "ip" /\ fetches[e].step \in {"finally", "over"} => race.settled

\* Nothing but the end of all or the timer decides it without an address.
NullMeansOver ==
  /\ ~race.settled => race.value = "unset"
  /\ race.value = NoIp /\ ~race.late => Waiting = {}

ProbeInv == ProbeTypeOK /\ PendingTrue /\ HeardDecides /\ NullMeansOver /\ NullOnlyIfNone

FetchType == [answer : {"none", "ip", "junk"}, step : {"out", "then", "finally", "over"}]

\* A step that changes one request, before its promise is done, and maybe decides
LEMMA OneFetch ==
  ASSUME ProbeInv, NEW e \in Endpoints, fetches[e].step # "over",
         NEW f \in FetchType, f.step # "over", fetches' = [fetches EXCEPT ![e] = f],
         race' = race \/ (~race.settled /\ race' = [race EXCEPT !.settled = TRUE, !.value = e, !.timer = FALSE]),
         f.answer = "ip" /\ f.step = "finally" => race'.settled,
         gather' = gather
  PROVE  ProbeInv'
<1>1. fetches \in [Endpoints -> FetchType] BY DEF ProbeInv, ProbeTypeOK, FetchType
<1>2. /\ fetches' \in [Endpoints -> FetchType]
      /\ \A x \in Endpoints : fetches'[x] = IF x = e THEN f ELSE fetches[x]
  BY <1>1
<1>3. Waiting' = Waiting BY <1>2 DEF Waiting
<1>4. race'.pending = race.pending /\ race'.late = race.late
      /\ (race'.value = race.value \/ race'.value = e) /\ (race.settled => race'.settled)
      /\ (~race'.settled => race' = race)
  BY DEF ProbeInv, ProbeTypeOK
<1>5. ProbeTypeOK'
  <2>1. race' \in [settled : BOOLEAN, pending : 0 .. Cardinality(Endpoints),
                   value : Endpoints \cup {NoIp, "unset"}, timer : BOOLEAN, late : BOOLEAN]
    BY DEF ProbeInv, ProbeTypeOK
  <2>2. QED BY <1>2, <2>1 DEF ProbeInv, ProbeTypeOK, FetchType
<1>6. PendingTrue' BY <1>3, <1>4 DEF ProbeInv, PendingTrue
<1>7. HeardDecides' BY <1>2, <1>4 DEF ProbeInv, HeardDecides
<1>8. e # NoIp BY ProbeAssumption DEF ProbeAssumption
<1>9. NullMeansOver' BY <1>3, <1>4, <1>8 DEF ProbeInv, NullMeansOver
<1>10. NullOnlyIfNone'
  <2>1. SUFFICES ASSUME race'.value = NoIp, ~race'.late PROVE FALSE BY DEF NullOnlyIfNone
  <2>2. race.value = NoIp /\ ~race.late BY <1>4, <1>8, <2>1
  <2>3. e \in Waiting BY DEF Waiting
  <2>4. QED BY <2>2, <2>3 DEF ProbeInv, NullMeansOver
<1>11. QED BY <1>5, <1>6, <1>7, <1>9, <1>10 DEF ProbeInv

LEMMA AnswerKeepsRace ==
  ASSUME ProbeInv, NEW e \in Endpoints, Answer(e)
  PROVE  ProbeInv'
<1>1. PICK answer \in {"ip", "junk"} : fetches' = [fetches EXCEPT ![e] = [answer |-> answer, step |-> "then"]]
  BY DEF Answer
<1> DEFINE f == [answer |-> answer, step |-> "then"]
<1>2. f \in FetchType /\ f.step = "then" BY DEF FetchType
<1> HIDE DEF f
<1>3. fetches' = [fetches EXCEPT ![e] = f] BY <1>1 DEF f
<1>4. fetches[e].step = "out" /\ race' = race /\ gather' = gather BY DEF Answer
<1>5. QED BY <1>2, <1>3, <1>4, OneFetch

LEMMA TakeKeepsRace ==
  ASSUME ProbeInv, NEW e \in Endpoints, Take(e)
  PROVE  ProbeInv'
<1> DEFINE f == [fetches[e] EXCEPT !.step = "finally"]
<1>1. fetches[e] \in FetchType /\ fetches \in [Endpoints -> FetchType]
  BY DEF ProbeInv, ProbeTypeOK, FetchType
<1>2. f \in FetchType /\ f.step = "finally" /\ f.answer = fetches[e].answer BY <1>1 DEF FetchType
<1>3. fetches' = [fetches EXCEPT ![e] = f] /\ fetches[e].step = "then" /\ gather' = gather
  BY <1>1 DEF Take
<1> HIDE DEF f
<1>4. CASE fetches[e].answer = "ip"
  <2>1. Settle(e) BY <1>4 DEF Take
  <2>2. race' = race \/ (~race.settled /\ race' = [race EXCEPT !.settled = TRUE, !.value = e, !.timer = FALSE])
    BY <2>1 DEF Settle
  <2>3. race'.settled BY <2>1 DEF Settle, ProbeInv, ProbeTypeOK
  <2>4. QED BY <1>2, <1>3, <2>2, <2>3, OneFetch
<1>5. CASE fetches[e].answer # "ip"
  <2>1. race' = race BY <1>5 DEF Take
  <2>2. QED BY <1>2, <1>3, <1>5, <2>1, OneFetch
<1>6. QED BY <1>4, <1>5

LEMMA CountKeepsRace ==
  ASSUME ProbeInv, NEW e \in Endpoints, Count(e)
  PROVE  ProbeInv'
<1> DEFINE f == [fetches[e] EXCEPT !.step = "over"]
<1>1. fetches[e] \in FetchType /\ fetches \in [Endpoints -> FetchType]
  BY DEF ProbeInv, ProbeTypeOK, FetchType
<1>2. f \in FetchType /\ f.step = "over" /\ f.answer = fetches[e].answer BY <1>1 DEF FetchType
<1>3. fetches' = [fetches EXCEPT ![e] = f] /\ fetches[e].step = "finally" /\ gather' = gather
  BY <1>1 DEF Count
<1> HIDE DEF f
<1>4. /\ fetches' \in [Endpoints -> FetchType]
      /\ \A x \in Endpoints : fetches'[x] = IF x = e THEN f ELSE fetches[x]
  BY <1>1, <1>2, <1>3
<1>5. Waiting' = Waiting \ {e} /\ e \in Waiting BY <1>2, <1>3, <1>4 DEF Waiting
<1>6. IsFiniteSet(Waiting) /\ IsFiniteSet(Waiting')
  <2>1. IsFiniteSet(Endpoints) BY ProbeAssumption DEF ProbeAssumption
  <2>2. Waiting \subseteq Endpoints /\ Waiting' \subseteq Endpoints BY DEF Waiting
  <2>3. QED BY <2>1, <2>2, FS_Subset
<1>7. Cardinality(Waiting') = race.pending - 1 /\ race.pending - 1 \in Nat
  <2>1. Cardinality(Waiting \ {e}) = Cardinality(Waiting) - 1 BY <1>5, <1>6, FS_RemoveElement
  <2>2. Cardinality(Waiting) \in Nat /\ Cardinality(Waiting') \in Nat BY <1>6, FS_CardinalityType
  <2>3. QED BY <1>5, <2>1, <2>2 DEF ProbeInv, PendingTrue
<1> DEFINE left == race.pending - 1
<1>8. /\ race.pending \in 0 .. Cardinality(Endpoints) /\ Cardinality(Endpoints) \in Nat
      /\ race \in [settled : BOOLEAN, pending : 0 .. Cardinality(Endpoints),
                   value : Endpoints \cup {NoIp, "unset"}, timer : BOOLEAN, late : BOOLEAN]
  BY ProbeAssumption, FS_CardinalityType DEF ProbeAssumption, ProbeInv, ProbeTypeOK
<1>9. left \in 0 .. Cardinality(Endpoints) BY <1>7, <1>8
<1>10. CASE ~(NoneLeft(left) /\ ~race.settled)
  <2>1. race' = [race EXCEPT !.pending = left] BY <1>10 DEF Count
  <2>2. /\ race'.pending = left /\ race'.settled = race.settled /\ race'.value = race.value
        /\ race'.late = race.late
        /\ race' \in [settled : BOOLEAN, pending : 0 .. Cardinality(Endpoints),
                      value : Endpoints \cup {NoIp, "unset"}, timer : BOOLEAN, late : BOOLEAN]
    BY <1>8, <1>9, <2>1
  <2>3. ProbeTypeOK' BY <1>3, <1>4, <2>2 DEF ProbeInv, ProbeTypeOK, FetchType
  <2>4. PendingTrue' BY <1>7, <2>2 DEF PendingTrue
  <2>5. HeardDecides' BY <1>2, <1>3, <1>4, <2>2 DEF ProbeInv, HeardDecides
  <2>6. NullMeansOver' BY <1>5, <2>2 DEF ProbeInv, NullMeansOver
  <2>7. NullOnlyIfNone' BY <1>2, <1>4, <2>2 DEF ProbeInv, NullOnlyIfNone
  <2>8. QED BY <2>3, <2>4, <2>5, <2>6, <2>7 DEF ProbeInv
<1>11. CASE NoneLeft(left) /\ ~race.settled
  <2>1. race' = [race EXCEPT !.pending = left, !.settled = TRUE, !.value = NoIp, !.timer = FALSE]
    BY <1>11 DEF Count
  <2>2. /\ race'.pending = left /\ race'.settled /\ race'.value = NoIp
        /\ race' \in [settled : BOOLEAN, pending : 0 .. Cardinality(Endpoints),
                      value : Endpoints \cup {NoIp, "unset"}, timer : BOOLEAN, late : BOOLEAN]
    BY <1>8, <1>9, <2>1
  <2>3. ProbeTypeOK' BY <1>3, <1>4, <2>2 DEF ProbeInv, ProbeTypeOK, FetchType
  <2>4. PendingTrue' BY <1>7, <2>2 DEF PendingTrue
  <2>5. Waiting' = {}
    <3>1. PICK n \in Nat : n = left BY <1>7
    <3>2. n <= 0 BY <1>11, <3>1 DEF NoneLeft
    <3>3. n = 0 BY <3>2
    <3>4. Cardinality(Waiting') = n BY <1>7, <3>1
    <3>5. QED BY <1>6, <3>3, <3>4, FS_EmptySet
  <2>6. \A x \in Endpoints : fetches'[x].answer # "ip"
    <3>1. TAKE x \in Endpoints
    <3>2. x \notin Waiting' BY <2>5
    <3>3. fetches[x].step \in {"finally", "over"} /\ fetches'[x].answer = fetches[x].answer
      BY <1>2, <1>3, <1>4, <3>2 DEF Waiting
    <3>4. QED BY <1>11, <3>3 DEF ProbeInv, HeardDecides
  <2>7. HeardDecides' BY <2>2 DEF HeardDecides
  <2>8. NullMeansOver' BY <2>2, <2>5 DEF NullMeansOver
  <2>9. NullOnlyIfNone' BY <2>6 DEF NullOnlyIfNone
  <2>10. QED BY <2>3, <2>4, <2>7, <2>8, <2>9 DEF ProbeInv
<1>12. QED BY <1>10, <1>11

LEMMA TimeoutKeepsRace ==
  ASSUME ProbeInv, RaceTimesOut
  PROVE  ProbeInv'
<1>1. /\ race \in [settled : BOOLEAN, pending : 0 .. Cardinality(Endpoints),
                   value : Endpoints \cup {NoIp, "unset"}, timer : BOOLEAN, late : BOOLEAN]
      /\ fetches' = fetches /\ gather' = gather
  BY DEF ProbeInv, ProbeTypeOK, RaceTimesOut
<1>2. Waiting' = Waiting BY <1>1 DEF Waiting
<1>3. CASE race.settled
  <2>1. race' = [race EXCEPT !.timer = FALSE] BY <1>3 DEF RaceTimesOut
  <2>2. /\ race'.pending = race.pending /\ race'.settled /\ race'.value = race.value
        /\ race'.late = race.late
    BY <1>1, <1>3, <2>1
  <2>3. ProbeTypeOK' BY <1>1, <2>1 DEF ProbeInv, ProbeTypeOK
  <2>4. QED BY <1>1, <1>2, <2>2, <2>3
          DEF ProbeInv, PendingTrue, HeardDecides, NullMeansOver, NullOnlyIfNone
<1>4. CASE ~race.settled
  <2>1. race' = [race EXCEPT !.timer = FALSE, !.settled = TRUE, !.value = NoIp, !.late = TRUE]
    BY <1>4 DEF RaceTimesOut
  <2>2. race'.pending = race.pending /\ race'.settled /\ race'.late BY <1>1, <2>1
  <2>3. ProbeTypeOK' BY <1>1, <2>1 DEF ProbeInv, ProbeTypeOK
  <2>4. QED BY <1>1, <1>2, <2>2, <2>3
          DEF ProbeInv, PendingTrue, HeardDecides, NullMeansOver, NullOnlyIfNone
<1>5. QED BY <1>3, <1>4

\* What the gathering does leaves the race alone.
LEMMA GatherKeepsRace ==
  ASSUME ProbeInv, (\E ip \in Candidates : Candidate(ip)) \/ NoMoreCandidates \/ GatherTimesOut
  PROVE  ProbeInv'
<1>1. fetches' = fetches /\ race' = race BY DEF Candidate, NoMoreCandidates, GatherTimesOut
<1>2. gather' \in [settled : BOOLEAN, found : SUBSET Candidates, taken : SUBSET Candidates,
                   timer : BOOLEAN, ended : BOOLEAN]
  <2>1. gather \in [settled : BOOLEAN, found : SUBSET Candidates, taken : SUBSET Candidates,
                    timer : BOOLEAN, ended : BOOLEAN]
    BY DEF ProbeInv, ProbeTypeOK
  <2>2. Finished(gather) \in [settled : BOOLEAN, found : SUBSET Candidates, taken : SUBSET Candidates,
                              timer : BOOLEAN, ended : BOOLEAN]
    BY <2>1 DEF Finished
  <2>3. ASSUME NEW ip \in Candidates, Candidate(ip)
        PROVE  gather' \in [settled : BOOLEAN, found : SUBSET Candidates, taken : SUBSET Candidates,
                            timer : BOOLEAN, ended : BOOLEAN]
    BY <2>1, <2>3 DEF Candidate
  <2>4. QED BY <2>2, <2>3 DEF NoMoreCandidates, GatherTimesOut
<1>3. ProbeTypeOK' BY <1>1, <1>2 DEF ProbeInv, ProbeTypeOK
<1>4. QED BY <1>1, <1>3
        DEF ProbeInv, Waiting, PendingTrue, HeardDecides, NullMeansOver, NullOnlyIfNone

LEMMA ProbeStarts == ProbeInit => ProbeInv
<1>1. SUFFICES ASSUME ProbeInit PROVE ProbeInv OBVIOUS
<1>2. \A e \in Endpoints : fetches[e].answer = "none" /\ fetches[e].step = "out" BY <1>1 DEF ProbeInit
<1>3. Waiting = Endpoints BY <1>2 DEF Waiting
<1>4. Cardinality(Endpoints) \in Nat BY ProbeAssumption, FS_CardinalityType DEF ProbeAssumption
<1>5. race.pending = Cardinality(Endpoints) /\ ~race.settled /\ race.value = "unset" BY <1>1 DEF ProbeInit
<1>6. ProbeTypeOK BY <1>1, <1>4 DEF ProbeInit, ProbeTypeOK
<1>7. QED BY <1>2, <1>3, <1>5, <1>6
        DEF ProbeInv, PendingTrue, HeardDecides, NullMeansOver, NullOnlyIfNone, NoIp

LEMMA ProbeSteps == ProbeInv /\ [ProbeNext]_probeVars => ProbeInv'
<1>1. SUFFICES ASSUME ProbeInv, [ProbeNext]_probeVars PROVE ProbeInv' OBVIOUS
<1>2. CASE UNCHANGED probeVars
  BY <1>1, <1>2 DEF probeVars, ProbeInv, ProbeTypeOK, Waiting, PendingTrue, HeardDecides,
     NullMeansOver, NullOnlyIfNone
<1>3. QED BY <1>1, <1>2, AnswerKeepsRace, TakeKeepsRace, CountKeepsRace, TimeoutKeepsRace,
            GatherKeepsRace DEF ProbeNext

\* In whatever order answers, their handlers and the timer come, and for any number
\* of services, the page does without an address only if none was given in time.
THEOREM NullOnlyIfNoneAlways == ProbeSpec => []NullOnlyIfNone
<1>1. ProbeSpec => []ProbeInv BY ProbeStarts, ProbeSteps, PTL DEF ProbeSpec
<1>2. ProbeInv => NullOnlyIfNone BY DEF ProbeInv
<1>3. QED BY <1>1, <1>2, PTL

-----------------------------------------------------------------------------
(* JoinLimiter: how often a room's password can be tried.                    *)

\* The failures before the first one of a record that are not a window old when it
\* starts, at the most
Back == IF Attempts = 1 THEN 1 ELSE Attempts - 1

\* The first failure that the record counts, and when it was: now, if it counts none
First == Len(failedAt) - record.failures + 1
Start == IF record.failures = 0 THEN now ELSE failedAt[First]

\* Failures are in the order of time, and behind it.
InOrder ==
  /\ failedAt \in Seq(0 .. MaxTime)
  /\ \A i, j \in DOMAIN failedAt : i <= j => failedAt[i] <= failedAt[j]
  /\ \A i \in DOMAIN failedAt : failedAt[i] \in 0 .. now

\* The record counts the last failures, its window starts with the first of them, and
\* a full one is locked for a window after the last.
RecordTrue ==
  /\ record.failures \in 0 .. Attempts /\ record.failures <= Len(failedAt)
  /\ record.failures = 0 => record = NoFailures
  /\ record.failures > 0 => record.resetAt = failedAt[First] + Window
  /\ record.failures = Attempts => failedAt[Len(failedAt)] + Window <= record.lockedUntil

\* Less than Back failures in the window before the record's own
Spread == \A i \in DOMAIN failedAt : i <= First - Back => failedAt[i] + Window <= Start

LimitInv == LimiterTypeOK /\ InOrder /\ RecordTrue /\ Spread /\ LimitHolds

\* The numbers that the proofs compute with
LEMMA Numbers ==
  ASSUME LimiterTypeOK, InOrder, RecordTrue
  PROVE  /\ Attempts \in Nat \ {0} /\ Window \in Nat \ {0} /\ MaxTime \in Nat /\ now \in 0 .. MaxTime
         /\ record.failures \in 0 .. Attempts /\ record.failures <= Len(failedAt)
         /\ record.lockedUntil \in Nat /\ record.resetAt \in Nat
         /\ Len(failedAt) \in Nat /\ DOMAIN failedAt = 1 .. Len(failedAt)
         /\ \A j \in 1 .. Len(failedAt) : failedAt[j] \in Nat /\ failedAt[j] <= now
         /\ Back \in Nat \ {0} /\ MostFailures \in Nat \ {0} /\ 2 * Back <= MostFailures + 1
         /\ Attempts + Back <= MostFailures + 1
<1>1. Attempts \in Nat \ {0} /\ Window \in Nat \ {0} /\ MaxTime \in Nat
  BY LimitAssumption DEF LimitAssumption
<1>2. Back \in Nat \ {0} /\ MostFailures \in Nat \ {0} /\ 2 * Back <= MostFailures + 1
      /\ Attempts + Back <= MostFailures + 1
  BY <1>1 DEF Back, MostFailures
<1>3. Len(failedAt) \in Nat /\ DOMAIN failedAt = 1 .. Len(failedAt)
      /\ \A j \in 1 .. Len(failedAt) : failedAt[j] \in Nat /\ failedAt[j] <= now
  <2>1. failedAt \in Seq(0 .. MaxTime) /\ \A j \in DOMAIN failedAt : failedAt[j] \in 0 .. now
    BY DEF InOrder
  <2>2. Len(failedAt) \in Nat /\ DOMAIN failedAt = 1 .. Len(failedAt) BY <2>1
  <2>3. now \in Nat BY <1>1 DEF LimiterTypeOK
  <2>4. QED BY <2>1, <2>2, <2>3
<1>4. now \in 0 .. MaxTime /\ record.failures \in 0 .. Attempts /\ record.failures <= Len(failedAt)
      /\ record.lockedUntil \in Nat /\ record.resetAt \in Nat
  BY <1>1 DEF LimiterTypeOK, RecordTrue
<1>5. QED BY <1>1, <1>2, <1>3, <1>4

\* A record that is given up leaves few failures in the window before now.
LEMMA WindowOver ==
  ASSUME LimitInv, record = NoFailures \/ (record.lockedUntil <= now /\ record.resetAt < now),
         NEW i \in 1 .. Len(failedAt), i <= Len(failedAt) + 1 - Back
  PROVE  failedAt[i] + Window <= now
<1> DEFINE n == Len(failedAt)
           k == record.failures
           back == Back
<1>1. /\ n \in Nat /\ k \in Nat /\ back \in Nat \ {0} /\ k <= Attempts /\ k <= n
      /\ n = Len(failedAt) /\ k = record.failures /\ back = Back /\ DOMAIN failedAt = 1 .. n
  BY Numbers DEF LimitInv
<1> HIDE DEF n, k, back
<1>2. /\ \A j \in 1 .. n : failedAt[j] \in Nat
      /\ i \in 1 .. n /\ i <= n + 1 - back /\ Window \in Nat /\ now \in Nat /\ First = n - k + 1
  BY <1>1, Numbers DEF LimitInv, First
<1>3. CASE k = 0
  <2>1. Start = now /\ First = n + 1 BY <1>1, <1>2, <1>3 DEF Start
  <2>2. \A j \in 1 .. n : j <= (n + 1) - back => failedAt[j] + Window <= now
    BY <1>1, <2>1 DEF LimitInv, Spread
  <2>3. QED BY <1>1, <1>2, <2>2
<1>4. CASE k > 0
  <2>1. record # NoFailures BY <1>1, <1>4 DEF NoFailures
  <2>2. record.resetAt = failedAt[n - k + 1] + Window
    BY <1>1, <1>2, <1>4 DEF LimitInv, RecordTrue
  <2>3. failedAt[n - k + 1] + Window < now /\ n - k + 1 \in 1 .. n BY <1>1, <1>4, <2>1, <2>2
  <2>4. CASE i <= n - k + 1
    <3>1. failedAt[i] <= failedAt[n - k + 1] BY <1>1, <1>2, <2>3, <2>4 DEF LimitInv, InOrder
    <3>2. failedAt[i] \in Nat /\ failedAt[n - k + 1] \in Nat BY <1>2, <2>3
    <3>3. QED BY <1>2, <2>3, <3>1, <3>2
  <2>5. CASE i > n - k + 1
    <3>1. k = Attempts /\ n \in 1 .. n
      <4>1. k > back BY <1>1, <1>2, <1>4, <2>5
      <4>2. QED BY <1>1, <4>1, LimitAssumption DEF Back, LimitAssumption
    <3>2. failedAt[n] + Window <= record.lockedUntil BY <1>1, <3>1 DEF LimitInv, RecordTrue
    <3>3. record.lockedUntil <= now /\ record.lockedUntil \in Nat
      BY <2>1, Numbers DEF LimitInv
    <3>4. failedAt[i] <= failedAt[n] BY <1>1, <1>2, <3>1 DEF LimitInv, InOrder
    <3>5. QED BY <1>2, <3>1, <3>2, <3>3, <3>4
  <2>6. QED BY <1>1, <1>2, <2>4, <2>5
<1>5. QED BY <1>1, <1>3, <1>4

\* The check for an attempt, allowed or not, changes the record at the most.
LEMMA CheckKeeps ==
  ASSUME LimitInv, record' = CheckRateLimit(record), UNCHANGED <<now, failedAt>>
  PROVE  LimitInv'
<1>1. /\ Attempts \in Nat \ {0} /\ Window \in Nat \ {0} /\ MaxTime \in Nat /\ now \in 0 .. MaxTime
      /\ record \in [failures : Nat, lockedUntil : 0 .. MaxTime + Window, resetAt : 0 .. MaxTime + Window]
      /\ Len(failedAt) \in Nat /\ DOMAIN failedAt = 1 .. Len(failedAt)
      /\ \A j \in 1 .. Len(failedAt) : failedAt[j] \in 0 .. MaxTime
  BY LimitAssumption DEF LimitAssumption, LimitInv, LimiterTypeOK, InOrder
<1>2. InOrder' /\ LimitHolds' BY DEF LimitInv, InOrder, LimitHolds
<1>3. CASE record' = record
  BY <1>2, <1>3 DEF LimitInv, LimiterTypeOK, RecordTrue, Spread, First, Start
<1>4. CASE record' = NoFailures /\ record # NoFailures /\ record.lockedUntil <= now
           /\ record.resetAt < now
  <2>1. LimiterTypeOK' BY <1>1, <1>4 DEF LimitInv, LimiterTypeOK, NoFailures
  <2>2. record'.failures = 0 BY <1>4 DEF NoFailures
  <2>3. RecordTrue' BY <1>1, <1>4, <2>2 DEF RecordTrue
  <2>4. Spread' BY <1>1, <1>4, <2>2, WindowOver, LimitAssumption DEF LimitAssumption, Spread, First, Start, Back
  <2>5. QED BY <1>2, <2>1, <2>3, <2>4 DEF LimitInv
<1>5. CASE record' = [record EXCEPT !.lockedUntil = now + Window] /\ record.failures >= Attempts
  <2>1. /\ record'.failures = record.failures /\ record'.resetAt = record.resetAt
        /\ record'.lockedUntil = now + Window
        /\ record' \in [failures : Nat, lockedUntil : 0 .. MaxTime + Window, resetAt : 0 .. MaxTime + Window]
    BY <1>1, <1>5
  <2>2. LimiterTypeOK' BY <2>1 DEF LimitInv, LimiterTypeOK
  <2>3. RecordTrue'
    <3>1. record.failures = Attempts BY <1>1, <1>5 DEF LimitInv, RecordTrue
    <3>2. Len(failedAt) \in DOMAIN failedAt BY <1>1, <3>1 DEF LimitInv, RecordTrue
    <3>3. failedAt[Len(failedAt)] <= now BY <3>2 DEF LimitInv, InOrder
    <3>4. failedAt[Len(failedAt)] + Window <= now + Window BY <1>1, <3>2, <3>3
    <3>5. QED BY <1>1, <2>1, <3>1, <3>4 DEF LimitInv, RecordTrue, First
  <2>4. Spread' BY <2>1 DEF LimitInv, Spread, First, Start
  <2>5. QED BY <1>2, <2>2, <2>3, <2>4 DEF LimitInv
<1>6. QED BY <1>1, <1>3, <1>4, <1>5 DEF CheckRateLimit

\* One failure more, with a record that is right about it
LEMMA OneMore ==
  ASSUME LimitInv, failedAt' = Append(failedAt, now), now' = now,
         NEW count \in 1 .. Attempts, count <= Len(failedAt) + 1,
         NEW start \in Nat, start <= now,
         start = IF count = 1 THEN now ELSE failedAt[Len(failedAt) + 2 - count],
         \A i \in 1 .. Len(failedAt) :
           i <= Len(failedAt) + 2 - count - Back => failedAt[i] + Window <= start,
         record' \in [failures : Nat, lockedUntil : 0 .. MaxTime + Window, resetAt : 0 .. MaxTime + Window],
         record'.failures = count, record'.resetAt = start + Window,
         count = Attempts => record'.lockedUntil = now + Window
  PROVE  LimitInv'
<1> DEFINE n == Len(failedAt)
           back == Back
           most == MostFailures
<1>1. /\ n \in Nat /\ back \in Nat \ {0} /\ most \in Nat \ {0}
      /\ n = Len(failedAt) /\ back = Back /\ most = MostFailures
      /\ DOMAIN failedAt = 1 .. n /\ Attempts + back <= most + 1
  BY Numbers DEF LimitInv
<1> HIDE DEF n, back, most
<1>2. /\ \A j \in 1 .. n : failedAt[j] \in Nat /\ failedAt[j] <= now
      /\ now \in 0 .. MaxTime /\ Window \in Nat \ {0} /\ MaxTime \in Nat /\ Attempts \in Nat \ {0}
  BY <1>1, Numbers DEF LimitInv
<1>3. /\ failedAt' \in Seq(0 .. MaxTime) /\ Len(failedAt') = n + 1 /\ DOMAIN failedAt' = 1 .. n + 1
      /\ failedAt'[n + 1] = now /\ \A j \in 1 .. n : failedAt'[j] = failedAt[j]
  BY <1>1, <1>2 DEF LimitInv, InOrder
<1>4. First' = n + 2 - count BY <1>1, <1>2, <1>3 DEF First
<1>5. First' \in 1 .. n + 1 /\ failedAt'[First'] = start /\ Start' = start
  <2>1. First' \in 1 .. n + 1 /\ count \in Nat \ {0} BY <1>1, <1>2, <1>4
  <2>2. CASE count = 1 BY <1>1, <1>3, <1>4, <2>2 DEF Start
  <2>3. CASE count > 1
    <3>1. n + 2 - count \in 1 .. n BY <1>1, <2>3
    <3>2. QED BY <1>1, <1>3, <1>4, <2>1, <2>3, <3>1 DEF Start
  <2>4. count = 1 \/ count > 1 BY <2>1
  <2>5. QED BY <2>2, <2>3, <2>4
<1>6. LimiterTypeOK' BY <1>2, <1>3 DEF LimiterTypeOK
<1>7. InOrder'
  <2>1. \A i, j \in 1 .. n : i <= j => failedAt[i] <= failedAt[j] BY <1>1 DEF LimitInv, InOrder
  <2>2. ASSUME NEW i \in 1 .. n + 1, NEW j \in 1 .. n + 1, i <= j PROVE failedAt'[i] <= failedAt'[j]
    <3>1. CASE j \in 1 .. n BY <1>1, <1>3, <2>1, <2>2, <3>1
    <3>2. CASE j = n + 1 /\ i \in 1 .. n BY <1>2, <1>3, <3>2
    <3>3. CASE j = n + 1 /\ i = n + 1 BY <1>2, <1>3, <3>3
    <3>4. QED BY <1>1, <2>2, <3>1, <3>2, <3>3
  <2>3. ASSUME NEW i \in 1 .. n + 1 PROVE failedAt'[i] \in 0 .. now'
    <3>1. CASE i \in 1 .. n BY <1>2, <1>3, <3>1
    <3>2. CASE i = n + 1 BY <1>2, <1>3, <3>2
    <3>3. QED BY <1>1, <2>3, <3>1, <3>2
  <2>4. QED BY <1>3, <2>2, <2>3 DEF InOrder
<1>8. RecordTrue'
  <2>1. record'.failures \in 1 .. Attempts /\ record'.failures <= Len(failedAt')
    BY <1>1, <1>2, <1>3
  <2>2. record'.failures = Attempts => failedAt'[Len(failedAt')] + Window <= record'.lockedUntil
    BY <1>1, <1>2, <1>3
  <2>3. QED BY <1>5, <2>1, <2>2 DEF RecordTrue
<1>9. Spread'
  <2>1. ASSUME NEW i \in 1 .. n + 1, i <= n + 2 - count - back
        PROVE  failedAt'[i] + Window <= start
    <3>1. i \in 1 .. n BY <1>1, <2>1
    <3>2. QED BY <1>1, <1>3, <2>1, <3>1
  <2>2. Back' = back BY <1>1 DEF Back
  <2>3. \A i \in 1 .. n + 1 : i <= First' - Back' => failedAt'[i] + Window <= Start'
    BY <1>1, <1>2, <1>4, <1>5, <2>1, <2>2
  <2>4. QED BY <1>3, <2>3 DEF Spread
<1>10. LimitHolds'
  <2>1. SUFFICES ASSUME NEW i \in 1 .. n + 1, NEW j \in 1 .. n + 1, j - i >= most
                 PROVE  failedAt'[i] + Window <= failedAt'[j]
    BY <1>1, <1>3 DEF LimitHolds, MostFailures
  <2>2. i \in 1 .. n BY <1>1, <2>1
  <2>3. CASE j \in 1 .. n
    <3>1. failedAt[i] + Window <= failedAt[j] BY <1>1, <2>1, <2>2, <2>3 DEF LimitInv, LimitHolds
    <3>2. QED BY <1>3, <2>2, <2>3, <3>1
  <2>4. CASE j = n + 1
    <3>1. i <= n + 2 - count - back BY <1>1, <1>2, <2>1, <2>4
    <3>2. failedAt[i] + Window <= start BY <1>1, <2>2, <3>1
    <3>3. PICK a \in Nat : a = failedAt[i] BY <1>2, <2>2
    <3>4. Window \in Nat /\ now \in Nat BY <1>2
    <3>5. a + Window <= start BY <3>2, <3>3
    <3>6. a + Window <= now BY <3>4, <3>5
    <3>7. QED BY <1>3, <2>2, <2>4, <3>3, <3>6
  <2>5. QED BY <1>1, <2>3, <2>4
<1>11. QED BY <1>6, <1>7, <1>8, <1>9, <1>10 DEF LimitInv

\* A failure starts a record, or is counted in the one there is.
LEMMA FailureKeeps ==
  ASSUME LimitInv, JoinFails
  PROVE  LimitInv'
<1> DEFINE n == Len(failedAt)
           k == record.failures
           back == Back
<1>1. /\ n \in Nat /\ k \in Nat /\ back \in Nat \ {0} /\ k <= Attempts /\ k <= n
      /\ n = Len(failedAt) /\ k = record.failures /\ back = Back
  BY Numbers DEF LimitInv
<1> HIDE DEF n, k, back
<1>2. /\ now \in 0 .. MaxTime /\ Window \in Nat \ {0} /\ MaxTime \in Nat /\ Attempts \in Nat \ {0}
      /\ record \in [failures : Nat, lockedUntil : 0 .. MaxTime + Window, resetAt : 0 .. MaxTime + Window]
  BY Numbers DEF LimitInv, LimiterTypeOK
<1>3. /\ Allowed(record) /\ record' = RecordJoinFailure(CheckRateLimit(record))
      /\ failedAt' = Append(failedAt, now) /\ now' = now
  BY DEF JoinFails
<1>4. CASE record = NoFailures \/ (record.lockedUntil <= now /\ record.resetAt < now)
  <2>1. CheckRateLimit(record) = NoFailures BY <1>2, <1>4 DEF CheckRateLimit
  <2>2. record' = Relocked([failures |-> 1, lockedUntil |-> 0, resetAt |-> now + Window])
    BY <1>3, <2>1 DEF RecordJoinFailure
  <2>3. /\ record' \in [failures : Nat, lockedUntil : 0 .. MaxTime + Window, resetAt : 0 .. MaxTime + Window]
        /\ record'.failures = 1 /\ record'.resetAt = now + Window
        /\ 1 = Attempts => record'.lockedUntil = now + Window
    BY <1>2, <2>2 DEF Relocked
  <2>4. \A i \in 1 .. n : i <= n + 1 - back => failedAt[i] + Window <= now
    BY <1>1, <1>4, WindowOver
  <2>5. \A i \in 1 .. n : i <= n + 2 - 1 - back => failedAt[i] + Window <= now
    BY <1>1, <2>4
  <2>6. 1 \in 1 .. Attempts /\ 1 <= n + 1 /\ now \in Nat /\ now <= now BY <1>1, <1>2
  <2>7. QED BY <1>1, <1>3, <2>3, <2>5, <2>6, OneMore
<1>5. CASE ~(record = NoFailures \/ (record.lockedUntil <= now /\ record.resetAt < now))
  <2>1. record.lockedUntil <= now /\ k < Attempts /\ ~(record.resetAt < now)
    BY <1>1, <1>2, <1>3, <1>5 DEF Allowed
  <2>2. k > 0 BY <1>1, <1>5 DEF LimitInv, RecordTrue
  <2>3. CheckRateLimit(record) = record BY <1>1, <1>2, <1>5, <2>1 DEF CheckRateLimit
  <2> DEFINE counted == [record EXCEPT !.failures = @ + 1]
  <2>4. record' = Relocked(counted) BY <1>3, <1>5, <2>1, <2>3 DEF RecordJoinFailure
  <2>5. /\ counted \in [failures : Nat, lockedUntil : 0 .. MaxTime + Window, resetAt : 0 .. MaxTime + Window]
        /\ counted.failures = k + 1 /\ counted.resetAt = record.resetAt
    BY <1>1, <1>2
  <2> HIDE DEF counted
  <2>6. /\ record' \in [failures : Nat, lockedUntil : 0 .. MaxTime + Window, resetAt : 0 .. MaxTime + Window]
        /\ record'.failures = k + 1 /\ record'.resetAt = record.resetAt
        /\ k + 1 = Attempts => record'.lockedUntil = now + Window
    <3>1. CASE record' = counted /\ k + 1 < Attempts BY <1>1, <1>2, <2>5, <3>1
    <3>2. CASE record' = [counted EXCEPT !.lockedUntil = now + Window] BY <1>2, <2>5, <3>2
    <3>3. QED BY <1>1, <1>2, <2>4, <2>5, <3>1, <3>2 DEF Relocked
  <2>7. First = n + 1 - k /\ n + 1 - k \in 1 .. n BY <1>1, <2>2 DEF First
  <2>8. PICK start \in Nat : start = failedAt[n + 1 - k] /\ start <= now
    BY <1>1, <2>7, Numbers DEF LimitInv
  <2>9. record.resetAt = start + Window
    BY <1>1, <2>2, <2>7, <2>8 DEF LimitInv, RecordTrue
  <2>10. \A i \in 1 .. n : i <= n + 1 - k - back => failedAt[i] + Window <= start
    <3>1. Start = start BY <1>1, <2>2, <2>7, <2>8 DEF Start
    <3>2. \A i \in 1 .. n : i <= First - Back => failedAt[i] + Window <= Start
      BY <1>1, Numbers DEF LimitInv, Spread
    <3>3. QED BY <1>1, <2>7, <3>1, <3>2
  <2>11. n + 2 - (k + 1) = n + 1 - k /\ k + 1 \in 1 .. Attempts /\ k + 1 <= n + 1 /\ k + 1 # 1
    BY <1>1, <1>2, <2>1, <2>2
  <2> DEFINE count == k + 1
  <2>12. /\ count \in 1 .. Attempts /\ count <= Len(failedAt) + 1
         /\ start = IF count = 1 THEN now ELSE failedAt[Len(failedAt) + 2 - count]
         /\ record'.failures = count
         /\ count = Attempts => record'.lockedUntil = now + Window
    BY <1>1, <2>6, <2>8, <2>11
  <2>13. \A i \in 1 .. Len(failedAt) :
           i <= Len(failedAt) + 2 - count - Back => failedAt[i] + Window <= start
    BY <1>1, <2>10, <2>11
  <2> HIDE DEF count
  <2>14. QED BY <1>3, <2>6, <2>8, <2>9, <2>12, <2>13, OneMore
<1>6. QED BY <1>4, <1>5

LEMMA TickKeeps ==
  ASSUME LimitInv, ClockTick
  PROVE  LimitInv'
<1>1. now' = now + 1 /\ now < MaxTime /\ record' = record /\ failedAt' = failedAt BY DEF ClockTick
<1>2. /\ MaxTime \in Nat /\ Window \in Nat /\ now \in 0 .. MaxTime /\ DOMAIN failedAt = 1 .. Len(failedAt)
      /\ \A j \in DOMAIN failedAt : failedAt[j] \in 0 .. MaxTime
  BY LimitAssumption DEF LimitAssumption, LimitInv, LimiterTypeOK, InOrder
<1>3. LimiterTypeOK' BY <1>1, <1>2 DEF LimitInv, LimiterTypeOK
<1>4. InOrder' BY <1>1, <1>2 DEF LimitInv, InOrder
<1>5. RecordTrue' /\ LimitHolds' BY <1>1 DEF LimitInv, RecordTrue, LimitHolds, First
<1>6. Spread'
  <2>1. First' = First BY <1>1 DEF First
  <2>2. \A i \in DOMAIN failedAt : i <= First - Back => failedAt[i] + Window <= Start
    BY DEF LimitInv, Spread
  <2>3. CASE record.failures = 0
    BY <1>1, <1>2, <2>1, <2>2, <2>3 DEF Spread, Start
  <2>4. CASE record.failures # 0
    BY <1>1, <1>2, <2>1, <2>2, <2>4 DEF Spread, Start
  <2>5. QED BY <2>3, <2>4
<1>7. QED BY <1>3, <1>4, <1>5, <1>6 DEF LimitInv

LEMMA LimiterStarts == LimiterInit => LimitInv
<1>1. SUFFICES ASSUME LimiterInit PROVE LimitInv OBVIOUS
<1>2. MaxTime \in Nat /\ Window \in Nat /\ Attempts \in Nat \ {0}
  BY LimitAssumption DEF LimitAssumption
<1>3. now = 0 /\ record = NoFailures /\ failedAt = <<>> BY <1>1 DEF LimiterInit
<1>4. Len(failedAt) = 0 /\ DOMAIN failedAt = {} /\ failedAt \in Seq(0 .. MaxTime) BY <1>3
<1>5. LimiterTypeOK BY <1>2, <1>3, <1>4 DEF LimiterTypeOK, NoFailures
<1>6. InOrder /\ LimitHolds /\ Spread BY <1>4 DEF InOrder, LimitHolds, Spread
<1>7. RecordTrue BY <1>2, <1>3, <1>4 DEF RecordTrue, NoFailures
<1>8. QED BY <1>5, <1>6, <1>7 DEF LimitInv

LEMMA LimiterSteps == LimitInv /\ [LimiterNext]_limiterVars => LimitInv'
<1>1. SUFFICES ASSUME LimitInv, [LimiterNext]_limiterVars PROVE LimitInv' OBVIOUS
<1>2. CASE Refuse \/ JoinSucceeds BY <1>1, <1>2, CheckKeeps DEF Refuse, JoinSucceeds
<1>3. CASE UNCHANGED limiterVars
  BY <1>1, <1>3 DEF limiterVars, LimitInv, LimiterTypeOK, InOrder, RecordTrue, Spread, LimitHolds,
     First, Start
<1>4. QED BY <1>1, <1>2, <1>3, FailureKeeps, TickKeeps DEF LimiterNext

\* Whenever attempts are made, fail and succeed: a room is not tried more often in a
\* window than the limit allows, for any limit and any window.
THEOREM LimitHoldsAlways == LimiterSpec => []LimitHolds
<1>1. LimiterSpec => []LimitInv BY LimiterStarts, LimiterSteps, PTL DEF LimiterSpec
<1>2. LimitInv => LimitHolds BY DEF LimitInv
<1>3. QED BY <1>1, <1>2, PTL

-----------------------------------------------------------------------------
(* BlockWriter: a writer hands over every block it was given.                *)

\* Where the writer starts, its variables are of their types and its (empty)
\* contents are where they belong.
LEMMA WriterStarts == Init => WriterInv
<1> SUFFICES ASSUME Init PROVE WriterInv
  OBVIOUS
<1>1. WriterTypeOK
  <2>1. queue \in Seq(Blocks)
    BY DEF Init
  <2>2. /\ kind \in {"memory", "opfs"}
        /\ handle \in {"sync", "stream", "none"}
        /\ useFallback \in BOOLEAN
        /\ entry \in BOOLEAN
    BY DEF Init, Created
  <2> QED BY <2>1, <2>2 DEF Init, WriterTypeOK
<1>2. Placed
  <2>1. CASE useFallback
    BY <2>1 DEF Init, Created, Placed, InMemory
  <2>2. CASE ~useFallback
    BY <2>2 DEF Init, Created, Placed, OnDisk
  <2> QED BY <2>1, <2>2
<1>3. expiry = FALSE /\ fin = "open" /\ (OnDisk => entry)
  BY DEF Init, Created, OnDisk
<1> QED BY <1>1, <1>2, <1>3 DEF WriterInv

\* A step keeps the types.
LEMMA WriterTypeStep == WriterTypeOK /\ [Next]_vars => WriterTypeOK'
<1> SUFFICES ASSUME WriterTypeOK, [Next]_vars PROVE WriterTypeOK'
  OBVIOUS
<1> USE DEF WriterTypeOK, handleVars, endVars
<1>1. ASSUME NEW b \in Blocks, Write(b) PROVE WriterTypeOK'
  BY <1>1 DEF Write, KeepInMemory
<1>2. CASE RunTask
  <2>1. Head(queue) \in Blocks /\ Tail(queue) \in Seq(Blocks)
    BY <1>2 DEF RunTask
  <2>2. QED BY <1>2, <2>1 DEF RunTask, FallBack, KeepInMemory
<1>3. ASSUME NEW b \in Blocks, StreamWrote(b) PROVE WriterTypeOK'
  BY <1>3 DEF StreamWrote
<1>4. ASSUME NEW b \in Blocks, StreamFailed(b) PROVE WriterTypeOK'
  BY <1>4 DEF StreamFailed, FallBack, KeepInMemory
<1>5. CASE Finalize  BY <1>5 DEF Finalize
<1>6. CASE StreamClosed  BY <1>6 DEF StreamClosed, Committed
<1>7. CASE CloseFailed  BY <1>7 DEF CloseFailed, Committed
<1>8. CASE GetFile  BY <1>8 DEF GetFile
<1>9. CASE Expire  BY <1>9 DEF Expire
<1>10. CASE Abort  BY <1>10 DEF Abort
<1>11. CASE AbortStream  BY <1>11 DEF AbortStream
<1>12. CASE RemoveEntry  BY <1>12 DEF RemoveEntry
<1>13. CASE UNCHANGED vars  BY <1>13 DEF vars
<1> QED
  BY <1>1, <1>2, <1>3, <1>4, <1>5, <1>6, <1>7, <1>8, <1>9, <1>10, <1>11, <1>12, <1>13 DEF Next

\* A step leaves every block where finalize() will look for it.
LEMMA WriterPlacedStep == WriterInv /\ [Next]_vars => WriterInv'
<1> SUFFICES ASSUME WriterInv, [Next]_vars, aborting' = "no", ~diskFailed'
             PROVE  Placed' /\ (OnDisk /\ fin # "done" => entry)'
  <2>1. ASSUME WriterInv, [Next]_vars
        PROVE  (expiry => fin = "done")' /\ (fin # "open" => queue = <<>> /\ writing = {})'
    BY <2>1 DEF WriterInv, Next, vars, handleVars, endVars, Write, RunTask, StreamWrote, StreamFailed,
                Finalize, StreamClosed, CloseFailed, Committed, GetFile, Expire, Abort,
                AbortStream, RemoveEntry
  <2> QED BY <2>1, WriterTypeStep DEF WriterInv
<1> (expiry => fin = "done") /\ (fin # "open" => queue = <<>> /\ writing = {})
  BY DEF WriterInv
<1> USE DEF Placed, InMemory, OnDisk, handleVars, endVars
<1> WriterTypeOK
  BY DEF WriterInv
<1>0. ASSUME aborting = "no", ~diskFailed
      PROVE  Placed /\ (OnDisk /\ fin # "done" => entry)
  BY <1>0 DEF WriterInv
<1>1. ASSUME NEW b \in Blocks, Write(b)
      PROVE  Placed' /\ (OnDisk /\ fin # "done" => entry)'
  BY <1>0, <1>1 DEF Write, KeepInMemory, WriterTypeOK
<1>2. CASE RunTask
  <2>1. CASE useFallback
    <3>1. PICK b \in Blocks : memory' = memory \cup {b} /\ resolved' = resolved \cup {b}
      BY <1>2, <2>1 DEF RunTask, KeepInMemory, WriterTypeOK
    <3>2. useFallback' = useFallback /\ handle' = handle /\ writing' = writing /\ fin' = fin
      BY <1>2, <2>1 DEF RunTask
    <3>3. aborting = "no" /\ ~diskFailed /\ result' = result
      BY <1>2, <2>1 DEF RunTask
    <3>4. fin = "open" => InMemory /\ writing = {}
      BY <1>0, <2>1, <3>3
    <3>5. fin = "open" => InMemory' /\ writing' = {}
      BY <3>1, <3>2, <3>4
    <3> QED BY <1>0, <2>1, <3>2, <3>3, <3>5
  <2>2. CASE ~useFallback
    <3>1. /\ aborting = "no" /\ ~diskFailed /\ fin = "open" /\ writing = {} /\ OnDisk
          /\ fin' = fin /\ handle' = handle /\ kind' = kind /\ entry' = entry /\ staged' = staged
      BY <1>0, <1>2, <2>2 DEF RunTask
    <3>2. CASE handle = "sync"
      <4>1. /\ file' = file \cup {Head(queue)} /\ resolved' = resolved \cup {Head(queue)}
            /\ UNCHANGED <<useFallback, memory, writing>>
        BY <1>2, <2>2, <3>1, <3>2 DEF RunTask
      <4> QED BY <1>0, <2>2, <3>1, <3>2, <4>1
    <3>3. CASE handle = "stream"
      <4>1. UNCHANGED <<useFallback, memory, file, resolved>>
        BY <1>2, <2>2, <3>1, <3>3 DEF RunTask
      <4> QED BY <1>0, <2>2, <3>1, <3>3, <4>1
    <3> QED BY <1>0, <2>2, <3>1, <3>2, <3>3
  <2> QED BY <2>1, <2>2 DEF WriterTypeOK
<1>3. ASSUME NEW b \in Blocks, StreamWrote(b)
      PROVE  Placed' /\ (OnDisk /\ fin # "done" => entry)'
  BY <1>0, <1>3 DEF StreamWrote, WriterTypeOK
<1>4. ASSUME NEW b \in Blocks, StreamFailed(b)
      PROVE  Placed' /\ (OnDisk /\ fin # "done" => entry)'
  BY <1>4 DEF StreamFailed
<1>5. CASE Finalize
  BY <1>0, <1>5 DEF Finalize, WriterTypeOK
<1>6. CASE StreamClosed
  BY <1>0, <1>6 DEF StreamClosed, Committed, WriterTypeOK
<1>7. CASE CloseFailed
  BY <1>7 DEF CloseFailed
<1>8. CASE GetFile
  BY <1>0, <1>8 DEF GetFile, WriterTypeOK
<1>9. CASE Expire
  BY <1>0, <1>9 DEF Expire, WriterTypeOK
<1>10. CASE Abort
  BY <1>10 DEF Abort
<1>11. CASE AbortStream
  BY <1>0, <1>11 DEF AbortStream
<1>12. CASE RemoveEntry
  BY <1>0, <1>12 DEF RemoveEntry
<1>13. CASE UNCHANGED vars
  BY <1>0, <1>13 DEF vars
<1> QED
  BY <1>1, <1>2, <1>3, <1>4, <1>5, <1>6, <1>7, <1>8, <1>9, <1>10, <1>11, <1>12, <1>13 DEF Next

\* The writer's inductive invariant holds throughout.
THEOREM WriterInvHolds == Spec => []WriterInv
  BY WriterStarts, WriterPlacedStep, PTL DEF Spec

\* A writer whose disk never failed and whose transfer was not cancelled hands
\* over every block (storage/index.ts:280-317), however many there are.
THEOREM FinalizeReturnsAllAlways == Spec => []FinalizeReturnsAll
<1>1. WriterInv => FinalizeReturnsAll
  BY DEF WriterInv, Placed, FinalizeReturnsAll
<1> QED BY <1>1, WriterInvHolds, PTL
=============================================================================
