---------------------------- MODULE FleetFlowProofs ----------------------------
(***************************************************************************)
(* What is proved of FleetFlows.                                           *)
(*                                                                         *)
(* Publications are numbered, so a flow that turns to another spec turns   *)
(* to a higher number.  A pass that is late sees by that number, under the *)
(* lock, that the flow is no longer the one it looked at; and a job, that  *)
(* it was queued for another spec.  So the jobs of one spec and approval   *)
(* come in the order of the steps (InOrder), and each builds on the last   *)
(* (PassDecided).                                                          *)
(*                                                                         *)
(* The reviews of a head are counted with the rights to dispatch one       *)
(* (ReviewBudget): who holds the claim has the right, and else nobody but  *)
(* he who claims next.                                                     *)
(***************************************************************************)
EXTENDS FleetFlows, FiniteSetTheorems, WellFoundedInduction, TLAPS

-----------------------------------------------------------------------------
(* The invariant *)

\* Where a pass of the ticker, and of the poller, may stand.
PassPoints == {"idle", "decide", "claim", "find", "findAgain", "retake", "reclaim", "dispatch",
               "refused", "adopt", "link", "record"}
PollPoints == {"idle", "insert", "reopen", "dispatch", "release", "fail", "mark"}

\* A pass, a claim row and a publication that is told of.
Pass  == [at: PassPoints, sha: Shas \cup {NoSha}, generation: Nat, head: Shas \cup {NoSha},
          step: FlowSteps \cup {"none"}, job: Nat, claim: 0..4]
Poll  == [at: PollPoints, job: Nat, claim: 0..4]
Claim == [status: {"none", "pending", "dispatched", "failed"}, id: 0..4, job: Nat, old: BOOLEAN]
Event == [sha: Shas, previous: Shas, touches: BOOLEAN]

\* FlowTypeOK, with the rows' every field.
Typed ==
  /\ head \in Shas /\ content \in [Shas -> Shas] /\ events \subseteq Event
  /\ flow \in FlowRow /\ asks \in [AskIds -> AskRow] /\ jobs \in Seq(JobRow)
  /\ claim \in Claim /\ pass \in Pass /\ poll \in Poll
  /\ faults \in 0..MaxFaults

\* Publications only come, and what a thread tells of them is so.
Published ==
  /\ flow.sha <= head /\ (pass.at = "decide" => pass.head <= head)
  /\ \A e \in events : /\ e.sha <= head /\ e.previous <= head
                       /\ ~e.touches => content[e.sha] = content[e.previous]

-----------------------------------------------------------------------------
(* The flow and its jobs *)

\* The jobs of the flow, and the last of them.
Linked    == {i \in DOMAIN jobs : jobs[i].linked}
IsLast(i) == i \in Linked /\ \A k \in Linked : k <= i

\* The steps in their order (StepAfter), and which one a job is.
Rank == [SPEC_REVIEW |-> 1, PLAN |-> 2, PRD_REVIEW |-> 3, RUN |-> 4, REVIEW |-> 5, FIX |-> 6]
RankOf(i) == Rank[jobs[i].step]

\* Two jobs of one spec and one approval of it.
SameKey(i, k) == jobs[i].sha = jobs[k].sha /\ jobs[i].of = jobs[k].of

\* What jobs of the flow say of the flow.
JobsOfFlow ==
  /\ \A i \in Linked :
       /\ jobs[i].sha <= flow.sha
       /\ jobs[i].sha = flow.sha => jobs[i].of = flow.generation /\ flow.state # "PENDING"
       /\ IF jobs[i].step = "SPEC_REVIEW" THEN jobs[i].of <= jobs[i].since
          ELSE jobs[i].sha = flow.sha /\ flow.state \notin {"PENDING", "APPROVED"}
  /\ flow.state = "RUNNING" => \E i \in Linked : IsLast(i) /\ jobs[i].sha = flow.sha

\* The jobs of a flow in the order they were queued: no older spec after a newer,
\* and each step of one approval once, in the order of the steps.
InOrder ==
  \A i, k \in Linked : i < k =>
    /\ jobs[i].sha <= jobs[k].sha
    /\ SameKey(i, k) => RankOf(i) < RankOf(k)

\* The auto-reviewer's jobs are reviews, and come after the RUN.
Beside ==
  \A u \in DOMAIN jobs \ Linked :
    /\ jobs[u].step = "REVIEW"
    /\ \E k \in Linked : k < u /\ jobs[k].step = "RUN"
    /\ \A k \in Linked : RankOf(k) < Rank["REVIEW"] => k < u

\* Which jobs claims and passes know.
ReviewsKnown ==
  /\ claim.job # NoJob => claim.job \in DOMAIN jobs /\ jobs[claim.job].step = "REVIEW"
  /\ poll.at = "mark" => poll.job \in DOMAIN jobs /\ jobs[poll.job].step = "REVIEW"
  /\ poll.at # "idle" => \E k \in Linked : jobs[k].step = "RUN"
  /\ pass.at = "adopt" => pass.job \in DOMAIN jobs /\ jobs[pass.job].step = "REVIEW"

\* The jobs that the passes name are there.
Named == pass.job \in DOMAIN jobs \cup {NoJob} /\ poll.job \in DOMAIN jobs \cup {NoJob}

\* A pass and the flow it looked at.
PassOfFlow ==
  pass.at # "idle" =>
    /\ pass.sha \in 1..flow.sha /\ pass.generation <= flow.generation
    /\ pass.sha = flow.sha => pass.generation = flow.generation /\ flow.state # "PENDING"
    /\ flow.state = "RUNNING" => SameTarget
    /\ pass.at = "decide" => pass.head = NoSha \/ pass.sha <= pass.head

-----------------------------------------------------------------------------
(* The pass *)

\* The points between deciding a review and dispatching or adopting it,
\* and between deciding any step and queueing it.
Claiming == {"claim", "find", "findAgain", "retake", "reclaim", "adopt"}
Before   == Claiming \cup {"dispatch", "refused"}

\* A job of the spec and the approval that the pass took over from the flow.
OfPass(i) == jobs[i].sha = pass.sha /\ jobs[i].of = pass.generation

\* A pass that decided a step: nothing was queued for it, and what it builds on
\* is there.
PassDecided ==
  pass.at \in Before =>
    /\ pass.step \in FlowSteps
    /\ pass.at \in Claiming => pass.step = "REVIEW"
    /\ \A i \in Linked : jobs[i].sha <= pass.sha /\ (OfPass(i) => RankOf(i) < Rank[pass.step])
    /\ IF pass.step = "SPEC_REVIEW"
       THEN flow.state # "RUNNING" /\ \A i \in Linked : jobs[i].step = "SPEC_REVIEW"
       ELSE /\ SameTarget /\ flow.state \in {"RUNNING", "STOPPED"}
            /\ \E k \in Linked : /\ jobs[k].state = "good" /\ OfPass(k)
                                 /\ StepAfter[jobs[k].step] = pass.step

\* A pass that queued a job.
PassQueued ==
  /\ pass.at \in {"link", "record"} =>
       IsLast(pass.job) /\ OfPass(pass.job) /\ jobs[pass.job].step = pass.step
  /\ pass.at = "link" => pass.step = "REVIEW"

\* Who may yet queue a review, each of them once.
Reviews   == {i \in DOMAIN jobs : jobs[i].step = "REVIEW"}
PassOwns  == pass.at \in {"dispatch", "link"} /\ pass.step = "REVIEW" /\ pass.claim = claim.id
PollOwns  == poll.at \in {"dispatch", "release", "fail", "mark"} /\ poll.claim = claim.id
HeadOpen  ==
  \/ claim.status = "none"
  \/ claim.status = "pending" /\ (claim.old \/ ~(PassOwns \/ PollOwns))
  \/ poll.at = "reopen" /\ poll.claim = claim.id
\* A pass may dispatch a review; so may the poller, until its claim is released.
PassMay == pass.at = "dispatch" /\ pass.step = "REVIEW"
PollMay == poll.at \in {"dispatch", "release"}
One(fact) == IF fact THEN 1 ELSE 0
\* How many may yet.
Rights == One(PassMay) + One(PollMay) + One(HeadOpen)
\* With the reviews that are queued they are one, and one more for each fault.
ReviewBudget == Cardinality(Reviews) + Rights <= 1 + faults

\* A pass of the present approval works for what was approved, and no job is of an
\* approval yet to come.
Approvals ==
  /\ \A i \in Linked : jobs[i].of <= flow.generation
  /\ Live /\ pass.at # "idle" /\ pass.generation = flow.generation => content[pass.sha] = approved

\* The invariant.
FlowInv ==
  /\ Typed /\ Published /\ SpecApproved /\ Approvals
  /\ JobsOfFlow /\ InOrder /\ Beside /\ ReviewsKnown /\ Named /\ PassOfFlow /\ PassDecided /\ PassQueued
  /\ StepsFollow /\ StepShown /\ ReviewBudget

-----------------------------------------------------------------------------
(* Types *)

\* The bounds are numbers.
LEMMA BoundsTyped == MaxShas \in Nat \ {0} /\ MaxFaults \in Nat /\ Shas \subseteq Nat \ {0} /\ 1 \in Shas
  BY FlowBoundAssumption DEF Shas

\* A new claim has an id that no row, no pass and no poll has.
LEMMA FreshClaimFacts ==
  FreshClaim \in 1..4 /\ FreshClaim # claim.id /\ FreshClaim # pass.claim /\ FreshClaim # poll.claim
<1>1. \E i \in 1..4 : i \notin {claim.id, pass.claim, poll.claim}
  <2>1. 1 \in 1..4 /\ 2 \in 1..4 /\ 3 \in 1..4 /\ 4 \in 1..4
    OBVIOUS
  <2> QED BY <2>1
<1>2. FreshClaim \in 1..4 /\ FreshClaim \notin {claim.id, pass.claim, poll.claim}
  BY <1>1 DEF FreshClaim
<1> QED BY <1>2

\* A flow that is stopped, but for its state as it was.
LEMMA StoppedTyped ==
  ASSUME flow \in FlowRow
  PROVE  Stopped \in FlowRow /\ Stopped.state = "STOPPED" /\ Stopped.sha = flow.sha /\ Stopped.generation = flow.generation
  BY DEF FlowRow, Stopped, FlowStates, Transitions

\* Closing the open request keeps the requests well-typed (cancelOpenRequest).
LEMMA ClosingsTyped ==
  ASSUME asks \in [AskIds -> AskRow], NEW a \in AskIds \cup {NoAsk}, NEW closed \in Closings(a)
  PROVE  closed \in [AskIds -> AskRow]
<1>1. CASE closed = asks
  BY <1>1
<1>2. CASE a # NoAsk /\ closed = [asks EXCEPT ![a].status = "closed"]
  <2>1. a \in AskIds /\ asks[a] \in AskRow
    BY <1>2
  <2>2. [asks[a] EXCEPT !.status = "closed"] \in AskRow
    BY <2>1 DEF AskRow
  <2> QED BY <1>2, <2>1, <2>2
<1> QED BY <1>1, <1>2 DEF Closings

\* Asking again makes the flow pending, for another spec and under the same approvals.
LEMMA ReaskTyped ==
  ASSUME flow \in FlowRow, asks \in [AskIds -> AskRow], NEW sha \in Shas, Reask(sha)
  PROVE  /\ flow' \in FlowRow /\ asks' \in [AskIds -> AskRow]
         /\ flow'.state = "PENDING" /\ flow'.sha = sha /\ flow'.generation = flow.generation
         /\ flow'.step = "none"
<1>1. PICK a \in AskIds, closed \in Closings(flow.ask) :
         /\ asks' = [closed EXCEPT ![a] = [sha |-> sha, status |-> "pending"]]
         /\ flow' = [flow EXCEPT !.state = "PENDING", !.sha = sha, !.ask = a, !.step = "none"]
  BY DEF Reask
<1>2. closed \in [AskIds -> AskRow]
  BY ClosingsTyped DEF FlowRow
<1>3. [sha |-> sha, status |-> "pending"] \in AskRow
  BY DEF AskRow
<1> QED BY <1>1, <1>2, <1>3 DEF FlowRow, FlowStates, Transitions

\* A request that changes its status is one.
LEMMA AskClosed ==
  ASSUME asks \in [AskIds -> AskRow], NEW a \in AskIds, NEW s \in {"none", "pending", "approved", "closed"}
  PROVE  [asks EXCEPT ![a].status = s] \in [AskIds -> AskRow]
<1>1. asks[a] \in AskRow
  OBVIOUS
<1>2. [asks[a] EXCEPT !.status = s] \in AskRow
  BY <1>1 DEF AskRow
<1> QED BY <1>2

\* A row of a job as it is queued, and one that ends.
LEMMA InsertTyped ==
  ASSUME Typed, PassOfFlow, NEW step \in FlowSteps, NEW linked \in BOOLEAN, Insert(step, linked),
         linked => pass.at # "idle"
  PROVE  /\ jobs' \in Seq(JobRow) /\ Len(jobs') = Len(jobs) + 1
         /\ DOMAIN jobs = 1..Len(jobs) /\ DOMAIN jobs' = 1..Len(jobs')
         /\ \A i \in DOMAIN jobs : jobs'[i] = jobs[i]
         /\ jobs'[Len(jobs')] = [step |-> step, sha |-> IF linked THEN pass.sha ELSE flow.sha,
                                reads |-> NoSha, since |-> flow.generation, of |-> IF linked THEN pass.generation ELSE 0,
                                linked |-> linked, state |-> "active"]
<1> DEFINE row == [step |-> step, sha |-> IF linked THEN pass.sha ELSE flow.sha,
                   reads |-> NoSha, since |-> flow.generation, of |-> IF linked THEN pass.generation ELSE 0,
                   linked |-> linked, state |-> "active"]
<1>1. flow.sha \in Shas /\ flow.generation \in Nat /\ pass.generation \in Nat
  BY DEF Typed, FlowRow, Pass
<1>2. linked => pass.sha \in Shas
  <2>1. MaxShas \in Nat
    BY BoundsTyped
  <2> QED BY <1>1, <2>1 DEF PassOfFlow, Shas
<1>3. row \in JobRow
  BY <1>1, <1>2 DEF JobRow
<1> QED BY <1>3 DEF Typed, Insert

\* What the row of a queued job holds.
LEMMA InsertFields ==
  ASSUME Typed, PassOfFlow, NEW step \in FlowSteps, NEW linked \in BOOLEAN, Insert(step, linked),
         linked => pass.at # "idle"
  PROVE  /\ jobs' \in Seq(JobRow) /\ Len(jobs') = Len(jobs) + 1
         /\ DOMAIN jobs = 1..Len(jobs) /\ DOMAIN jobs' = 1..Len(jobs')
         /\ \A i \in DOMAIN jobs : jobs'[i] = jobs[i]
         /\ jobs'[Len(jobs')].step = step /\ jobs'[Len(jobs')].linked = linked
         /\ jobs'[Len(jobs')].since = flow.generation
         /\ linked => jobs'[Len(jobs')].sha = pass.sha /\ jobs'[Len(jobs')].of = pass.generation
<1>1. /\ jobs' \in Seq(JobRow) /\ Len(jobs') = Len(jobs) + 1
      /\ DOMAIN jobs = 1..Len(jobs) /\ DOMAIN jobs' = 1..Len(jobs')
      /\ \A i \in DOMAIN jobs : jobs'[i] = jobs[i]
  BY InsertTyped
<1>2. jobs'[Len(jobs')] = [step |-> step, sha |-> IF linked THEN pass.sha ELSE flow.sha,
                           reads |-> NoSha, since |-> flow.generation, of |-> IF linked THEN pass.generation ELSE 0,
                           linked |-> linked, state |-> "active"]
  BY InsertTyped
<1> QED BY <1>1, <1>2

\* A row written over leaves the others alone.
LEMMA JobWritten ==
  ASSUME jobs \in Seq(JobRow), NEW i \in DOMAIN jobs, NEW row \in JobRow, jobs' = [jobs EXCEPT ![i] = row]
  PROVE  jobs' \in Seq(JobRow) /\ DOMAIN jobs' = DOMAIN jobs /\ Len(jobs') = Len(jobs)
         /\ jobs'[i] = row /\ \A k \in DOMAIN jobs : k # i => jobs'[k] = jobs[k]
  OBVIOUS

\* A job's checkout, end or ingest: only what it read and its state change, and a good
\* one's never.
LEMMA JobEndsFacts ==
  ASSUME Typed, NEW i \in DOMAIN jobs, CheckOut(i) \/ JobEnds(i) \/ Ingest(i)
  PROVE  /\ jobs' \in Seq(JobRow) /\ DOMAIN jobs' = DOMAIN jobs
         /\ jobs[i].state # "good"
         /\ jobs'[i].step = jobs[i].step /\ jobs'[i].sha = jobs[i].sha
         /\ jobs'[i].since = jobs[i].since /\ jobs'[i].of = jobs[i].of
         /\ jobs'[i].linked = jobs[i].linked
         /\ \A k \in DOMAIN jobs : k # i => jobs'[k] = jobs[k]
<1>1. jobs[i] \in JobRow /\ head \in Shas /\ 1..head \subseteq Shas
  BY FlowBoundAssumption DEF Typed, Shas
<1>2. PICK row \in JobRow :
        /\ jobs' = [jobs EXCEPT ![i] = row]
        /\ row.step = jobs[i].step /\ row.sha = jobs[i].sha /\ row.since = jobs[i].since
        /\ row.of = jobs[i].of /\ row.linked = jobs[i].linked
  <2>1. CASE CheckOut(i)
    <3>1. PICK sha \in Shas : jobs' = [jobs EXCEPT ![i].reads = sha]
      BY <1>1, <2>1 DEF CheckOut
    <3>2. [jobs[i] EXCEPT !.reads = sha] \in JobRow
      BY <1>1 DEF JobRow
    <3> QED BY <1>1, <3>1, <3>2 DEF JobRow
  <2>2. CASE JobEnds(i) \/ Ingest(i)
    <3>1. PICK state \in {"ended", "good", "bad"} : jobs' = [jobs EXCEPT ![i].state = state]
      BY <2>2 DEF JobEnds, Ingest
    <3>2. [jobs[i] EXCEPT !.state = state] \in JobRow
      BY <1>1 DEF JobRow
    <3> QED BY <1>1, <3>1, <3>2 DEF JobRow
  <2> QED BY <2>1, <2>2
<1>3. jobs[i].state # "good"
  BY DEF CheckOut, JobEnds, Ingest
<1> QED BY <1>2, <1>3, JobWritten DEF Typed

\* Recording a step makes the flow running, and changes nothing of its spec.
LEMMA RecordsTyped ==
  ASSUME flow \in FlowRow, NEW step \in FlowSteps, Records(step)
  PROVE  /\ flow' \in FlowRow /\ flow'.state = "RUNNING" /\ flow'.step = step
         /\ flow'.sha = flow.sha /\ flow'.generation = flow.generation /\ flow'.ask = flow.ask
         /\ flow'.entry = flow.entry
  BY DEF FlowRow, Records, FlowStates, Transitions

\* The idle pass, the idle poll and the absent claim.
LEMMA IdlesTyped ==
  /\ Idle \in Pass /\ PollIdle \in Poll /\ Unclaimed \in Claim
  /\ [PollIdle EXCEPT !.at = "insert"] \in Poll
  BY DEF Idle, PollIdle, Unclaimed, Pass, Poll, Claim, PassPoints, PollPoints, NoJob, NoClaim, NoSha

\* A claim just inserted is pending, young and without a job (insertPending).
LEMMA PendingTyped ==
  ASSUME NEW id \in 1..4
  PROVE  /\ Pending(id) \in Claim
         /\ Pending(id).status = "pending" /\ Pending(id).id = id
         /\ Pending(id).job = NoJob /\ ~Pending(id).old
<1>1. /\ Unclaimed \in Claim /\ id \in 0..4 /\ Unclaimed.job = NoJob /\ ~Unclaimed.old
  BY IdlesTyped DEF Unclaimed
<1>2. Pending(id) = [Unclaimed EXCEPT !.status = "pending", !.id = id]
  BY DEF Pending
<1> QED BY <1>1, <1>2 DEF Claim

\* A pass that goes on keeps what it has.
LEMMA GoesFacts ==
  ASSUME pass \in Pass, NEW at \in PassPoints, Goes(at)
  PROVE  /\ pass' \in Pass /\ pass'.at = at
         /\ pass'.sha = pass.sha /\ pass'.generation = pass.generation /\ pass'.head = pass.head
         /\ pass'.step = pass.step /\ pass'.job = pass.job /\ pass'.claim = pass.claim
  BY DEF Goes, Pass

\* The same for one that takes a claim,
LEMMA PassClaims ==
  ASSUME pass \in Pass, NEW at \in PassPoints, NEW id \in 0..4,
         pass' = [pass EXCEPT !.at = at, !.claim = id]
  PROVE  /\ pass' \in Pass /\ pass'.at = at
         /\ pass'.sha = pass.sha /\ pass'.generation = pass.generation /\ pass'.head = pass.head
         /\ pass'.step = pass.step /\ pass'.job = pass.job /\ pass'.claim = id
  BY DEF Pass

\* for one that takes a job,
LEMMA PassTakes ==
  ASSUME pass \in Pass, NEW at \in PassPoints, NEW i \in Nat,
         pass' = [pass EXCEPT !.at = at, !.job = i]
  PROVE  /\ pass' \in Pass /\ pass'.at = at
         /\ pass'.sha = pass.sha /\ pass'.generation = pass.generation /\ pass'.head = pass.head
         /\ pass'.step = pass.step /\ pass'.job = i /\ pass'.claim = pass.claim
  BY DEF Pass

\* and for one that decides a step: it takes the flow's spec and approval.
LEMMA PassDecides ==
  ASSUME flow \in FlowRow, pass \in Pass, NEW at \in PassPoints, NEW step \in FlowSteps,
         pass' = [pass EXCEPT !.at = at, !.sha = flow.sha, !.generation = flow.generation, !.step = step]
  PROVE  /\ pass' \in Pass /\ pass'.at = at
         /\ pass'.sha = flow.sha /\ pass'.generation = flow.generation /\ pass'.head = pass.head
         /\ pass'.step = step /\ pass'.job = pass.job /\ pass'.claim = pass.claim
  BY DEF Pass, FlowRow

\* A pass starts from the flow's spec and approval, and the branch's head or none.
LEMMA LookFacts ==
  ASSUME flow \in FlowRow, head \in Shas, Look
  PROVE  /\ pass' \in Pass /\ pass'.at = "decide"
         /\ pass'.sha = flow.sha /\ pass'.generation = flow.generation /\ pass'.head \in {NoSha, head}
         /\ pass'.step = "none" /\ pass'.job = NoJob /\ pass'.claim = NoClaim
<1>1. PICK h \in {NoSha, head} :
        pass' = [Idle EXCEPT !.at = "decide", !.sha = flow.sha, !.generation = flow.generation, !.head = h]
  BY DEF Look
<1>2. flow.sha \in Shas /\ flow.generation \in Nat /\ h \in Shas \cup {NoSha}
  BY <1>1 DEF FlowRow
<1>3. pass' = [at |-> "decide", sha |-> flow.sha, generation |-> flow.generation, head |-> h,
               step |-> "none", job |-> NoJob, claim |-> NoClaim]
  BY <1>1 DEF Idle
<1> QED BY <1>2, <1>3 DEF Pass, PassPoints, NoJob, NoClaim

\* The poller's steps but for its dispatch, and claims that age, keep the types.
LEMMA PollTyped ==
  ASSUME Typed, PollReads \/ PollReopens \/ PollInserts \/ PollGivesUp \/ PollMarks \/ Ages
  PROVE  Typed'
<1>0. /\ FreshClaim \in 0..4 /\ Pending(FreshClaim) \in Claim /\ claim \in Claim /\ poll \in Poll
      /\ faults \in 0..MaxFaults /\ MaxFaults \in Nat
      /\ Idle \in Pass /\ PollIdle \in Poll /\ Unclaimed \in Claim
      /\ [PollIdle EXCEPT !.at = "insert"] \in Poll
  BY FreshClaimFacts, BoundsTyped, PendingTyped, IdlesTyped DEF Typed
<1>1. CASE PollReads
  <2>1. poll' \in Poll
    BY <1>0, <1>1 DEF PollReads, PollGoes, Poll, Claim, PollPoints
  <2> QED BY <1>1, <2>1 DEF PollReads, Typed, outside
<1>2. CASE PollReopens
  <2>1. poll' \in Poll /\ claim' \in Claim
    BY <1>0, <1>2 DEF PollReopens
  <2> QED BY <1>2, <2>1 DEF PollReopens, Typed, outside
<1>3. CASE PollInserts
  <2>1. poll' \in Poll /\ claim' \in Claim
    <3>1. [poll EXCEPT !.at = "dispatch", !.claim = FreshClaim] \in Poll
      BY <1>0 DEF Poll, PollPoints
    <3> QED BY <1>0, <1>3, <3>1 DEF PollInserts
  <2> QED BY <1>3, <2>1 DEF PollInserts, Typed, outside
<1>4. CASE PollGivesUp
  <2>1. poll' \in Poll
    BY <1>0, <1>4 DEF PollGivesUp, PollGoes, Poll, PollPoints
  <2> QED BY <1>4, <2>1 DEF PollGivesUp, Typed, outside
<1>5. CASE PollMarks
  <2>1. poll.job \in Nat /\ [claim EXCEPT !.status = "failed"] \in Claim
    BY <1>0 DEF Poll, Claim
  <2>2. [claim EXCEPT !.status = "dispatched", !.job = poll.job] \in Claim
    BY <1>0, <2>1 DEF Claim
  <2>3. poll' \in Poll /\ claim' \in Claim
    BY <1>0, <1>5, <2>1, <2>2 DEF PollMarks
  <2> QED BY <1>5, <2>3 DEF PollMarks, Typed, outside
<1>6. CASE Ages
  <2>1. faults' \in 0..MaxFaults
    BY <1>0, <1>6 DEF Ages
  <2>2. claim' \in Claim
    BY <1>0, <1>6 DEF Ages, Claim
  <2> QED BY <1>6, <2>1, <2>2 DEF Ages, Typed, outside
<1> QED BY <1>1, <1>2, <1>3, <1>4, <1>5, <1>6

\* So do the steps of a pass about claims,
LEMMA ClaimTyped ==
  ASSUME Typed, ClaimHead \/ FindHead \/ Retake \/ Reclaim \/ DispatchFails \/ Link \/ Wait \/ Look
  PROVE  Typed'
<1>0. /\ FreshClaim \in 0..4 /\ Pending(FreshClaim) \in Claim /\ claim \in Claim /\ pass \in Pass
      /\ faults \in 0..MaxFaults /\ MaxFaults \in Nat
      /\ Idle \in Pass /\ Unclaimed \in Claim
  BY FreshClaimFacts, BoundsTyped, PendingTyped, IdlesTyped DEF Typed
<1>01. \A at \in PassPoints : Goes(at) => pass' \in Pass
  BY <1>0, GoesFacts
<1>1. CASE ClaimHead
  <2>1. pass' \in Pass /\ claim' \in Claim
    BY <1>0, <1>01, <1>1, PassClaims DEF ClaimHead, PassPoints
  <2> QED BY <1>1, <2>1 DEF ClaimHead, Typed, outside
<1>2. CASE FindHead
  <2>1. claim.job \in Nat /\ claim.id \in 0..4
    BY <1>0 DEF Claim
  <2>2. pass' \in Pass
    BY <1>0, <1>01, <1>2, <2>1, PassClaims, PassTakes DEF FindHead, Found, Ends, PassPoints
  <2> QED BY <1>2, <2>2 DEF FindHead, Typed, outside
<1>3. CASE Retake
  <2>1. pass' \in Pass /\ claim' \in Claim
    BY <1>0, <1>01, <1>3 DEF Retake, PassPoints
  <2> QED BY <1>3, <2>1 DEF Retake, Typed, outside
<1>4. CASE Reclaim
  <2>1. pass' \in Pass /\ claim' \in Claim
    BY <1>0, <1>4, PassClaims DEF Reclaim, Ends, PassPoints
  <2> QED BY <1>4, <2>1 DEF Reclaim, Typed, outside
<1>5. CASE DispatchFails
  <2>1. pass' \in Pass /\ claim' \in Claim
    BY <1>0, <1>01, <1>5 DEF DispatchFails, Ends, PassPoints
  <2>2. faults' \in 0..MaxFaults
    BY <1>0, <1>5 DEF DispatchFails
  <2> QED BY <1>5, <2>1, <2>2 DEF DispatchFails, Typed, outside
<1>6. CASE Link
  <2>0. pass.job \in Nat
    BY <1>0 DEF Pass
  <2>1. [claim EXCEPT !.status = "dispatched", !.job = pass.job] \in Claim
    BY <1>0, <2>0 DEF Claim
  <2>2. pass' \in Pass /\ claim' \in Claim
    BY <1>0, <1>01, <1>6, <2>1 DEF Link, Ends, PassPoints
  <2> QED BY <1>6, <2>2 DEF Link, Typed, outside
<1>7. CASE Wait
  <2> QED BY <1>0, <1>7 DEF Wait, Ends, Typed, outside
<1>8. CASE Look
  <2>1. pass' \in Pass
    BY <1>8, LookFacts DEF Typed
  <2> QED BY <1>8, <2>1 DEF Look, Typed, outside
<1> QED BY <1>1, <1>2, <1>3, <1>4, <1>5, <1>6, <1>7, <1>8

\* and what people do.
LEMMA PeopleTyped ==
  ASSUME Typed,
         Stop \/ (\E a \in AskIds : Approve(a) \/ Reject(a) \/ Start(a))
              \/ (\E touches \in BOOLEAN : Publish(touches)) \/ Crash
  PROVE  Typed'
<1>0. /\ flow \in FlowRow /\ asks \in [AskIds -> AskRow] /\ Stopped \in FlowRow
      /\ Idle \in Pass /\ PollIdle \in Poll /\ MaxFaults \in Nat /\ MaxShas \in Nat
  BY BoundsTyped, StoppedTyped, IdlesTyped DEF Typed
<1>1. CASE Stop
  <2>1. asks' \in [AskIds -> AskRow]
    BY <1>0, <1>1, ClosingsTyped DEF Stop, FlowRow
  <2> QED BY <1>0, <1>1, <2>1 DEF Stop, Typed, outside
<1>2. ASSUME NEW a \in AskIds, Approve(a) PROVE Typed'
  <2>1. asks' \in [AskIds -> AskRow]
    BY <1>0, <1>2, AskClosed DEF Approve
  <2> QED BY <1>2, <2>1 DEF Approve, Typed, outside
<1>3. ASSUME NEW a \in AskIds, Reject(a) PROVE Typed'
  <2>1. asks' \in [AskIds -> AskRow]
    BY <1>0, <1>3, AskClosed DEF Reject
  <2> QED BY <1>0, <1>3, <2>1 DEF Reject, Typed, outside
<1>4. ASSUME NEW a \in AskIds, Start(a) PROVE Typed'
  <2>1. asks' \in [AskIds -> AskRow]
    BY <1>0, <1>4, AskClosed DEF Start
  <2>2. [flow EXCEPT !.state = "APPROVED", !.generation = @ + 1] \in FlowRow
    <3>1. flow.generation + 1 \in Nat /\ "APPROVED" \in FlowStates
      BY <1>0 DEF FlowRow, FlowStates, Transitions
    <3> QED BY <1>0, <3>1 DEF FlowRow
  <2> QED BY <1>0, <1>4, <2>1, <2>2 DEF Start, Typed, outside
<1>5. ASSUME NEW touches \in BOOLEAN, Publish(touches) PROVE Typed'
  <2>1. head' \in Shas /\ head \in Shas
    BY <1>0, <1>5 DEF Publish, Typed, Shas
  <2>2. content' \in [Shas -> Shas]
    BY <1>5, <2>1 DEF Publish, Typed
  <2>3. events' \subseteq Event
    BY <1>5, <2>1 DEF Publish, Typed, Event
  <2> QED BY <1>5, <2>1, <2>2, <2>3 DEF Publish, Typed
<1>6. CASE Crash
  <2>1. faults' \in 0..MaxFaults
    BY <1>0, <1>6 DEF Crash, Typed
  <2> QED BY <1>0, <1>6, <2>1 DEF Crash, Typed
<1> QED BY <1>1, <1>2, <1>3, <1>4, <1>5, <1>6

-----------------------------------------------------------------------------
(* What decide decides *)

\* Every set of numbers that holds one has a least (well-foundedness of < on Nat).
LEMMA LeastOfSet ==
  ASSUME NEW S \in SUBSET Nat, S # {}
  PROVE  \E n \in S : \A m \in S : n <= m
<1> DEFINE Less == {ss \in Nat \X Nat : ss[1] < ss[2]}
<1>1. IsWellFoundedOn(Less, Nat)
  BY NatLessThanWellFounded DEF OpToRel
<1>2. PICK n \in S : \A m \in S : ~ (<<m, n>> \in Less)
  <2> HIDE DEF Less
  <2> QED BY <1>1, WFMin
<1>3. ASSUME NEW m \in S PROVE n <= m
  <2>1. m \in Nat /\ n \in Nat /\ <<m, n>> \in Nat \X Nat
    OBVIOUS
  <2>2. ~(<<m, n>>[1] < <<m, n>>[2])
    BY <2>1, <1>2
  <2> QED BY <2>1, <2>2
<1> QED BY <1>3

\* The jobs of a flow have a last, if there is one: the least number none is above.
LEMMA LastExists ==
  ASSUME jobs \in Seq(JobRow), Linked # {}
  PROVE  \E i \in Linked : \A k \in Linked : k <= i
<1> DEFINE U == {n \in Nat : \A k \in Linked : k <= n}
<1>1. Len(jobs) \in Nat /\ DOMAIN jobs = 1..Len(jobs) /\ Linked \subseteq 1..Len(jobs)
  BY DEF Linked
<1>2. Len(jobs) \in U
  BY <1>1
<1>3. U \in SUBSET Nat /\ U # {}
  BY <1>2
<1>4. PICK n \in U : \A m \in U : n <= m
  <2> HIDE DEF U
  <2> QED BY <1>3, LeastOfSet
<1>5. CASE n \in Linked
  BY <1>4, <1>5
<1>6. CASE n \notin Linked
  <2>1. n # 0
    <3>1. PICK k : k \in Linked
      OBVIOUS
    <3>2. k \in 1..Len(jobs) /\ k <= n /\ n \in Nat
      BY <1>1, <1>4, <3>1
    <3> QED BY <1>1, <3>2
  <2>2. n - 1 \in Nat /\ ~(n <= n - 1)
    BY <1>4, <2>1
  <2>3. \A k \in Linked : k <= n - 1
    BY <1>1, <1>4, <1>6
  <2>4. n - 1 \in U
    BY <2>2, <2>3
  <2> QED BY <1>4, <2>2, <2>4
<1> QED BY <1>5, <1>6

\* LastLinked is the last job of the flow (the ORDER BY of decide).
LEMMA LastIsLast ==
  ASSUME jobs \in Seq(JobRow)
  PROVE  /\ Linked = {} => LastLinked = NoJob
         /\ Linked # {} => IsLast(LastLinked)
         /\ LastLinked # NoJob => IsLast(LastLinked)
         /\ \A i : IsLast(i) => LastLinked = i
<1>1. DOMAIN jobs = 1..Len(jobs) /\ Len(jobs) \in Nat /\ Linked \subseteq 1..Len(jobs) /\ NoJob \notin Linked
  BY DEF Linked, NoJob
<1>2. LastLinked = IF Linked = {} THEN NoJob ELSE CHOOSE i \in Linked : \A k \in Linked : k <= i
  BY DEF LastLinked, Linked
<1>3. ASSUME Linked # {} PROVE IsLast(LastLinked)
  <2>1. \E i \in Linked : \A k \in Linked : k <= i
    BY <1>3, LastExists
  <2>2. LastLinked = CHOOSE i \in Linked : \A k \in Linked : k <= i
    BY <1>2, <1>3
  <2>3. LastLinked \in Linked /\ \A k \in Linked : k <= LastLinked
    BY <2>1, <2>2
  <2> QED BY <2>3 DEF IsLast
<1>4. ASSUME NEW i, IsLast(i) PROVE LastLinked = i
  <2>1. i \in Linked /\ IsLast(LastLinked)
    BY <1>3, <1>4 DEF IsLast
  <2>2. i \in Nat /\ LastLinked \in Nat /\ i <= LastLinked /\ LastLinked <= i
    BY <1>1, <1>4, <2>1 DEF IsLast
  <2> QED BY <2>2
<1> QED BY <1>2, <1>3, <1>4

\* The latest job is the last one, and if it is not, it was a review of another spec.
LEMMA LatestFacts ==
  ASSUME jobs \in Seq(JobRow)
  PROVE  /\ Latest # NoJob => /\ IsLast(Latest) /\ Latest \in Linked /\ jobs[Latest] \in JobRow
                              /\ jobs[Latest].step = "SPEC_REVIEW" => jobs[Latest].sha = flow.sha
         /\ Latest = NoJob => \A i : IsLast(i) => jobs[i].step = "SPEC_REVIEW" /\ jobs[i].sha # flow.sha
<1>1. Latest # NoJob => Latest = LastLinked
  BY DEF Latest
<1>2. ASSUME Latest # NoJob
      PROVE  /\ IsLast(Latest) /\ Latest \in Linked /\ jobs[Latest] \in JobRow
             /\ jobs[Latest].step = "SPEC_REVIEW" => jobs[Latest].sha = flow.sha
  <2>1. LastLinked # NoJob /\ IsLast(Latest)
    BY <1>1, <1>2, LastIsLast
  <2>2. Latest \in DOMAIN jobs /\ Latest \in Linked
    BY <2>1 DEF IsLast, Linked
  <2>3. jobs[Latest] \in JobRow
    BY <2>2
  <2> QED BY <1>2, <1>1, <2>1, <2>2, <2>3 DEF Latest
<1>3. ASSUME Latest = NoJob, NEW i, IsLast(i)
      PROVE  jobs[i].step = "SPEC_REVIEW" /\ jobs[i].sha # flow.sha
  <2>1. LastLinked = i /\ i # NoJob
    BY <1>3, LastIsLast DEF IsLast, Linked, NoJob
  <2> QED BY <1>3, <2>1 DEF Latest
<1> QED BY <1>2, <1>3

\* The steps and their ranks.
LEMMA RankFacts ==
  /\ \A s \in FlowSteps : Rank[s] \in 1..6
  /\ \A s \in FlowSteps \ {"FIX"} : StepAfter[s] \in FlowSteps /\ Rank[StepAfter[s]] = Rank[s] + 1
                                    /\ StepAfter[s] # "SPEC_REVIEW"
  /\ \A s, t \in FlowSteps : Rank[s] = Rank[t] => s = t
  /\ Rank["SPEC_REVIEW"] = 1 /\ Rank["REVIEW"] = 5 /\ Rank["RUN"] = 4 /\ Rank["FIX"] = 6
  /\ StepAfter["RUN"] = "REVIEW"
  BY DEF Rank, StepAfter, FlowSteps

\* What every job row is made of.
LEMMA LinkedFacts ==
  ASSUME Typed, NEW i \in DOMAIN jobs
  PROVE  /\ jobs[i] \in JobRow /\ i \in Nat \ {0} /\ i <= Len(jobs)
         /\ jobs[i].step \in FlowSteps /\ jobs[i].sha \in Shas /\ jobs[i].sha \in Nat
         /\ jobs[i].since \in Nat /\ jobs[i].of \in Nat
         /\ jobs[i].linked \in BOOLEAN /\ jobs[i].state \in {"active", "ended", "good", "bad"}
         /\ RankOf(i) \in 1..6
<1>1. jobs[i] \in JobRow /\ i \in Nat \ {0} /\ i <= Len(jobs)
  BY DEF Typed
<1>2. jobs[i].step \in FlowSteps
  BY <1>1 DEF JobRow
<1> QED BY <1>1, <1>2, BoundsTyped, RankFacts DEF JobRow, RankOf

\* What the flow and the pass are made of.
LEMMA FlowFacts ==
  ASSUME Typed
  PROVE  /\ flow.state \in {"PENDING", "APPROVED", "RUNNING", "COMPLETED", "STOPPED"}
         /\ flow.sha \in Shas /\ flow.sha \in Nat /\ flow.generation \in Nat /\ head \in Nat
         /\ pass.head \in Nat /\ pass.sha \in Nat /\ pass.generation \in Nat /\ pass.at \in PassPoints
         /\ pass.step \in FlowSteps \cup {"none"} /\ pass.job \in Nat /\ pass.claim \in 0..4
         /\ flow.entry \in {"THREAD", "NAX"} /\ flow.step \in FlowSteps \cup {"none"}
         /\ Shas = 1..MaxShas /\ MaxShas \in Nat \ {0}
<1>0. flow \in FlowRow /\ pass \in Pass /\ head \in Shas
  BY DEF Typed
<1>1. Shas = 1..MaxShas /\ MaxShas \in Nat \ {0} /\ Shas \subseteq Nat /\ NoSha \in Nat
  BY BoundsTyped DEF Shas, NoSha
<1>2. flow.state \in {"PENDING", "APPROVED", "RUNNING", "COMPLETED", "STOPPED"}
  BY <1>0 DEF FlowRow, FlowStates, Transitions
<1>3. flow.sha \in Shas /\ flow.generation \in Nat /\ flow.entry \in Entries /\ flow.step \in FlowSteps \cup {"none"}
  BY <1>0 DEF FlowRow
<1>4. /\ pass.head \in Shas \cup {NoSha} /\ pass.sha \in Shas \cup {NoSha} /\ pass.generation \in Nat
      /\ pass.at \in PassPoints /\ pass.step \in FlowSteps \cup {"none"} /\ pass.job \in Nat /\ pass.claim \in 0..4
  BY <1>0 DEF Pass
<1> QED BY <1>0, <1>1, <1>2, <1>3, <1>4, EntryAssumption

\* A spec review is decided for an approved flow only, that had none for its spec.
LEMMA DecidesSpecReview ==
  ASSUME Typed, JobsOfFlow, InOrder, Deciding("SPEC_REVIEW")
  PROVE  /\ flow.state = "APPROVED" /\ pass.at = "decide"
         /\ \A i \in Linked : /\ jobs[i].step = "SPEC_REVIEW" /\ jobs[i].sha <= flow.sha
                              /\ jobs[i].sha # flow.sha
<1>0. pass.at = "decide" /\ Live /\ "SPEC_REVIEW" \in Decisions(Latest)
  BY DEF Deciding, At
<1>1. jobs \in Seq(JobRow)
  BY DEF Typed
<1>2. flow.state = "APPROVED"
  <2>1. SUFFICES ASSUME flow.state = "RUNNING" PROVE FALSE
    BY <1>0 DEF Live
  <2>2. PICK l \in Linked : IsLast(l) /\ jobs[l].sha = flow.sha
    BY <2>1 DEF JobsOfFlow
  <2>3. Latest # NoJob
    BY <1>1, <2>2, LatestFacts
  <2>4. Latest \in DOMAIN jobs
    BY <1>1, <2>3, LatestFacts DEF Linked
  <2>5. jobs[Latest].step \in FlowSteps
    BY <2>4, LinkedFacts
  <2>6. jobs[Latest].step # "FIX" /\ "SPEC_REVIEW" = StepAfter[jobs[Latest].step]
    BY <1>0, <2>1, <2>3 DEF Decisions
  <2> QED BY <2>5, <2>6, RankFacts
<1>3. ASSUME NEW i \in Linked PROVE jobs[i].step = "SPEC_REVIEW" /\ jobs[i].sha <= flow.sha
  BY <1>2, <1>3 DEF JobsOfFlow
<1>4. ASSUME NEW i \in Linked, jobs[i].sha = flow.sha PROVE FALSE
  <2>1. IsLast(LastLinked)
    BY <1>1, LastIsLast
  <2>2. PICK l \in Linked : IsLast(l) /\ l = LastLinked
    BY <2>1 DEF IsLast
  <2>3. i \in DOMAIN jobs /\ l \in DOMAIN jobs /\ i <= l
    BY <2>2 DEF Linked, IsLast
  <2>4. i \in Nat /\ l \in Nat /\ jobs[i].sha \in Nat /\ jobs[l].sha \in Nat /\ flow.sha \in Nat
        /\ jobs[l].since \in Nat /\ jobs[l].of \in Nat /\ flow.generation \in Nat
    BY <2>3, LinkedFacts, FlowFacts
  <2>5. jobs[l].sha = flow.sha
    <3>1. jobs[i].sha <= jobs[l].sha
      BY <2>3, <2>4 DEF InOrder
    <3>2. jobs[l].sha <= flow.sha
      BY <1>3
    <3> QED BY <1>4, <2>4, <3>1, <3>2
  <2>6. jobs[l].of = flow.generation /\ jobs[l].of <= jobs[l].since /\ jobs[l].step = "SPEC_REVIEW"
    BY <1>3, <2>5 DEF JobsOfFlow
  <2>7. SinceApproval(l)
    BY <2>4, <2>6 DEF SinceApproval
  <2>8. Latest = l /\ l # NoJob
    BY <2>2, <2>4, <2>5, LinkedFacts, <2>3 DEF Latest, NoJob
  <2> QED BY <1>0, <1>2, <2>7, <2>8 DEF Decisions
<1> QED BY <1>0, <1>2, <1>3, <1>4

\* What the pass knows that goes on from the latest job.
Follows(step) ==
  /\ pass.at = "decide" /\ flow.state = "RUNNING"
  /\ \A i \in Linked : /\ jobs[i].sha <= flow.sha
                       /\ jobs[i].sha = flow.sha => RankOf(i) < Rank[step]
  /\ \E l \in Linked : /\ IsLast(l) /\ l = Latest /\ jobs[l].state = "good"
                       /\ jobs[l].sha = flow.sha /\ jobs[l].of = flow.generation
                       /\ jobs[l].step # "FIX" /\ StepAfter[jobs[l].step] = step

\* Any other step is decided for a running flow, and follows its last job, which is good
\* and of the flow's spec and approval; none that comes later was queued for them.
LEMMA DecidesNext ==
  ASSUME Typed, JobsOfFlow, InOrder, NEW step \in FlowSteps, step # "SPEC_REVIEW", Deciding(step)
  PROVE  Follows(step)
<1>0. pass.at = "decide" /\ Live /\ step \in Decisions(Latest)
  BY DEF Deciding, At
<1>1. jobs \in Seq(JobRow)
  BY DEF Typed
<1>2. step \notin {"stop", "wait", "complete"}
  BY DEF FlowSteps
<1>3. /\ Latest # NoJob /\ flow.state = "RUNNING" /\ jobs[Latest].state \notin {"bad", "active", "ended"}
      /\ jobs[Latest].step # "FIX" /\ step = StepAfter[jobs[Latest].step]
  BY <1>0, <1>2 DEF Decisions, Live
<1>4. PICK l \in Linked : l = Latest
  BY <1>1, <1>3, LatestFacts
<1>5. l \in DOMAIN jobs
  BY DEF Linked
<1>6. IsLast(l)
  BY <1>1, <1>3, <1>4, LatestFacts
<1>7. jobs[l].sha = flow.sha /\ jobs[l].of = flow.generation
  <2>1. PICK k \in Linked : IsLast(k) /\ jobs[k].sha = flow.sha
    BY <1>3 DEF JobsOfFlow
  <2>2. k = l
    BY <1>1, <1>6, <2>1, LastIsLast
  <2> QED BY <2>1, <2>2 DEF JobsOfFlow
<1>8. jobs[l].state = "good"
  BY <1>3, <1>4, <1>5, LinkedFacts
<1>9. ASSUME NEW i \in Linked
      PROVE jobs[i].sha <= flow.sha /\ (jobs[i].sha = flow.sha => RankOf(i) < Rank[step])
  <2>1. jobs[i].sha <= flow.sha
    BY DEF JobsOfFlow
  <2>2. ASSUME jobs[i].sha = flow.sha PROVE RankOf(i) < Rank[step]
    <3>1. i \in DOMAIN jobs /\ i <= l
      BY <1>6 DEF Linked, IsLast
    <3>2. /\ i \in Nat /\ l \in Nat /\ RankOf(i) \in 1..6 /\ RankOf(l) \in 1..6
          /\ jobs[l].step \in FlowSteps
      BY <3>1, <1>5, LinkedFacts
    <3>3. SameKey(i, l)
      BY <1>7, <2>2 DEF JobsOfFlow, SameKey
    <3>4. i = l \/ RankOf(i) < RankOf(l)
      BY <3>1, <3>2, <3>3 DEF InOrder
    <3>5. Rank[step] = RankOf(l) + 1
      BY <1>3, <1>4, <3>2, RankFacts DEF RankOf
    <3> QED BY <3>2, <3>4, <3>5
  <2> QED BY <2>1, <2>2
<1> QED BY <1>0, <1>3, <1>4, <1>6, <1>7, <1>8, <1>9 DEF Follows

-----------------------------------------------------------------------------
(* Types, of the steps that queue, end and decide *)

\* Dispatching keeps the types,
LEMMA JobsTyped ==
  ASSUME Typed, PassOfFlow, PassDecided, pass.at = "dispatch",
         Dispatch
  PROVE  Typed'
<1>1. pass.step \in FlowSteps
  BY DEF PassDecided, Before
<1>2. jobs' \in Seq(JobRow)
  BY <1>1, InsertTyped DEF Dispatch
<1>3. pass' \in Pass
  <2>1. Len(jobs) + 1 \in Nat
    BY DEF Typed
  <2>2. pass \in Pass
    BY DEF Typed
  <2>3. AfterDispatch(Len(jobs) + 1)
    BY DEF Dispatch
  <2>4. CASE pass.step = "REVIEW"
    BY <2>1, <2>2, <2>3, <2>4, PassTakes DEF AfterDispatch, PassPoints
  <2>5. CASE pass.step # "REVIEW"
    BY <2>1, <2>2, <2>3, <2>5, PassTakes DEF AfterDispatch, PassPoints
  <2> QED BY <2>4, <2>5
<1> QED BY <1>2, <1>3 DEF Dispatch, Typed, outside

\* the poller's dispatch as well,
LEMMA PollDispatchesTyped ==
  ASSUME Typed, PassOfFlow, PollDispatches
  PROVE  Typed'
<1>1. jobs' \in Seq(JobRow)
  <2>1. CASE Insert("REVIEW", FALSE)
    BY <2>1, InsertTyped DEF FlowSteps
  <2>2. CASE UNCHANGED jobs
    BY <2>2 DEF Typed
  <2> QED BY <2>1, <2>2 DEF PollDispatches
<1>2. poll' \in Poll
  <2>1. Len(jobs) + 1 \in Nat /\ poll \in Poll
    BY DEF Typed
  <2> QED BY <2>1 DEF PollDispatches, PollGoes, Poll, PollPoints
<1> QED BY <1>1, <1>2 DEF PollDispatches, Typed, outside

\* the ends of jobs,
LEMMA WorkTyped ==
  ASSUME Typed, NEW i \in DOMAIN jobs, CheckOut(i) \/ JobEnds(i) \/ Ingest(i)
  PROVE  Typed'
<1>1. jobs' \in Seq(JobRow)
  BY JobEndsFacts
<1> QED BY <1>1 DEF CheckOut, JobEnds, Ingest, Typed, outside

\* and hearing of a publication.
LEMMA RespecTyped ==
  ASSUME Typed, NEW e \in events, Respec(e)
  PROVE  Typed'
<1>0. e.sha \in Shas /\ flow \in FlowRow /\ asks \in [AskIds -> AskRow]
  BY DEF Typed, Event
<1>1. flow' \in FlowRow /\ asks' \in [AskIds -> AskRow]
  <2>1. CASE UNCHANGED <<flow, asks>>
    BY <1>0, <2>1
  <2>2. CASE Reask(e.sha)
    BY <1>0, <2>2, ReaskTyped
  <2>3. CASE flow' = [flow EXCEPT !.sha = e.sha] /\ UNCHANGED asks
    BY <1>0, <2>3 DEF FlowRow
  <2> QED BY <2>1, <2>2, <2>3 DEF Respec
<1> QED BY <1>1 DEF Respec, Typed

\* What adopting makes of an auto-reviewer's job.
LEMMA AdoptFacts ==
  ASSUME Typed, PassOfFlow, ReviewsKnown, Adopt, LockLive, ~jobs[pass.job].linked
  PROVE  /\ pass.job \in DOMAIN jobs /\ jobs' \in Seq(JobRow) /\ DOMAIN jobs' = DOMAIN jobs
         /\ \A k \in DOMAIN jobs : k # pass.job => jobs'[k] = jobs[k]
         /\ jobs'[pass.job].linked /\ jobs'[pass.job].of = pass.generation /\ jobs'[pass.job].sha = pass.sha
         /\ jobs'[pass.job].step = jobs[pass.job].step /\ jobs'[pass.job].since = jobs[pass.job].since
         /\ jobs'[pass.job].state = jobs[pass.job].state
<1> DEFINE row == [jobs[pass.job] EXCEPT !.linked = TRUE, !.of = pass.generation, !.sha = pass.sha]
<1>1. pass.job \in DOMAIN jobs
  BY DEF ReviewsKnown, Adopt, At
<1>2. jobs[pass.job] \in JobRow /\ pass.generation \in Nat /\ pass.sha \in Shas
  <2>1. MaxShas \in Nat /\ flow.sha \in 1..MaxShas
    BY FlowFacts
  <2> QED BY <1>1, LinkedFacts, FlowFacts, <2>1 DEF PassOfFlow, Adopt, At, Shas
<1>3. row \in JobRow
  BY <1>2 DEF JobRow
<1>4. /\ row.linked /\ row.of = pass.generation /\ row.sha = pass.sha
      /\ row.step = jobs[pass.job].step /\ row.since = jobs[pass.job].since /\ row.state = jobs[pass.job].state
  BY <1>2 DEF JobRow
<1>5. jobs' = [jobs EXCEPT ![pass.job] = row]
  BY <1>1 DEF Adopt
<1> HIDE DEF row
<1> QED BY <1>1, <1>3, <1>4, <1>5, JobWritten DEF Typed

\* The steps that end a pass keep the types,
LEMMA PassEndsTyped ==
  ASSUME Typed, JobsOfFlow, InOrder, PassOfFlow, ReviewsKnown, PassDecided, PassQueued,
         Recover \/ StopDecided \/ Complete \/ Refused \/ Record \/ Adopt
  PROVE  Typed'
<1>0. /\ flow \in FlowRow /\ jobs \in Seq(JobRow) /\ Idle \in Pass /\ Stopped \in FlowRow
  BY IdlesTyped, StoppedTyped DEF Typed
<1>1. CASE Recover
  <2>1. Latest \in DOMAIN jobs
    BY <1>0, <1>1, LatestFacts DEF Recover, Unrecorded, Linked
  <2>2. jobs[Latest].step \in FlowSteps
    BY <2>1, LinkedFacts
  <2> QED BY <1>0, <1>1, <2>2, RecordsTyped DEF Recover, Ends, Typed, outside
<1>2. CASE StopDecided
  BY <1>0, <1>2 DEF StopDecided, Ends, Typed, outside
<1>3. CASE Complete
  <2>1. flow' \in FlowRow
    BY <1>0, <1>3 DEF Complete, FlowRow, FlowStates, Transitions
  <2> QED BY <1>0, <1>3, <2>1 DEF Complete, Ends, Typed, outside
<1>4. CASE Refused
  BY <1>0, <1>4 DEF Refused, Ends, Typed, outside
<1>5. CASE Record
  <2>1. pass.step \in FlowSteps
    <3>1. pass.job \in DOMAIN jobs /\ jobs[pass.job].step = pass.step
      BY <1>5 DEF Record, At, PassQueued, IsLast, Linked
    <3> QED BY <3>1, LinkedFacts
  <2> QED BY <1>0, <1>5, <2>1, RecordsTyped DEF Record, Ends, Typed, outside
<1>6. CASE Adopt
  <2>1. flow' \in FlowRow
    BY <1>0, <1>6, RecordsTyped DEF Adopt, FlowSteps
  <2>2. jobs' \in Seq(JobRow)
    <3>1. CASE LockLive /\ ~jobs[pass.job].linked
      BY <1>6, <3>1, AdoptFacts
    <3>2. CASE ~(LockLive /\ ~jobs[pass.job].linked)
      BY <1>0, <1>6, <3>2 DEF Adopt
    <3> QED BY <3>1, <3>2
  <2> QED BY <1>0, <1>6, <2>1, <2>2 DEF Adopt, Ends, Typed, outside
<1> QED BY <1>1, <1>2, <1>3, <1>4, <1>5, <1>6

\* and the decisions.
LEMMA DecideTyped ==
  ASSUME Typed, NEW step \in FlowSteps, DecideSpec(step) \/ DecideStep(step)
  PROVE  Typed'
<1>0. /\ flow \in FlowRow /\ pass \in Pass /\ Idle \in Pass /\ asks \in [AskIds -> AskRow]
      /\ "dispatch" \in PassPoints /\ "claim" \in PassPoints
  BY IdlesTyped DEF Typed, PassPoints
<1>1. CASE DecideSpec(step)
  <2>1. ASSUME HeadMissing PROVE Typed'
    BY <1>0, <1>1, <2>1 DEF DecideSpec, Ends, Typed, outside
  <2>2. ASSUME ~HeadMissing, Reask(HeadSeen), Ends PROVE Typed'
    <3>1. HeadSeen \in Shas
      <4>1. pass.head \in Shas \cup {NoSha} /\ head \in Shas
        BY <1>0 DEF Typed, Pass
      <4>2. flow.entry \in {"THREAD", "NAX"}
        BY FlowFacts
      <4> QED BY <2>2, <4>1, <4>2 DEF HeadSeen, HeadMissing
    <3> QED BY <1>0, <1>1, <2>2, <3>1, ReaskTyped DEF DecideSpec, Ends, Typed, outside
  <2>3. ASSUME ~HeadMissing, UNCHANGED <<flow, asks>>,
               pass' = [pass EXCEPT !.at = "dispatch", !.sha = flow.sha,
                                    !.generation = flow.generation, !.step = step]
        PROVE  Typed'
    BY <1>0, <1>1, <2>3, PassDecides DEF DecideSpec, Typed, outside
  <2> QED BY <1>1, <2>1, <2>2, <2>3 DEF DecideSpec
<1>2. CASE DecideStep(step)
  <2>1. pass' \in Pass
    <3>1. CASE step = "REVIEW"
      BY <1>0, <1>2, <3>1, PassDecides DEF DecideStep
    <3>2. CASE step # "REVIEW"
      BY <1>0, <1>2, <3>2, PassDecides DEF DecideStep
    <3> QED BY <3>1, <3>2
  <2> QED BY <1>2, <2>1 DEF DecideStep, Typed, outside
<1> QED BY <1>1, <1>2

-----------------------------------------------------------------------------
(* How the flow moves *)

\* The flow has had no step but spec reviews.
OnlySpecReviews == \A i \in Linked : jobs[i].step = "SPEC_REVIEW"

\* The ways in which a step may change the flow.  It stops;
FlowStops ==
  /\ flow.state \in {"PENDING", "APPROVED", "RUNNING"} /\ flow'.state = "STOPPED"
  /\ flow'.sha = flow.sha /\ flow'.generation = flow.generation
  /\ UNCHANGED outside /\ UNCHANGED approved

\* its approval is asked again, for a newer spec;
FlowReasks ==
  /\ flow.state \in {"PENDING", "APPROVED"} \/ (flow.state = "RUNNING" /\ pass'.at = "idle")
  /\ flow'.state = "PENDING" /\ OnlySpecReviews
  /\ flow'.sha > flow.sha /\ flow'.sha <= head /\ flow'.generation = flow.generation
  /\ UNCHANGED <<head, content, approved>> /\ events' \subseteq events

\* its approval is carried to a newer spec of the same content;
FlowCarried ==
  /\ flow.state = "APPROVED" /\ flow'.state = "APPROVED"
  /\ flow'.sha > flow.sha /\ flow'.sha <= head /\ flow'.generation = flow.generation
  /\ content[flow'.sha] = content[flow.sha]
  /\ UNCHANGED <<head, content, approved>> /\ events' \subseteq events

\* it is approved;
FlowStarts ==
  /\ flow.state = "PENDING" /\ flow'.state = "APPROVED"
  /\ flow'.sha = flow.sha /\ flow'.generation = flow.generation + 1
  /\ approved' = content[flow.sha] /\ UNCHANGED outside

\* it is completed;
FlowCompletes ==
  /\ flow.state = "RUNNING" /\ flow'.state = "COMPLETED" /\ pass'.at = "idle"
  /\ flow'.sha = flow.sha /\ flow'.generation = flow.generation
  /\ UNCHANGED outside /\ UNCHANGED approved

\* it shows the step of its last job;
FlowRuns ==
  /\ Live /\ flow'.state = "RUNNING" /\ pass'.at = "idle"
  /\ flow'.sha = flow.sha /\ flow'.generation = flow.generation
  /\ \E i \in Linked' : IsLast(i)' /\ jobs'[i].sha = flow.sha /\ jobs'[i].step = flow'.step
  /\ UNCHANGED outside /\ UNCHANGED approved

\* or it stays, whatever is published.
FlowRests ==
  /\ flow' = flow /\ UNCHANGED approved
  /\ \/ UNCHANGED <<head, content>> /\ events' \subseteq events
     \/ \E touches \in BOOLEAN : Publish(touches)

\* The flow moves in one of these ways.
FlowMoves ==
  FlowStops \/ FlowReasks \/ FlowCarried \/ FlowStarts \/ FlowCompletes \/ FlowRuns \/ FlowRests

\* The state of a flow that can stop.
LEMMA CanStopStates ==
  ASSUME Typed
  PROVE  CanStop => flow.state \in {"PENDING", "APPROVED", "RUNNING"}
<1>1. flow.state \in {"PENDING", "APPROVED", "RUNNING", "COMPLETED", "STOPPED"}
  BY FlowFacts
<1> QED BY <1>1 DEF CanStop, Transitions

\* What people do moves the flow so,
LEMMA PeopleMoveFlow ==
  ASSUME Typed,
         Stop \/ (\E a \in AskIds : Approve(a) \/ Reject(a) \/ Start(a))
              \/ (\E touches \in BOOLEAN : Publish(touches)) \/ Crash
  PROVE  FlowMoves
<1>0. /\ Stopped.state = "STOPPED" /\ Stopped.sha = flow.sha /\ Stopped.generation = flow.generation
      /\ flow \in FlowRow
  BY StoppedTyped DEF Typed
<1>1. CASE Stop
  BY <1>0, <1>1, CanStopStates DEF Stop, FlowMoves, FlowStops
<1>2. ASSUME NEW a \in AskIds, Approve(a) PROVE FlowMoves
  BY <1>2 DEF Approve, FlowMoves, FlowRests, outside
<1>3. ASSUME NEW a \in AskIds, Reject(a) PROVE FlowMoves
  BY <1>0, <1>3 DEF Reject, CurrentPending, FlowMoves, FlowRests, FlowStops, outside
<1>4. ASSUME NEW a \in AskIds, Start(a) PROVE FlowMoves
  <2>1. CASE CurrentPending(a)
    <3>1. flow' = [flow EXCEPT !.state = "APPROVED", !.generation = @ + 1]
      BY <1>4, <2>1 DEF Start
    <3>2. flow'.state = "APPROVED" /\ flow'.sha = flow.sha /\ flow'.generation = flow.generation + 1
      BY <1>0, <3>1 DEF FlowRow
    <3> QED BY <1>4, <2>1, <3>2 DEF Start, CurrentPending, FlowMoves, FlowStarts
  <2>2. CASE ~CurrentPending(a)
    BY <1>4, <2>2 DEF Start, FlowMoves, FlowRests, outside
  <2> QED BY <2>1, <2>2
<1>5. ASSUME NEW touches \in BOOLEAN, Publish(touches) PROVE FlowMoves
  BY <1>5 DEF Publish, FlowMoves, FlowRests
<1>6. CASE Crash
  BY <1>6 DEF Crash, FlowMoves, FlowRests
<1> QED BY <1>1, <1>2, <1>3, <1>4, <1>5, <1>6

\* and what the listener does: a spec is never older than the one before (respec).
LEMMA RespecMovesFlow ==
  ASSUME Typed, Published, JobsOfFlow, NEW e \in events, Respec(e)
  PROVE  FlowMoves
<1>0. /\ e \in Event /\ e.sha \in Nat /\ flow.sha \in Nat /\ flow.sha <= head /\ head \in Nat
      /\ e.sha \in Shas /\ flow \in FlowRow /\ asks \in [AskIds -> AskRow]
  <2>1. e \in Event /\ e.sha \in Shas
    BY DEF Typed, Event
  <2> QED BY <2>1, FlowFacts DEF Published, Typed
<1>1. events' \subseteq events /\ UNCHANGED <<head, content, approved>>
  BY DEF Respec
<1>2. CASE UNCHANGED <<flow, asks>>
  BY <1>1, <1>2 DEF FlowMoves, FlowRests
<1>3. CASE e.sha = head /\ e.sha # flow.sha /\ flow.state \in {"PENDING", "APPROVED"} /\ Reask(e.sha)
  <2>1. flow'.state = "PENDING" /\ flow'.sha = e.sha /\ flow'.generation = flow.generation
    <3>1. PICK sha \in Shas : sha = e.sha
      BY <1>0
    <3>2. Reask(sha)
      BY <1>3, <3>1
    <3>3. flow'.state = "PENDING" /\ flow'.sha = sha /\ flow'.generation = flow.generation
      BY <1>0, <3>2, ReaskTyped
    <3> QED BY <3>1, <3>3
  <2>2. OnlySpecReviews
    BY <1>3 DEF OnlySpecReviews, JobsOfFlow
  <2> QED BY <1>0, <1>1, <1>3, <2>1, <2>2 DEF FlowMoves, FlowReasks
<1>4. CASE /\ e.sha = head /\ e.sha # flow.sha /\ flow.state \in {"PENDING", "APPROVED"} /\ ~AsksAgain(e)
           /\ flow' = [flow EXCEPT !.sha = e.sha]
  <2>1. flow'.state = flow.state /\ flow'.sha = e.sha /\ flow'.generation = flow.generation
    BY <1>0, <1>4 DEF FlowRow
  <2>2. flow.state = "APPROVED" /\ content[e.sha] = content[flow.sha]
    <3>1. ~(flow.state = "PENDING") /\ ~(e.previous # flow.sha) /\ ~e.touches
      BY <1>4, Zenon DEF AsksAgain
    <3>2. content[e.sha] = content[e.previous]
      BY <3>1 DEF Published
    <3> QED BY <1>4, <3>1, <3>2
  <2> QED BY <1>0, <1>1, <1>4, <2>1, <2>2 DEF FlowMoves, FlowCarried
<1> QED BY <1>2, <1>3, <1>4 DEF Respec

\* Steps that leave the flow and the publications alone.
FlowAlone == UNCHANGED <<outside, flow, approved>>

\* A step that leaves the flow alone is one of them.
LEMMA AloneMovesFlow ==
  ASSUME FlowAlone
  PROVE  FlowMoves
  BY DEF FlowAlone, outside, FlowMoves, FlowRests

\* These leave it alone.
LEMMA FlowIsAlone ==
  ASSUME \/ \E i \in DOMAIN jobs : CheckOut(i) \/ JobEnds(i) \/ Ingest(i)
         \/ \E step \in FlowSteps : DecideStep(step)
         \/ Look \/ Wait \/ ClaimHead \/ FindHead \/ Retake \/ Reclaim \/ Dispatch \/ DispatchFails \/ Link
         \/ PollReads \/ PollReopens \/ PollInserts \/ PollDispatches \/ PollGivesUp \/ PollMarks \/ Ages
  PROVE  FlowAlone
  BY DEF CheckOut, JobEnds, Ingest, DecideStep, Look, Wait, ClaimHead, FindHead, Retake, Reclaim,
         Dispatch, DispatchFails, Link, PollReads, PollReopens, PollInserts, PollDispatches, PollGivesUp, PollMarks,
         Ages, FlowAlone

\* Adopting makes the auto-reviewer's job the flow's last.
LEMMA AdoptedComesLast ==
  ASSUME Typed, JobsOfFlow, Beside, PassOfFlow, ReviewsKnown, PassDecided,
         pass.at = "adopt", LockLive, ~jobs[pass.job].linked
  PROVE  /\ \A k \in Linked : k < pass.job /\ jobs[k].sha <= pass.sha
                              /\ RankOf(k) < 5
         /\ pass.sha = flow.sha /\ pass.generation = flow.generation /\ pass.job \notin Linked
         /\ pass.job \in DOMAIN jobs /\ jobs[pass.job].step = "REVIEW" /\ pass.step = "REVIEW"
<1>1. /\ pass.sha = flow.sha /\ pass.generation = flow.generation /\ pass.job \in DOMAIN jobs
      /\ pass.job \notin Linked /\ jobs[pass.job].step = "REVIEW" /\ pass.step = "REVIEW"
      /\ pass.at \in Before
  BY DEF LockLive, SameTarget, ReviewsKnown, Linked, PassDecided, Before, Claiming
<1>2. ASSUME NEW k \in Linked PROVE k < pass.job /\ jobs[k].sha <= pass.sha /\ RankOf(k) < 5
  <2>1. k \in DOMAIN jobs
    BY DEF Linked
  <2>2. RankOf(k) < 5
    <3>1. CASE jobs[k].step = "SPEC_REVIEW"
      BY <3>1, RankFacts DEF RankOf
    <3>2. CASE jobs[k].step # "SPEC_REVIEW"
      <4>1. OfPass(k)
        BY <1>1, <3>2 DEF JobsOfFlow, OfPass
      <4>2. RankOf(k) < Rank[pass.step]
        BY <1>1, <4>1 DEF PassDecided
      <4> QED BY <1>1, <4>2, RankFacts
    <3> QED BY <3>1, <3>2
  <2>3. k < pass.job
    BY <1>1, <2>2, RankFacts DEF Beside
  <2>4. jobs[k].sha <= pass.sha
    BY <1>1 DEF JobsOfFlow
  <2> QED BY <2>2, <2>3, <2>4
<1> QED BY <1>1, <1>2

\* A record shows the last job, for the flow is as it was when the pass decided (lockLive).
LEMMA RecordsMoveFlow ==
  ASSUME Typed, Published, JobsOfFlow, InOrder, Beside, PassOfFlow, ReviewsKnown, PassDecided, PassQueued,
         Recover \/ StopDecided \/ Complete \/ Refused \/ Record \/ Adopt
  PROVE  FlowMoves
<1>0. /\ Stopped.state = "STOPPED" /\ Stopped.sha = flow.sha /\ Stopped.generation = flow.generation
      /\ flow \in FlowRow /\ Idle.at = "idle" /\ jobs \in Seq(JobRow)
      /\ Live => flow.state \in {"APPROVED", "RUNNING"}
  BY StoppedTyped DEF Typed, Idle, Live
<1>1. CASE Recover
  <2>1. Live /\ Unrecorded /\ Latest # NoJob /\ Records(jobs[Latest].step)
        /\ UNCHANGED jobs /\ pass' = Idle /\ UNCHANGED outside /\ UNCHANGED approved
    BY <1>1 DEF Recover, Unrecorded, Ends
  <2>2. IsLast(Latest) /\ Latest \in Linked /\ Latest \in DOMAIN jobs
    BY <1>0, <2>1, LatestFacts DEF Linked
  <2>3. jobs[Latest].step \in FlowSteps
    BY <2>2, LinkedFacts
  <2>4. jobs[Latest].sha = flow.sha
    <3>1. CASE flow.state = "RUNNING"
      <4>1. PICK k \in Linked : IsLast(k) /\ jobs[k].sha = flow.sha
        BY <3>1 DEF JobsOfFlow
      <4>2. k = Latest
        BY <1>0, <2>2, <4>1, LastIsLast
      <4> QED BY <4>1, <4>2
    <3>2. CASE flow.state # "RUNNING"
      BY <1>0, <2>1, <3>2, LatestFacts DEF Unrecorded, SinceApproval
    <3> QED BY <3>1, <3>2
  <2>5. /\ flow'.state = "RUNNING" /\ flow'.step = jobs[Latest].step
        /\ flow'.sha = flow.sha /\ flow'.generation = flow.generation
    BY <1>0, <2>1, <2>3, RecordsTyped
  <2>6. PICK i \in Linked : i = Latest
    BY <2>2
  <2>7. jobs' = jobs /\ Linked' = Linked /\ IsLast(i)'
    BY <2>1, <2>2, <2>6 DEF IsLast, Linked
  <2> QED BY <1>0, <2>1, <2>4, <2>5, <2>6, <2>7 DEF FlowMoves, FlowRuns
<1>2. CASE StopDecided
  <2>1. Live
    BY <1>2 DEF StopDecided, Deciding
  <2> QED BY <1>0, <1>2, <2>1 DEF StopDecided, FlowMoves, FlowStops
<1>3. CASE Complete
  <2>1. flow.state = "RUNNING"
    <3>1. Live /\ "complete" \in Decisions(Latest)
      BY <1>3 DEF Complete, Deciding
    <3>2. flow.state # "APPROVED"
      BY <3>1 DEF Decisions
    <3> QED BY <1>0, <3>1, <3>2
  <2>2. flow'.state = "COMPLETED" /\ flow'.sha = flow.sha /\ flow'.generation = flow.generation
    BY <1>0, <1>3 DEF Complete, FlowRow
  <2> QED BY <1>0, <1>3, <2>1, <2>2 DEF Complete, Ends, FlowMoves, FlowCompletes
<1>4. CASE Refused
  BY <1>0, <1>4 DEF Refused, Ends, LockLive, FlowMoves, FlowStops, FlowRests, outside
<1>5. CASE Record
  <2>1. CASE LockLive
    <3>1. IsLast(pass.job) /\ OfPass(pass.job) /\ jobs[pass.job].step = pass.step
      BY <1>5 DEF Record, At, PassQueued
    <3>2. PICK i \in Linked : i = pass.job
      BY <3>1 DEF IsLast
    <3>3. i \in DOMAIN jobs
      BY DEF Linked
    <3>4. pass.step \in FlowSteps
      BY <3>1, <3>2, <3>3, LinkedFacts
    <3>5. /\ flow'.state = "RUNNING" /\ flow'.step = pass.step
          /\ flow'.sha = flow.sha /\ flow'.generation = flow.generation
      BY <1>0, <1>5, <2>1, <3>4, RecordsTyped DEF Record
    <3>6. jobs[i].sha = flow.sha
      BY <2>1, <3>1, <3>2 DEF OfPass, LockLive, SameTarget
    <3>7. jobs' = jobs /\ Linked' = Linked /\ IsLast(i)'
      BY <1>5, <3>1, <3>2 DEF Record, IsLast, Linked
    <3> QED BY <1>0, <1>5, <2>1, <3>1, <3>2, <3>5, <3>6, <3>7 DEF Record, Ends, LockLive, FlowMoves, FlowRuns
  <2>2. CASE ~LockLive
    BY <1>5, <2>2 DEF Record, FlowMoves, FlowRests, outside
  <2> QED BY <2>1, <2>2
<1>6. CASE Adopt
  <2>1. CASE ~LockLive
    BY <1>6, <2>1 DEF Adopt, FlowMoves, FlowRests, outside
  <2>2. CASE LockLive /\ jobs[pass.job].linked
    BY <1>0, <1>6, <2>2 DEF Adopt, LockLive, FlowMoves, FlowStops
  <2>3. CASE LockLive /\ ~jobs[pass.job].linked
    <3>0. pass.at = "adopt" /\ Records("REVIEW")
      BY <1>6, <2>3 DEF Adopt, At
    <3>1. /\ \A k \in Linked : k < pass.job
          /\ pass.sha = flow.sha /\ pass.job \in DOMAIN jobs /\ jobs[pass.job].step = "REVIEW"
      BY <2>3, <3>0, AdoptedComesLast
    <3>2. /\ DOMAIN jobs' = DOMAIN jobs
          /\ \A k \in DOMAIN jobs : k # pass.job => jobs'[k] = jobs[k]
          /\ jobs'[pass.job].linked /\ jobs'[pass.job].sha = pass.sha
          /\ jobs'[pass.job].step = jobs[pass.job].step
      BY <1>6, <2>3, AdoptFacts
    <3>3. PICK i \in DOMAIN jobs : i = pass.job
      BY <3>1
    <3>4. Linked' = Linked \cup {i}
      BY <3>2, <3>3 DEF Linked
    <3>5. i \in Nat /\ \A k \in Linked' : k <= i
      BY <3>1, <3>3, <3>4, LinkedFacts DEF Linked
    <3>6. IsLast(i)'
      BY <3>4, <3>5 DEF IsLast
    <3>7. /\ flow'.state = "RUNNING" /\ flow'.step = "REVIEW"
          /\ flow'.sha = flow.sha /\ flow'.generation = flow.generation
      BY <1>0, <3>0, RecordsTyped DEF FlowSteps
    <3> QED BY <1>0, <1>6, <2>3, <3>1, <3>2, <3>3, <3>4, <3>6, <3>7 DEF Adopt, Ends, LockLive, FlowMoves, FlowRuns
  <2> QED BY <2>1, <2>2, <2>3
<1> QED BY <1>1, <1>2, <1>3, <1>4, <1>5, <1>6

\* A decision that finds another head asks again, before any job but spec reviews.
LEMMA DecideSpecMovesFlow ==
  ASSUME Typed, Published, JobsOfFlow, InOrder, PassOfFlow, NEW step \in FlowSteps, DecideSpec(step)
  PROVE  FlowMoves
<1>0. /\ flow \in FlowRow /\ asks \in [AskIds -> AskRow] /\ Idle.at = "idle"
      /\ pass.at = "decide" /\ step \in {"SPEC_REVIEW", "PLAN"} /\ Deciding(step)
      /\ UNCHANGED <<outside, approved>>
  BY DEF Typed, Idle, DecideSpec, Deciding, At
<1>1. CASE UNCHANGED <<flow, asks>>
  BY <1>0, <1>1 DEF FlowMoves, FlowRests, outside
<1>2. CASE ~HeadMissing /\ HeadSeen # flow.sha /\ Reask(HeadSeen) /\ Ends
  <2>1. HeadSeen \in Shas /\ flow.sha < HeadSeen /\ HeadSeen <= head
    <3>1. pass.head \in Shas \cup {NoSha} /\ head \in Shas /\ head \in Nat /\ flow.sha \in Nat /\ pass.head \in Nat
      BY FlowFacts DEF Typed, Pass
    <3>2. CASE flow.entry = "THREAD"
      BY <1>2, <3>1, <3>2 DEF HeadSeen, Published
    <3>3. CASE flow.entry = "NAX"
      <4>1. pass.head # NoSha /\ SameTarget /\ HeadSeen = pass.head
        BY <1>2, <3>3 DEF HeadSeen, HeadMissing
      <4>2. pass.sha <= pass.head /\ pass.sha = flow.sha /\ pass.head <= head
        BY <1>0, <4>1 DEF PassOfFlow, SameTarget, Published
      <4> QED BY <1>2, <3>1, <4>1, <4>2
    <3> QED BY <3>2, <3>3, FlowFacts
  <2>2. PICK sha \in Shas : sha = HeadSeen
    BY <2>1
  <2>3. flow'.state = "PENDING" /\ flow'.sha = sha /\ flow'.generation = flow.generation
    <3>1. Reask(sha)
      BY <1>2, <2>2
    <3> QED BY <1>0, <3>1, ReaskTyped
  <2>4. OnlySpecReviews /\ flow.state \in {"APPROVED", "RUNNING"}
    <3>1. CASE step = "SPEC_REVIEW"
      BY <1>0, <3>1, DecidesSpecReview DEF OnlySpecReviews
    <3>2. CASE step = "PLAN"
      <4>1. Follows(step)
        BY <1>0, <3>2, DecidesNext
      <4>2. ASSUME NEW i \in Linked PROVE jobs[i].step = "SPEC_REVIEW"
        <5>1. SUFFICES ASSUME jobs[i].step # "SPEC_REVIEW" PROVE FALSE
          OBVIOUS
        <5>2. jobs[i].sha = flow.sha
          BY <5>1 DEF JobsOfFlow
        <5>3. RankOf(i) < Rank["PLAN"]
          BY <3>2, <4>1, <5>2 DEF Follows
        <5>4. Rank["PLAN"] = 2 /\ i \in DOMAIN jobs
          BY DEF Rank, Linked
        <5>5. RankOf(i) = Rank["SPEC_REVIEW"]
          BY <5>3, <5>4, LinkedFacts, RankFacts
        <5> QED BY <5>1, <5>4, <5>5, RankFacts, LinkedFacts DEF RankOf, FlowSteps
      <4> QED BY <4>1, <4>2 DEF OnlySpecReviews, Follows
    <3> QED BY <1>0, <3>1, <3>2
  <2> QED BY <1>0, <1>2, <2>1, <2>2, <2>3, <2>4 DEF Ends, FlowMoves, FlowReasks, outside
<1> QED BY <1>1, <1>2 DEF DecideSpec

-----------------------------------------------------------------------------
(* What holds of every step *)

\* Every step moves the flow in one of these ways.
LEMMA FlowNextMovesFlow ==
  ASSUME Typed, Published, JobsOfFlow, InOrder, Beside, PassOfFlow, ReviewsKnown, PassDecided, PassQueued,
         [FlowNext]_flowVars
  PROVE  FlowMoves
<1>1. CASE UNCHANGED flowVars
  BY <1>1, AloneMovesFlow DEF flowVars, FlowAlone
<1>2. CASE People \/ Commands \/ Crash
  BY <1>2, PeopleMoveFlow DEF People, Commands
<1>3. CASE Listener
  BY <1>3, RespecMovesFlow DEF Listener
<1>4. CASE Work \/ Poller \/ Ages
  BY <1>4, FlowIsAlone, AloneMovesFlow DEF Work, Poller
<1>5. CASE Ticker
  <2>1. CASE Decided
    BY <2>1, FlowIsAlone, AloneMovesFlow, RecordsMoveFlow, DecideSpecMovesFlow DEF Decided
  <2>2. CASE ~Decided
    BY <1>5, <2>2, FlowIsAlone, AloneMovesFlow, RecordsMoveFlow DEF Ticker
  <2> QED BY <2>1, <2>2
<1> QED BY <1>1, <1>2, <1>3, <1>4, <1>5 DEF FlowNext

\* Every step keeps the types.
LEMMA TypedStep ==
  ASSUME Typed, JobsOfFlow, InOrder, PassOfFlow, ReviewsKnown, PassDecided, PassQueued,
         [FlowNext]_flowVars
  PROVE  Typed'
<1>1. CASE UNCHANGED flowVars
  BY <1>1 DEF flowVars, outside, Typed
<1>2. CASE People \/ Commands \/ Crash
  BY <1>2, PeopleTyped DEF People, Commands
<1>3. CASE Listener
  BY <1>3, RespecTyped DEF Listener
<1>4. CASE Work
  BY <1>4, WorkTyped DEF Work
<1>5. CASE Poller \/ Ages
  BY <1>5, PollTyped, PollDispatchesTyped DEF Poller
<1>6. CASE Ticker
  <2>1. CASE Decided
    BY <2>1, ClaimTyped, PassEndsTyped, DecideTyped DEF Decided
  <2>2. CASE Dispatch
    BY <2>2, JobsTyped DEF Dispatch, At
  <2>3. CASE ~Decided /\ ~Dispatch
    BY <1>6, <2>3, ClaimTyped, PassEndsTyped DEF Ticker
  <2> QED BY <2>1, <2>2, <2>3
<1> QED BY <1>1, <1>2, <1>3, <1>4, <1>5, <1>6 DEF FlowNext

\* What is published is never published again.
LEMMA PublishedStep ==
  ASSUME Typed, Typed', Published, FlowMoves, pass'.at = "decide" => pass' = pass \/ pass'.head \in {NoSha, head}
  PROVE  Published'
<1>0. /\ head \in Nat /\ flow.sha \in Nat /\ pass.head \in Nat /\ flow.sha <= head /\ (pass.at = "decide" => pass.head <= head)
      /\ head' \in Nat
      /\ \A e \in events : /\ e.sha <= head /\ e.previous <= head /\ e.sha \in Shas /\ e.previous \in Shas
                           /\ e.sha \in Nat /\ e.previous \in Nat
  <2>1. \A e \in events : e.sha \in Shas /\ e.previous \in Shas
    BY DEF Typed, Event
  <2>2. head' \in Nat
    BY BoundsTyped DEF Typed
  <2> QED BY <2>1, <2>2, FlowFacts, BoundsTyped DEF Published
<1>1. CASE UNCHANGED <<head, content>> /\ events' \subseteq events /\ flow'.sha <= head
  <2>1. pass'.at = "decide" => pass'.head <= head'
    BY <1>0, <1>1 DEF NoSha
  <2>2. ASSUME NEW e \in events' PROVE e.sha <= head' /\ e.previous <= head'
    BY <1>0, <1>1, <2>2
  <2>3. ASSUME NEW e \in events', ~e.touches PROVE content'[e.sha] = content'[e.previous]
    BY <1>1, <2>3 DEF Published
  <2> QED BY <1>1, <2>1, <2>2, <2>3 DEF Published
<1>2. ASSUME NEW touches \in BOOLEAN, Publish(touches), flow' = flow
      PROVE  Published'
  <2>1. head' = head + 1 /\ head + 1 \in Shas
    BY <1>0, <1>2, FlowFacts DEF Publish
  <2>2. /\ \A s \in Shas : s # head + 1 => content'[s] = content[s]
        /\ ~touches => content'[head + 1] = content[head]
    BY <1>2, <2>1 DEF Publish, Typed
  <2>3. (pass'.at = "decide" => pass'.head <= head') /\ flow'.sha <= head'
    BY <1>0, <1>2, <2>1 DEF NoSha
  <2>4. events' \subseteq events \cup {[sha |-> head + 1, previous |-> head, touches |-> touches]}
    BY <1>2 DEF Publish
  <2>5. ASSUME NEW e \in events PROVE e.sha <= head' /\ e.previous <= head' /\ e.sha # head + 1 /\ e.previous # head + 1
    BY <1>0, <2>1, <2>5
  <2>6. ASSUME NEW e \in events, ~e.touches PROVE content'[e.sha] = content'[e.previous]
    <3>1. content[e.sha] = content[e.previous]
      BY <2>6 DEF Published
    <3> QED BY <1>0, <2>2, <2>5, <3>1
  <2>7. ASSUME NEW e, e = [sha |-> head + 1, previous |-> head, touches |-> touches]
        PROVE  e.sha <= head' /\ e.previous <= head' /\ (~e.touches => content'[e.sha] = content'[e.previous])
    <3>1. e.sha = head + 1 /\ e.previous = head /\ e.touches = touches
      BY <2>7
    <3>2. head \in Shas /\ head # head + 1
      BY <1>0 DEF Typed
    <3>3. content'[head] = content[head]
      BY <2>2, <3>2
    <3>4. ~touches => content'[head + 1] = content'[head]
      BY <2>2, <3>3
    <3>5. head + 1 <= head' /\ head <= head'
      BY <1>0, <2>1
    <3> QED BY <3>1, <3>4, <3>5
  <2>8. ASSUME NEW e \in events'
        PROVE  e.sha <= head' /\ e.previous <= head' /\ (~e.touches => content'[e.sha] = content'[e.previous])
    BY <2>4, <2>5, <2>6, <2>7, <2>8
  <2> QED BY <2>3, <2>8 DEF Published
<1>3. CASE FlowRests
  BY <1>0, <1>1, <1>2, <1>3 DEF FlowRests
<1> QED BY <1>0, <1>1, <1>3
    DEF FlowMoves, FlowStops, FlowReasks, FlowCarried, FlowStarts, FlowCompletes, FlowRuns, outside

\* Nothing that is published changes its content.
LEMMA ContentKept ==
  ASSUME Typed, FlowMoves, NEW sha \in Shas, sha <= head
  PROVE  content'[sha] = content[sha]
<1>1. sha \in Nat /\ head \in Nat /\ content \in [Shas -> Shas]
  BY FlowFacts, BoundsTyped DEF Typed
<1>2. ASSUME NEW touches \in BOOLEAN, Publish(touches) PROVE content'[sha] = content[sha]
  <2>1. sha # head + 1
    BY <1>1
  <2> QED BY <1>1, <1>2, <2>1 DEF Publish
<1> QED BY <1>2
    DEF FlowMoves, FlowStops, FlowReasks, FlowCarried, FlowStarts, FlowCompletes, FlowRuns, FlowRests, outside

\* A live flow was approved just now, or was live under the same approval.
LEMMA LiveWas ==
  ASSUME Typed, FlowMoves, Live'
  PROVE  \/ flow'.generation = flow.generation + 1
         \/ Live /\ flow'.generation = flow.generation /\ approved' = approved
  BY DEF FlowMoves, FlowStops, FlowReasks, FlowCarried, FlowStarts, FlowCompletes, FlowRuns, FlowRests, Live

\* Approvals are only added.
LEMMA GenerationsRise ==
  ASSUME Typed, FlowMoves
  PROVE  flow'.generation \in {flow.generation, flow.generation + 1} /\ flow'.generation >= flow.generation
<1>1. flow.generation \in Nat
  BY FlowFacts
<1>2. flow'.generation \in {flow.generation, flow.generation + 1}
  BY DEF FlowMoves, FlowStops, FlowReasks, FlowCarried, FlowStarts, FlowCompletes, FlowRuns, FlowRests
<1> QED BY <1>1, <1>2

\* None of the moves puts the flow on a spec that nobody approved.
LEMMA FlowIsApproved ==
  ASSUME Typed, Published, SpecApproved, FlowMoves
  PROVE  Live' => content'[flow'.sha] = approved'
<1>0. flow.sha \in Shas /\ flow.sha \in Nat /\ head \in Nat /\ flow.sha <= head
  BY FlowFacts DEF Published
<1>1. CASE FlowRests
  <2>1. content'[flow.sha] = content[flow.sha]
    BY <1>0, ContentKept
  <2> QED BY <1>1, <2>1 DEF FlowRests, SpecApproved, Live
<1> QED BY <1>1
    DEF FlowMoves, FlowStops, FlowReasks, FlowCarried, FlowStarts, FlowCompletes, FlowRuns, outside,
        SpecApproved, Live

\* None of them goes against the table.
LEMMA TableStep ==
  ASSUME Typed, FlowMoves, flow'.state # flow.state
  PROVE  flow'.state \in Transitions[flow.state]
  BY FlowFacts DEF Live, FlowMoves, FlowStops, FlowReasks, FlowCarried, FlowStarts, FlowCompletes, FlowRuns,
     FlowRests, Transitions

-----------------------------------------------------------------------------
(* How the jobs and the pass move *)

\* The row of a job is as it was but for its state, and good for good.
SameRow(i) ==
  /\ jobs'[i].step = jobs[i].step /\ jobs'[i].sha = jobs[i].sha /\ jobs'[i].since = jobs[i].since
  /\ jobs'[i].of = jobs[i].of /\ jobs'[i].linked = jobs[i].linked
  /\ jobs[i].state = "good" => jobs'[i].state = "good"

\* The ways in which a step may change the jobs.  It ends some;
JobsKept == DOMAIN jobs' = DOMAIN jobs /\ \A i \in DOMAIN jobs : SameRow(i)

\* A job n is queued behind the others.
Queued(n, linked) ==
  /\ n = Len(jobs) + 1 /\ DOMAIN jobs' = DOMAIN jobs \cup {n} /\ n \notin DOMAIN jobs
  /\ \A i \in DOMAIN jobs : jobs'[i] = jobs[i] /\ i < n
  /\ jobs'[n].linked = linked /\ flow' = flow

\* The pass goes on with what it decided.
PassStays ==
  /\ pass'.sha = pass.sha /\ pass'.generation = pass.generation /\ pass'.head = pass.head
  /\ pass'.step = pass.step

\* the pass queues one of its spec and approval;
PassQueues ==
  \E n \in Nat :
    /\ Queued(n, TRUE) /\ pass.at = "dispatch" /\ PassStays
    /\ jobs'[n].step = pass.step /\ jobs'[n].sha = pass.sha /\ jobs'[n].of = pass.generation
    /\ jobs'[n].since = flow.generation
    /\ pass'.at = (IF pass.step = "REVIEW" THEN "link" ELSE "record") /\ pass'.job = n
    /\ UNCHANGED <<claim, poll>>

\* the poller queues a review beside the flow;
PollQueues ==
  \E n \in Nat :
    /\ Queued(n, FALSE) /\ poll.at = "dispatch" /\ UNCHANGED <<pass, claim>>
    /\ jobs'[n].step = "REVIEW" /\ poll'.at = "mark" /\ poll'.job = n

\* or the pass makes that review the flow's.
Adopts ==
  \E u \in DOMAIN jobs :
    /\ u = pass.job /\ pass.at = "adopt" /\ LockLive /\ ~jobs[u].linked /\ pass'.at = "idle"
    /\ DOMAIN jobs' = DOMAIN jobs /\ \A k \in DOMAIN jobs : k # u => jobs'[k] = jobs[k]
    /\ jobs'[u].linked /\ jobs'[u].of = pass.generation /\ jobs'[u].sha = pass.sha
    /\ jobs'[u].step = jobs[u].step
    /\ flow'.sha = flow.sha /\ flow'.generation = flow.generation /\ flow'.state = "RUNNING"
    /\ UNCHANGED <<claim, poll>>

\* The jobs move in one of these ways.
JobsMove == JobsKept \/ PassQueues \/ PollQueues \/ Adopts

\* The ways in which a pass moves.  It starts from the flow;
PassLooks ==
  /\ Live /\ UNCHANGED <<flow, jobs>>
  /\ pass'.at = "decide" /\ pass'.sha = flow.sha /\ pass'.generation = flow.generation
  /\ pass'.head \in {NoSha, head}

\* it decides a step;
PassChooses ==
  /\ UNCHANGED <<flow, jobs>> /\ pass'.step \in FlowSteps /\ Deciding(pass'.step)
  /\ pass'.at \in Before /\ (pass'.at \in Claiming => pass'.step = "REVIEW") /\ pass'.at # "adopt"
  /\ pass'.sha = flow.sha /\ pass'.generation = flow.generation /\ pass'.head = pass.head

\* it goes from claim to dispatch;
PassGoesOn ==
  /\ UNCHANGED <<flow, jobs>> /\ PassStays
  /\ pass.at \in Before /\ pass'.at \in Before /\ (pass'.at \in Claiming => pass.at \in Claiming)
  /\ pass'.at = "adopt" => claim.job # NoJob /\ pass'.job = claim.job

\* or it links its claim to its job.
PassLinks ==
  /\ UNCHANGED <<flow, jobs>> /\ PassStays /\ pass'.job = pass.job
  /\ pass.at = "link" /\ pass'.at = "record"

\* The pass moves in one of these ways, or ends.
PassMoves ==
  \/ pass' = pass \/ pass'.at = "idle" \/ PassLooks \/ PassChooses \/ PassGoesOn \/ PassLinks \/ PassQueues

\* A claim, and the poller, get the jobs of who writes them.
ClaimMoves ==
  /\ \/ claim'.job \in {claim.job, NoJob}
     \/ pass.at = "link" /\ claim'.job = pass.job
     \/ poll.at = "mark" /\ claim'.job = poll.job
  /\ poll'.at = "mark" => poll' = poll \/ PollQueues
  /\ poll'.at # "idle" => poll.at # "idle" \/ PrIsOpen

\* Jobs, pass and claim move together.
RowsMove == JobsMove /\ PassMoves /\ ClaimMoves

\* Jobs that do not change are kept,
LEMMA UnchangedJobsKept ==
  ASSUME UNCHANGED jobs
  PROVE  JobsKept
  BY DEF JobsKept, SameRow

\* and jobs that end.
LEMMA EndedJobsKept ==
  ASSUME Typed, NEW i \in DOMAIN jobs, CheckOut(i) \/ JobEnds(i) \/ Ingest(i)
  PROVE  JobsKept
<1>1. /\ DOMAIN jobs' = DOMAIN jobs
      /\ \A k \in DOMAIN jobs : k # i => jobs'[k] = jobs[k]
  BY JobEndsFacts
<1>2. SameRow(i)
  BY JobEndsFacts DEF SameRow
<1> QED BY <1>1, <1>2 DEF JobsKept, SameRow

\* A step that changes none of the rows is such a move.
LEMMA QuietRows ==
  ASSUME UNCHANGED <<jobs, pass, claim, poll>>
  PROVE  RowsMove
  BY UnchangedJobsKept DEF RowsMove, JobsMove, PassMoves, ClaimMoves

\* So are the steps of people, the listener, the jobs, and a crash,
LEMMA OutsideRows ==
  ASSUME Typed, \/ UNCHANGED flowVars \/ People \/ Commands \/ Listener \/ Work \/ Crash
  PROVE  RowsMove
<1>1. CASE UNCHANGED flowVars
  BY <1>1, QuietRows DEF flowVars
<1>2. CASE People \/ Commands \/ Listener
  BY <1>2, QuietRows DEF People, Commands, Listener, Stop, Approve, Reject, Start, Publish, Respec
<1>3. CASE Work
  BY <1>3, EndedJobsKept DEF Work, CheckOut, JobEnds, Ingest, RowsMove, JobsMove, PassMoves, ClaimMoves
<1>4. CASE Crash
  <2>1. pass'.at = "idle" /\ poll'.at = "idle"
    BY <1>4 DEF Crash, Idle, PollIdle
  <2> QED BY <1>4, <2>1, UnchangedJobsKept DEF Crash, RowsMove, JobsMove, PassMoves, ClaimMoves
<1> QED BY <1>1, <1>2, <1>3, <1>4

\* those of the poller,
LEMMA PollRows ==
  ASSUME Typed, PassOfFlow, Poller \/ Ages
  PROVE  RowsMove
<1>0. /\ claim \in Claim /\ poll \in Poll /\ PollIdle.at = "idle" /\ PollIdle.job = NoJob
      /\ Unclaimed.job = NoJob /\ Pending(FreshClaim).job = NoJob
  BY PendingTyped, FreshClaimFacts DEF Typed, PollIdle, Unclaimed
<1>1. CASE PollReads
  <2>1. PrIsOpen /\ poll'.at \in {"insert", "reopen"}
    BY <1>0, <1>1 DEF PollReads, PollGoes, Poll
  <2> QED BY <1>1, <2>1, UnchangedJobsKept DEF PollReads, RowsMove, JobsMove, PassMoves, ClaimMoves
<1>2. CASE PollReopens
  <2>1. poll'.at = "insert" /\ poll.at # "idle" /\ claim'.job \in {claim.job, NoJob}
    BY <1>0, <1>2 DEF PollReopens, PollIdle, Polling
  <2> QED BY <1>2, <2>1, UnchangedJobsKept DEF PollReopens, RowsMove, JobsMove, PassMoves, ClaimMoves
<1>3. CASE PollInserts
  <2>1. poll'.at \in {"dispatch", "idle"} /\ poll.at # "idle" /\ claim'.job \in {claim.job, NoJob}
    BY <1>0, <1>3 DEF PollInserts, Poll, Polling
  <2> QED BY <1>3, <2>1, UnchangedJobsKept DEF PollInserts, RowsMove, JobsMove, PassMoves, ClaimMoves
<1>4. CASE PollGivesUp
  <2>1. poll'.at = "release" /\ poll.at # "idle"
    BY <1>0, <1>4 DEF PollGivesUp, PollGoes, Poll, Polling
  <2> QED BY <1>4, <2>1, UnchangedJobsKept DEF PollGivesUp, RowsMove, JobsMove, PassMoves, ClaimMoves
<1>5. CASE PollMarks
  <2>0. /\ [claim EXCEPT !.status = "failed"].job = claim.job
        /\ [claim EXCEPT !.status = "dispatched", !.job = poll.job].job = poll.job
    BY <1>0 DEF Claim
  <2>1. poll'.at = "idle" /\ (claim'.job \in {claim.job, NoJob} \/ (poll.at = "mark" /\ claim'.job = poll.job))
    BY <1>0, <1>5, <2>0 DEF PollMarks, Polling
  <2> QED BY <1>5, <2>1, UnchangedJobsKept DEF PollMarks, RowsMove, JobsMove, PassMoves, ClaimMoves
<1>6. CASE Ages
  <2>1. claim'.job = claim.job
    BY <1>0, <1>6 DEF Ages, Claim
  <2> QED BY <1>6, <2>1, UnchangedJobsKept DEF Ages, RowsMove, JobsMove, PassMoves, ClaimMoves
<1>7. CASE PollDispatches
  <2>1. CASE Insert("REVIEW", FALSE) /\ poll' = [poll EXCEPT !.at = "mark", !.job = Len(jobs) + 1]
    <3>1. /\ Len(jobs') = Len(jobs) + 1 /\ DOMAIN jobs = 1..Len(jobs) /\ DOMAIN jobs' = 1..Len(jobs')
          /\ \A i \in DOMAIN jobs : jobs'[i] = jobs[i]
          /\ jobs'[Len(jobs')].linked = FALSE /\ jobs'[Len(jobs')].step = "REVIEW"
      <4>1. PICK linked \in BOOLEAN, step \in FlowSteps : ~linked /\ step = "REVIEW" /\ Insert(step, linked)
        BY <2>1 DEF FlowSteps
      <4> QED BY <4>1, InsertFields
    <3>2. PICK n \in Nat : n = Len(jobs) + 1
      BY DEF Typed
    <3>3. n \notin DOMAIN jobs /\ DOMAIN jobs' = DOMAIN jobs \cup {n} /\ \A i \in DOMAIN jobs : i < n
      BY <3>1, <3>2 DEF Typed
    <3>4. poll'.at = "mark" /\ poll'.job = n /\ poll.at = "dispatch"
      BY <1>0, <1>7, <2>1, <3>2 DEF PollDispatches, Poll, Polling
    <3>5. Queued(n, FALSE)
      BY <1>7, <3>1, <3>2, <3>3 DEF Queued, PollDispatches
    <3>6. PollQueues
      BY <1>7, <3>1, <3>2, <3>4, <3>5 DEF PollQueues, PollDispatches
    <3> QED BY <1>7, <3>4, <3>6 DEF PollDispatches, RowsMove, JobsMove, PassMoves, ClaimMoves
  <2>2. CASE PollGoes("fail") /\ UNCHANGED jobs
    <3>1. poll'.at = "fail" /\ poll.at # "idle"
      BY <1>0, <1>7, <2>2 DEF PollDispatches, PollGoes, Poll, Polling
    <3> QED BY <1>7, <2>2, <3>1, UnchangedJobsKept DEF PollDispatches, RowsMove, JobsMove, PassMoves, ClaimMoves
  <2> QED BY <1>7, <2>1, <2>2 DEF PollDispatches
<1> QED BY <1>1, <1>2, <1>3, <1>4, <1>5, <1>6, <1>7 DEF Poller

\* the dispatch,
LEMMA DispatchRows ==
  ASSUME Typed, PassOfFlow, PassDecided, Dispatch
  PROVE  RowsMove
<1>1. pass.step \in FlowSteps /\ pass.at = "dispatch" /\ pass \in Pass
  BY DEF PassDecided, Before, Dispatch, At, Typed
<1>2. /\ Len(jobs') = Len(jobs) + 1 /\ DOMAIN jobs = 1..Len(jobs) /\ DOMAIN jobs' = 1..Len(jobs')
      /\ \A i \in DOMAIN jobs : jobs'[i] = jobs[i]
      /\ jobs'[Len(jobs')].linked = TRUE /\ jobs'[Len(jobs')].step = pass.step
      /\ jobs'[Len(jobs')].sha = pass.sha /\ jobs'[Len(jobs')].of = pass.generation
      /\ jobs'[Len(jobs')].since = flow.generation
  <2>1. PICK linked \in BOOLEAN, step \in FlowSteps : linked /\ step = pass.step /\ Insert(step, linked)
    BY <1>1 DEF Dispatch
  <2> QED BY <1>1, <2>1, InsertFields
<1>3. PICK n \in Nat : n = Len(jobs) + 1
  BY DEF Typed
<1>4. n \notin DOMAIN jobs /\ DOMAIN jobs' = DOMAIN jobs \cup {n} /\ \A i \in DOMAIN jobs : i < n
  BY <1>2, <1>3 DEF Typed
<1>5. Queued(n, TRUE)
  BY <1>2, <1>3, <1>4 DEF Queued, Dispatch
<1>6. /\ pass'.at = (IF pass.step = "REVIEW" THEN "link" ELSE "record") /\ pass'.job = n
      /\ PassStays
  <2>1. PICK at \in PassPoints : at = IF pass.step = "REVIEW" THEN "link" ELSE "record"
    BY DEF PassPoints
  <2>2. pass' = [pass EXCEPT !.at = at, !.job = n]
    BY <1>3, <2>1 DEF Dispatch, AfterDispatch
  <2> QED BY <1>1, <2>1, <2>2, PassTakes DEF PassStays
<1>7. PassQueues
  BY <1>1, <1>2, <1>3, <1>5, <1>6 DEF PassQueues, Dispatch
<1> QED BY <1>7 DEF Dispatch, RowsMove, JobsMove, PassMoves, ClaimMoves

\* A pass that goes on changes no job.
LEMMA PassRows ==
  ASSUME UNCHANGED <<jobs, poll>>, PassMoves, claim'.job \in {claim.job, NoJob} \/ (pass.at = "link" /\ claim'.job = pass.job)
  PROVE  RowsMove
  BY UnchangedJobsKept DEF RowsMove, JobsMove, ClaimMoves

\* the steps about claims,
LEMMA ClaimRows ==
  ASSUME Typed, Look \/ Wait \/ ClaimHead \/ FindHead \/ Retake \/ Reclaim \/ DispatchFails \/ Link
  PROVE  RowsMove
<1>0. /\ claim \in Claim /\ pass \in Pass /\ Idle.at = "idle" /\ Unclaimed.job = NoJob
      /\ Pending(FreshClaim).job = NoJob /\ FreshClaim \in 0..4
      /\ flow \in FlowRow /\ head \in Shas /\ claim.job \in Nat /\ claim.id \in 0..4
  BY PendingTyped, FreshClaimFacts DEF Typed, Idle, Unclaimed, Claim
<1>01. \A at \in PassPoints : Goes(at) => pass'.at = at /\ PassStays /\ pass'.job = pass.job
  BY <1>0, GoesFacts DEF PassStays
<1>02. \A at \in PassPoints : pass' = [pass EXCEPT !.at = at, !.claim = FreshClaim] => pass'.at = at /\ PassStays
  BY <1>0, PassClaims DEF PassStays
<1>1. CASE Look
  <2>1. PassLooks
    BY <1>0, <1>1, LookFacts DEF Look, PassLooks
  <2> QED BY <1>1, <2>1, PassRows DEF Look, PassMoves
<1>2. CASE Wait
  <2>1. pass'.at = "idle"
    BY <1>0, <1>2 DEF Wait, Ends
  <2> QED BY <1>2, <2>1, PassRows DEF Wait, PassMoves
<1>3. CASE ClaimHead
  <2>1. claim'.job \in {claim.job, NoJob}
    BY <1>0, <1>3 DEF ClaimHead
  <2>2. PassGoesOn
    BY <1>01, <1>02, <1>3 DEF ClaimHead, At, PassGoesOn, Before, Claiming, PassPoints
  <2> QED BY <1>3, <2>1, <2>2, PassRows DEF ClaimHead, PassMoves
<1>4. CASE FindHead
  <2>1. CASE claim.job # NoJob
    <3>1. pass' = [pass EXCEPT !.at = "adopt", !.job = claim.job]
      BY <1>4, <2>1 DEF FindHead, Found
    <3>2. pass'.at = "adopt" /\ PassStays /\ pass'.job = claim.job
      BY <1>0, <3>1, PassTakes DEF PassPoints, PassStays
    <3>3. PassGoesOn
      BY <1>4, <2>1, <3>2 DEF FindHead, At, PassGoesOn, Before, Claiming
    <3> QED BY <1>4, <3>3, PassRows DEF FindHead, PassMoves
  <2>2. CASE claim.job = NoJob /\ claim.status = "failed"
    <3>1. Goes("refused")
      BY <1>4, <2>2 DEF FindHead, Found
    <3>2. PassGoesOn
      BY <1>01, <1>4, <3>1 DEF FindHead, At, PassGoesOn, Before, Claiming, PassPoints
    <3> QED BY <1>4, <3>2, PassRows DEF FindHead, PassMoves
  <2>3. CASE pass' = [pass EXCEPT !.at = "retake", !.claim = claim.id]
    <3>1. pass'.at = "retake" /\ PassStays
      BY <1>0, <2>3, PassClaims DEF PassPoints, PassStays
    <3>2. PassGoesOn
      BY <1>4, <3>1 DEF FindHead, At, PassGoesOn, Before, Claiming
    <3> QED BY <1>4, <3>2, PassRows DEF FindHead, PassMoves
  <2>4. CASE Ends
    BY <1>0, <1>4, <2>4, PassRows DEF FindHead, PassMoves, Ends
  <2> QED BY <1>4, <2>1, <2>2, <2>3, <2>4 DEF FindHead, Found
<1>5. CASE Retake
  <2>1. claim'.job \in {claim.job, NoJob}
    BY <1>0, <1>5 DEF Retake
  <2>2. PassGoesOn
    BY <1>01, <1>5 DEF Retake, At, PassGoesOn, Before, Claiming, PassPoints
  <2> QED BY <1>5, <2>1, <2>2, PassRows DEF Retake, PassMoves
<1>6. CASE Reclaim
  <2>1. claim'.job \in {claim.job, NoJob}
    BY <1>0, <1>6 DEF Reclaim
  <2>2. PassGoesOn \/ pass'.at = "idle"
    BY <1>0, <1>02, <1>6 DEF Reclaim, Ends, At, PassGoesOn, Before, Claiming, PassPoints
  <2> QED BY <1>6, <2>1, <2>2, PassRows DEF Reclaim, PassMoves
<1>7. CASE DispatchFails
  <2>1. claim'.job \in {claim.job, NoJob}
    BY <1>0, <1>7 DEF DispatchFails
  <2>2. PassGoesOn \/ pass'.at = "idle"
    BY <1>0, <1>01, <1>7 DEF DispatchFails, Ends, At, PassGoesOn, Before, Claiming, PassPoints
  <2> QED BY <1>7, <2>1, <2>2, PassRows DEF DispatchFails, PassMoves
<1>8. CASE Link
  <2>0. pass.job \in Nat
    BY <1>0 DEF Pass
  <2>1. claim'.job \in {claim.job, NoJob} \/ claim'.job = pass.job
    BY <1>0, <1>8, <2>0 DEF Link, Claim
  <2>2. PassLinks \/ pass'.at = "idle"
    BY <1>0, <1>01, <1>8 DEF Link, Ends, At, PassLinks, PassPoints
  <2> QED BY <1>8, <2>1, <2>2, PassRows DEF Link, At, PassMoves
<1> QED BY <1>1, <1>2, <1>3, <1>4, <1>5, <1>6, <1>7, <1>8

\* the ends of a pass,
LEMMA EndRows ==
  ASSUME Typed, PassOfFlow, ReviewsKnown, Recover \/ StopDecided \/ Complete \/ Refused \/ Record \/ Adopt
  PROVE  RowsMove
<1>0. pass'.at = "idle" /\ UNCHANGED <<poll, claim>> /\ flow \in FlowRow
  BY DEF Recover, StopDecided, Complete, Refused, Record, Adopt, Ends, Idle, Typed
<1>1. CASE UNCHANGED jobs
  BY <1>0, <1>1, PassRows DEF PassMoves
<1>2. CASE Adopt /\ LockLive /\ ~jobs[pass.job].linked
  <2>1. PICK u \in DOMAIN jobs : u = pass.job
    BY <1>2, AdoptFacts
  <2>2. /\ DOMAIN jobs' = DOMAIN jobs /\ \A k \in DOMAIN jobs : k # u => jobs'[k] = jobs[k]
        /\ jobs'[u].linked /\ jobs'[u].of = pass.generation /\ jobs'[u].sha = pass.sha
        /\ jobs'[u].step = jobs[u].step
    BY <1>2, <2>1, AdoptFacts
  <2>3. flow'.sha = flow.sha /\ flow'.generation = flow.generation /\ flow'.state = "RUNNING"
    BY <1>0, <1>2, RecordsTyped DEF Adopt, FlowSteps
  <2>4. Adopts
    BY <1>0, <1>2, <2>1, <2>2, <2>3 DEF Adopts, Adopt, At
  <2> QED BY <1>0, <2>4 DEF RowsMove, JobsMove, PassMoves, ClaimMoves
<1> QED BY <1>1, <1>2 DEF Recover, StopDecided, Complete, Refused, Record, Adopt

\* and the decisions.
LEMMA DecideRows ==
  ASSUME Typed, NEW step \in FlowSteps, DecideSpec(step) \/ DecideStep(step)
  PROVE  RowsMove
<1>0. /\ flow \in FlowRow /\ pass \in Pass /\ Idle.at = "idle" /\ UNCHANGED <<jobs, claim, poll>> /\ Deciding(step)
      /\ "dispatch" \in PassPoints /\ "claim" \in PassPoints
  BY DEF Typed, Idle, DecideSpec, DecideStep, PassPoints
<1>1. CASE Ends
  BY <1>0, <1>1, PassRows DEF Ends, PassMoves
<1>2. ASSUME NEW at \in {"dispatch", "claim"}, at = "claim" => step = "REVIEW", UNCHANGED flow,
             pass' = [pass EXCEPT !.at = at, !.sha = flow.sha, !.generation = flow.generation, !.step = step]
      PROVE  RowsMove
  <2>1. /\ pass'.at = at /\ pass'.sha = flow.sha /\ pass'.generation = flow.generation
        /\ pass'.head = pass.head /\ pass'.step = step
    BY <1>0, <1>2, PassDecides
  <2>2. PassChooses
    BY <1>0, <1>2, <2>1 DEF PassChooses, Before, Claiming
  <2> QED BY <1>0, <2>2, PassRows DEF PassMoves
<1>3. CASE DecideSpec(step)
  BY <1>1, <1>2, <1>3 DEF DecideSpec
<1>4. CASE DecideStep(step)
  <2>1. CASE step = "REVIEW"
    BY <1>2, <1>4, <2>1 DEF DecideStep
  <2>2. CASE step # "REVIEW"
    BY <1>2, <1>4, <2>2 DEF DecideStep
  <2> QED BY <2>1, <2>2
<1> QED BY <1>3, <1>4

\* Every step moves jobs, pass and claim in one of these ways.
LEMMA FlowNextMovesRows ==
  ASSUME Typed, PassOfFlow, ReviewsKnown, PassDecided, [FlowNext]_flowVars
  PROVE  RowsMove
<1>1. CASE UNCHANGED flowVars \/ People \/ Commands \/ Listener \/ Work \/ Crash
  BY <1>1, OutsideRows
<1>2. CASE Poller \/ Ages
  BY <1>2, PollRows
<1>3. CASE Ticker
  <2>1. CASE Decided
    BY <2>1, ClaimRows, EndRows, DecideRows DEF Decided
  <2>2. CASE ~Decided
    BY <1>3, <2>2, ClaimRows, EndRows, DispatchRows DEF Ticker
  <2> QED BY <2>1, <2>2
<1> QED BY <1>1, <1>2, <1>3 DEF FlowNext

-----------------------------------------------------------------------------
(* The flow and its jobs, step by step *)

\* What was approved, of a pass as it is and a job as it was, is what is approved.
LEMMA ApprovedStays ==
  ASSUME Typed, Published, FlowMoves, Live', NEW sha \in Shas, sha <= flow.sha,
         NEW generation \in Nat, generation <= flow.generation, generation = flow'.generation,
         Live /\ generation = flow.generation => content[sha] = approved
  PROVE  content'[sha] = approved'
<1>1. flow.generation \in Nat /\ flow.sha \in Nat /\ head \in Nat /\ sha \in Nat /\ flow.sha <= head
  BY FlowFacts, BoundsTyped DEF Published
<1>2. generation = flow.generation /\ flow'.generation # flow.generation + 1
  BY <1>1, GenerationsRise
<1>3. Live /\ approved' = approved
  BY <1>2, LiveWas
<1>4. sha <= head
  BY <1>1
<1> QED BY <1>2, <1>3, <1>4, ContentKept

\* The spec and the approval of a pass.
LEMMA PassShaFacts ==
  ASSUME Typed, PassOfFlow, pass.at # "idle"
  PROVE  /\ pass.sha \in Shas /\ pass.sha <= flow.sha
         /\ pass.generation \in Nat /\ pass.generation <= flow.generation
<1>1. flow.sha \in 1..MaxShas /\ Shas = 1..MaxShas /\ MaxShas \in Nat /\ pass.generation \in Nat
  BY FlowFacts
<1> QED BY <1>1 DEF PassOfFlow

\* Every job of the present approval is for what was approved,
LEMMA SpecApprovedStep ==
  ASSUME Typed, Published, SpecApproved, Approvals, JobsOfFlow, PassOfFlow, FlowMoves, JobsMove
  PROVE  SpecApproved'
<1> SUFFICES ASSUME Live', NEW i \in DOMAIN jobs', jobs'[i].linked, jobs'[i].of = flow'.generation
             PROVE  content'[jobs'[i].sha] = approved'
  BY FlowIsApproved DEF SpecApproved, Mine
<1>1. ASSUME i \in DOMAIN jobs, jobs[i].linked, jobs'[i].of = jobs[i].of, jobs'[i].sha = jobs[i].sha
      PROVE  content'[jobs'[i].sha] = approved'
  <2>1. /\ i \in Linked /\ jobs[i].sha \in Shas /\ jobs[i].of \in Nat
        /\ jobs[i].sha <= flow.sha /\ jobs[i].of <= flow.generation
    BY <1>1, LinkedFacts DEF Linked, JobsOfFlow, Approvals
  <2>2. Live /\ jobs[i].of = flow.generation => content[jobs[i].sha] = approved
    BY <1>1 DEF SpecApproved, Mine
  <2> QED BY <1>1, <2>1, <2>2, ApprovedStays
<1>2. CASE JobsKept
  BY <1>1, <1>2 DEF JobsKept, SameRow
<1>3. CASE PassQueues
  <2>1. PICK n \in Nat : /\ Queued(n, TRUE) /\ pass.at = "dispatch"
                         /\ jobs'[n].sha = pass.sha /\ jobs'[n].of = pass.generation
    BY <1>3 DEF PassQueues
  <2>2. CASE i # n
    BY <1>1, <2>1, <2>2 DEF Queued
  <2>3. CASE i = n
    BY <2>1, <2>3, PassShaFacts, ApprovedStays DEF Approvals
  <2> QED BY <2>2, <2>3
<1>4. CASE PollQueues
  <2>1. PICK n \in Nat : Queued(n, FALSE)
    BY <1>4 DEF PollQueues
  <2> QED BY <1>1, <2>1 DEF Queued
<1>5. CASE Adopts
  <2>1. PICK u \in DOMAIN jobs :
          /\ LockLive /\ DOMAIN jobs' = DOMAIN jobs /\ jobs'[u].sha = pass.sha
          /\ \A k \in DOMAIN jobs : k # u => jobs'[k] = jobs[k]
          /\ flow'.sha = flow.sha
    BY <1>5 DEF Adopts
  <2>2. CASE i # u
    BY <1>1, <2>1, <2>2
  <2>3. CASE i = u
    BY <2>1, <2>3, FlowIsApproved DEF LockLive, SameTarget
  <2> QED BY <2>2, <2>3
<1> QED BY <1>2, <1>3, <1>4, <1>5 DEF JobsMove

\* and so is what the pass works for.
LEMMA ApprovalsStep ==
  ASSUME Typed, Published, SpecApproved, Approvals, PassOfFlow, FlowMoves, JobsMove, PassMoves
  PROVE  Approvals'
<1>0. flow.generation \in Nat /\ flow'.generation \in Nat /\ flow.generation <= flow'.generation
  BY FlowFacts, GenerationsRise
<1>1. ASSUME NEW i \in Linked' PROVE jobs'[i].of <= flow'.generation
  <2>1. ASSUME i \in DOMAIN jobs, jobs[i].linked, jobs'[i].of = jobs[i].of
        PROVE  jobs'[i].of <= flow'.generation
    <3>1. jobs[i].of <= flow.generation /\ jobs[i].of \in Nat
      BY <2>1, LinkedFacts DEF Approvals, Linked
    <3> QED BY <1>0, <2>1, <3>1
  <2>2. i \in DOMAIN jobs' /\ jobs'[i].linked
    BY DEF Linked
  <2>3. CASE JobsKept
    BY <2>1, <2>2, <2>3 DEF JobsKept, SameRow
  <2>4. ASSUME pass.at # "idle", jobs'[i].of = pass.generation PROVE jobs'[i].of <= flow'.generation
    BY <1>0, <2>4, PassShaFacts
  <2>5. CASE PassQueues
    <3>1. PICK n \in Nat : Queued(n, TRUE) /\ pass.at = "dispatch" /\ jobs'[n].of = pass.generation
      BY <2>5 DEF PassQueues
    <3> QED BY <2>1, <2>2, <2>4, <3>1 DEF Queued
  <2>6. CASE PollQueues
    <3>1. PICK n \in Nat : Queued(n, FALSE)
      BY <2>6 DEF PollQueues
    <3> QED BY <2>1, <2>2, <3>1 DEF Queued
  <2>7. CASE Adopts
    <3>1. PICK u \in DOMAIN jobs :
            /\ pass.at = "adopt" /\ DOMAIN jobs' = DOMAIN jobs /\ jobs'[u].of = pass.generation
            /\ \A k \in DOMAIN jobs : k # u => jobs'[k] = jobs[k]
      BY <2>7 DEF Adopts
    <3> QED BY <2>1, <2>2, <2>4, <3>1
  <2> QED BY <2>3, <2>5, <2>6, <2>7 DEF JobsMove
<1>2. ASSUME Live', pass'.at # "idle", pass'.generation = flow'.generation
      PROVE  content'[pass'.sha] = approved'
  <2>1. CASE pass.at # "idle" /\ pass'.sha = pass.sha /\ pass'.generation = pass.generation
    BY <1>2, <2>1, PassShaFacts, ApprovedStays DEF Approvals
  <2>2. CASE flow' = flow /\ pass'.sha = flow.sha
    BY <1>2, <2>2, FlowIsApproved
  <2> QED BY <1>2, <2>1, <2>2
          DEF PassMoves, PassLooks, PassChooses, PassGoesOn, PassLinks, PassQueues, PassStays, Before, Claiming
<1> QED BY <1>1, <1>2 DEF Approvals

\* Jobs that are kept stay the flow's, and the last of them the last.
LEMMA KeptLinked ==
  ASSUME JobsKept
  PROVE  /\ Linked' = Linked
         /\ \A i \in Linked : SameRow(i) /\ RankOf(i)' = RankOf(i) /\ i \in DOMAIN jobs
         /\ \A i : IsLast(i) => IsLast(i)'
<1>1. Linked' = Linked
  BY DEF Linked, JobsKept, SameRow
<1>2. \A i \in Linked : SameRow(i) /\ RankOf(i)' = RankOf(i) /\ i \in DOMAIN jobs
  BY DEF Linked, JobsKept, SameRow, RankOf
<1> QED BY <1>1, <1>2 DEF IsLast

\* The job a pass queued is the flow's last.
LEMMA QueuedLinked ==
  ASSUME Typed, NEW n \in Nat, Queued(n, TRUE)
  PROVE  /\ Linked' = Linked \cup {n} /\ n \notin DOMAIN jobs
         /\ \A i \in Linked : jobs'[i] = jobs[i] /\ i < n /\ RankOf(i)' = RankOf(i) /\ i \in DOMAIN jobs
         /\ IsLast(n)'
<1>1. Linked' = Linked \cup {n} /\ n \notin DOMAIN jobs
  BY DEF Linked, Queued
<1>2. \A i \in Linked : jobs'[i] = jobs[i] /\ i < n /\ RankOf(i)' = RankOf(i) /\ i \in DOMAIN jobs /\ i \in Nat
  BY LinkedFacts DEF Linked, Queued, RankOf
<1>3. \A i \in Linked : i <= n
  BY <1>2
<1> QED BY <1>1, <1>2, <1>3 DEF IsLast

\* What the auto-reviewer queued is not the flow's.
LEMMA QueuedBeside ==
  ASSUME Typed, NEW n \in Nat, Queued(n, FALSE)
  PROVE  /\ Linked' = Linked /\ DOMAIN jobs' = DOMAIN jobs \cup {n} /\ n \notin DOMAIN jobs
         /\ \A i \in DOMAIN jobs : jobs'[i] = jobs[i] /\ i < n /\ RankOf(i)' = RankOf(i)
         /\ \A i \in Linked : i \in DOMAIN jobs
         /\ \A i : IsLast(i) => IsLast(i)'
<1>1. Linked' = Linked /\ DOMAIN jobs' = DOMAIN jobs \cup {n} /\ n \notin DOMAIN jobs
  BY DEF Linked, Queued
<1>2. \A i \in DOMAIN jobs : jobs'[i] = jobs[i] /\ i < n /\ RankOf(i)' = RankOf(i)
  BY DEF Linked, Queued, RankOf
<1> QED BY <1>1, <1>2 DEF IsLast, Linked

\* The flow's jobs are of its spec or of one before, whatever it does: every new spec is a
\* higher publication, and no job of the new one was queued while it was not approved.
LEMMA JobsOfFlowStep ==
  ASSUME Typed, Typed', JobsOfFlow, Beside, PassOfFlow, ReviewsKnown, PassDecided, FlowMoves, JobsMove
  PROVE  JobsOfFlow'
<1>0. flow.sha \in Nat /\ flow.generation \in Nat /\ pass.sha \in Nat
  BY FlowFacts
<1>1. CASE JobsKept
  <2>0. Linked' = Linked /\ \A i \in Linked : SameRow(i) /\ i \in DOMAIN jobs
    BY <1>1, KeptLinked
  <2>1. ASSUME NEW i \in Linked
        PROVE  /\ jobs'[i].sha <= flow'.sha
               /\ jobs'[i].sha = flow'.sha => jobs'[i].of = flow'.generation /\ flow'.state # "PENDING"
               /\ IF jobs'[i].step = "SPEC_REVIEW" THEN jobs'[i].of <= jobs'[i].since
                  ELSE jobs'[i].sha = flow'.sha /\ flow'.state \notin {"PENDING", "APPROVED"}
    <3>1. /\ jobs'[i].sha = jobs[i].sha /\ jobs'[i].of = jobs[i].of /\ jobs'[i].step = jobs[i].step
          /\ jobs'[i].since = jobs[i].since /\ jobs[i].sha \in Nat
      BY <2>0, LinkedFacts DEF SameRow
    <3>2. /\ jobs[i].sha <= flow.sha
          /\ jobs[i].sha = flow.sha => jobs[i].of = flow.generation /\ flow.state # "PENDING"
          /\ IF jobs[i].step = "SPEC_REVIEW" THEN jobs[i].of <= jobs[i].since
             ELSE jobs[i].sha = flow.sha /\ flow.state \notin {"PENDING", "APPROVED"}
      BY DEF JobsOfFlow
    <3>3. CASE FlowReasks \/ FlowCarried
      <4>1. flow'.sha > flow.sha /\ (FlowCarried => flow.state = "APPROVED") /\ (FlowReasks => OnlySpecReviews)
        BY <3>3 DEF FlowReasks, FlowCarried
      <4>2. flow'.sha \in Nat
        BY BoundsTyped DEF Typed, FlowRow
      <4>3. jobs[i].step = "SPEC_REVIEW"
        BY <3>2, <3>3, <4>1 DEF OnlySpecReviews
      <4> QED BY <1>0, <3>1, <3>2, <4>1, <4>2, <4>3
    <3>4. CASE FlowStarts
      BY <1>0, <3>1, <3>2, <3>4 DEF FlowStarts
    <3>5. CASE FlowStops \/ FlowCompletes \/ FlowRuns \/ FlowRests
      BY <1>0, <3>1, <3>2, <3>5 DEF FlowStops, FlowCompletes, FlowRuns, FlowRests
    <3> QED BY <3>3, <3>4, <3>5 DEF FlowMoves
  <2>2. ASSUME flow'.state = "RUNNING" PROVE \E i \in Linked' : IsLast(i)' /\ jobs'[i].sha = flow'.sha
    <3>1. CASE FlowRuns
      BY <3>1 DEF FlowRuns
    <3>2. CASE FlowRests
      <4>1. PICK i \in Linked : IsLast(i) /\ jobs[i].sha = flow.sha
        BY <2>2, <3>2 DEF FlowRests, JobsOfFlow
      <4>2. IsLast(i)' /\ jobs'[i].sha = flow'.sha
        BY <1>1, <2>0, <3>2, <4>1, KeptLinked DEF FlowRests, SameRow
      <4> QED BY <2>0, <4>2
    <3> QED BY <2>2, <3>1, <3>2 DEF FlowMoves, FlowStops, FlowReasks, FlowCarried, FlowStarts, FlowCompletes
  <2> QED BY <2>0, <2>1, <2>2 DEF JobsOfFlow
<1>2. CASE PassQueues
  <2>1. PICK n \in Nat :
          /\ Queued(n, TRUE) /\ pass.at = "dispatch" /\ jobs'[n].step = pass.step
          /\ jobs'[n].sha = pass.sha /\ jobs'[n].of = pass.generation /\ jobs'[n].since = flow.generation
    BY <1>2 DEF PassQueues
  <2>2. Linked' = Linked \cup {n} /\ IsLast(n)' /\ flow' = flow /\ \A i \in Linked : jobs'[i] = jobs[i]
    BY <2>1, QueuedLinked DEF Queued
  <2>3. /\ pass.sha <= flow.sha
        /\ pass.sha = flow.sha => pass.generation = flow.generation /\ flow.state # "PENDING"
        /\ IF pass.step = "SPEC_REVIEW" THEN pass.generation <= flow.generation
           ELSE pass.sha = flow.sha /\ flow.state \notin {"PENDING", "APPROVED"}
        /\ flow.state = "RUNNING" => pass.sha = flow.sha
    BY <1>0, <2>1 DEF PassOfFlow, PassDecided, Before, SameTarget
  <2>4. ASSUME NEW i \in Linked'
        PROVE  /\ jobs'[i].sha <= flow'.sha
               /\ jobs'[i].sha = flow'.sha => jobs'[i].of = flow'.generation /\ flow'.state # "PENDING"
               /\ IF jobs'[i].step = "SPEC_REVIEW" THEN jobs'[i].of <= jobs'[i].since
                  ELSE jobs'[i].sha = flow'.sha /\ flow'.state \notin {"PENDING", "APPROVED"}
    <3>1. CASE i = n
      BY <2>1, <2>2, <2>3, <3>1
    <3>2. CASE i \in Linked
      BY <2>2, <3>2 DEF JobsOfFlow
    <3> QED BY <2>2, <2>4, <3>1, <3>2
  <2>5. flow'.state = "RUNNING" => n \in Linked' /\ IsLast(n)' /\ jobs'[n].sha = flow'.sha
    BY <2>1, <2>2, <2>3
  <2> QED BY <2>4, <2>5 DEF JobsOfFlow
<1>3. CASE PollQueues
  <2>1. PICK n \in Nat : Queued(n, FALSE)
    BY <1>3 DEF PollQueues
  <2>2. /\ Linked' = Linked /\ \A i \in Linked : jobs'[i] = jobs[i]
        /\ \A i : IsLast(i) => IsLast(i)'
        /\ flow' = flow
    BY <2>1, QueuedBeside DEF Queued
  <2>3. flow.state = "RUNNING" => \E i \in Linked : IsLast(i)' /\ jobs'[i].sha = flow.sha
    BY <2>2 DEF JobsOfFlow
  <2> QED BY <2>2, <2>3 DEF JobsOfFlow
<1>4. CASE Adopts
  <2>1. PICK u \in DOMAIN jobs :
          /\ u = pass.job /\ pass.at = "adopt" /\ LockLive /\ ~jobs[u].linked
          /\ DOMAIN jobs' = DOMAIN jobs /\ \A k \in DOMAIN jobs : k # u => jobs'[k] = jobs[k]
          /\ jobs'[u].linked /\ jobs'[u].of = pass.generation /\ jobs'[u].sha = pass.sha
          /\ jobs'[u].step = jobs[u].step
          /\ flow'.sha = flow.sha /\ flow'.generation = flow.generation /\ flow'.state = "RUNNING"
    BY <1>4 DEF Adopts
  <2>2. /\ \A k \in Linked : k < u /\ k \in DOMAIN jobs /\ k # u
        /\ pass.sha = flow.sha /\ pass.generation = flow.generation /\ jobs[u].step = "REVIEW"
    BY <2>1, AdoptedComesLast DEF Linked
  <2>3. Linked' = Linked \cup {u}
    BY <2>1 DEF Linked
  <2>4. ASSUME NEW i \in Linked'
        PROVE  /\ jobs'[i].sha <= flow'.sha
               /\ jobs'[i].sha = flow'.sha => jobs'[i].of = flow'.generation /\ flow'.state # "PENDING"
               /\ IF jobs'[i].step = "SPEC_REVIEW" THEN jobs'[i].of <= jobs'[i].since
                  ELSE jobs'[i].sha = flow'.sha /\ flow'.state \notin {"PENDING", "APPROVED"}
    <3>1. CASE i = u
      BY <1>0, <2>1, <2>2, <3>1
    <3>2. CASE i \in Linked
      BY <2>1, <2>2, <3>2 DEF JobsOfFlow
    <3> QED BY <2>3, <2>4, <3>1, <3>2
  <2>5. u \in Linked' /\ IsLast(u)' /\ jobs'[u].sha = flow'.sha
    <3>1. u \in Nat
      BY LinkedFacts
    <3>2. \A k \in Linked' : k <= u
      BY <2>2, <2>3, <3>1, LinkedFacts
    <3> QED BY <2>1, <2>2, <2>3, <3>2 DEF IsLast
  <2> QED BY <2>4, <2>5 DEF JobsOfFlow
<1> QED BY <1>1, <1>2, <1>3, <1>4 DEF JobsMove

\* What a pass queues, it queues in the order of the steps.
LEMMA QueuedInOrder ==
  ASSUME Typed, JobsOfFlow, PassDecided, PassOfFlow, pass.at = "dispatch"
  PROVE  /\ \A k \in Linked : jobs[k].sha <= pass.sha /\ (OfPass(k) => RankOf(k) < Rank[pass.step])
         /\ (\E k \in Linked : jobs[k].step = "RUN") => Rank[pass.step] \in {5, 6}
         /\ pass.step \in FlowSteps
<1>1. /\ pass.step \in FlowSteps /\ pass.at \in Before
      /\ \A k \in Linked : jobs[k].sha <= pass.sha /\ (OfPass(k) => RankOf(k) < Rank[pass.step])
      /\ IF pass.step = "SPEC_REVIEW"
         THEN \A i \in Linked : jobs[i].step = "SPEC_REVIEW"
         ELSE SameTarget
  BY DEF PassDecided, Before
<1>2. ASSUME NEW k \in Linked, jobs[k].step = "RUN" PROVE Rank[pass.step] \in {5, 6}
  <2>1. SameTarget /\ jobs[k].sha = flow.sha /\ jobs[k].of = flow.generation
    BY <1>1, <1>2 DEF JobsOfFlow
  <2>2. OfPass(k)
    BY <2>1 DEF OfPass, SameTarget
  <2>3. RankOf(k) = 4 /\ RankOf(k) < Rank[pass.step] /\ Rank[pass.step] \in 1..6
    BY <1>1, <1>2, <2>2, RankFacts DEF RankOf
  <2> QED BY <2>3
<1> QED BY <1>1, <1>2

\* The flow's jobs stay in order: a pass queues what was not queued for its spec and
\* approval, and adopting makes the last.
LEMMA InOrderStep ==
  ASSUME Typed, JobsOfFlow, InOrder, Beside, PassOfFlow, ReviewsKnown, PassDecided, JobsMove
  PROVE  InOrder'
<1>1. CASE JobsKept
  <2>0. Linked' = Linked /\ \A i \in Linked : SameRow(i) /\ RankOf(i)' = RankOf(i)
    BY <1>1, KeptLinked
  <2>1. ASSUME NEW i \in Linked, NEW k \in Linked, i < k
        PROVE  jobs'[i].sha <= jobs'[k].sha /\ (SameKey(i, k)' => RankOf(i)' < RankOf(k)')
    <3>1. jobs[i].sha <= jobs[k].sha /\ (SameKey(i, k) => RankOf(i) < RankOf(k))
      BY <2>1 DEF InOrder
    <3> QED BY <2>0, <3>1 DEF SameRow, SameKey
  <2> QED BY <2>0, <2>1 DEF InOrder
<1>2. CASE PassQueues
  <2>1. PICK n \in Nat :
          /\ Queued(n, TRUE) /\ pass.at = "dispatch" /\ jobs'[n].step = pass.step
          /\ jobs'[n].sha = pass.sha /\ jobs'[n].of = pass.generation
    BY <1>2 DEF PassQueues
  <2>2. /\ Linked' = Linked \cup {n}
        /\ \A i \in Linked : jobs'[i] = jobs[i] /\ i < n /\ RankOf(i)' = RankOf(i) /\ i \in Nat
    BY <2>1, QueuedLinked, LinkedFacts
  <2>3. RankOf(n)' = Rank[pass.step]
    BY <2>1 DEF RankOf
  <2>4. ASSUME NEW i \in Linked', NEW k \in Linked', i < k
        PROVE  jobs'[i].sha <= jobs'[k].sha /\ (SameKey(i, k)' => RankOf(i)' < RankOf(k)')
    <3>1. i \in Linked
      BY <2>1, <2>2, <2>4
    <3>2. CASE k \in Linked
      <4>1. jobs[i].sha <= jobs[k].sha /\ (SameKey(i, k) => RankOf(i) < RankOf(k))
        BY <2>4, <3>1, <3>2 DEF InOrder
      <4> QED BY <2>2, <3>1, <3>2, <4>1 DEF SameKey
    <3>3. CASE k = n
      <4>1. jobs[i].sha <= pass.sha /\ (OfPass(i) => RankOf(i) < Rank[pass.step])
        BY <2>1, <3>1, QueuedInOrder
      <4> QED BY <2>1, <2>2, <2>3, <3>1, <3>3, <4>1 DEF SameKey, OfPass
    <3> QED BY <2>2, <2>4, <3>2, <3>3
  <2> QED BY <2>4 DEF InOrder
<1>3. CASE PollQueues
  <2>1. PICK n \in Nat : Queued(n, FALSE)
    BY <1>3 DEF PollQueues
  <2>2. /\ Linked' = Linked /\ \A i \in Linked : jobs'[i] = jobs[i] /\ RankOf(i)' = RankOf(i)
    BY <2>1, QueuedBeside
  <2>3. ASSUME NEW i \in Linked, NEW k \in Linked, i < k
        PROVE  jobs'[i].sha <= jobs'[k].sha /\ (SameKey(i, k)' => RankOf(i)' < RankOf(k)')
    <3>1. jobs[i].sha <= jobs[k].sha /\ (SameKey(i, k) => RankOf(i) < RankOf(k))
      BY <2>3 DEF InOrder
    <3> QED BY <2>2, <3>1 DEF SameKey
  <2> QED BY <2>2, <2>3 DEF InOrder
<1>4. CASE Adopts
  <2>1. PICK u \in DOMAIN jobs :
          /\ u = pass.job /\ pass.at = "adopt" /\ LockLive /\ ~jobs[u].linked
          /\ DOMAIN jobs' = DOMAIN jobs /\ \A k \in DOMAIN jobs : k # u => jobs'[k] = jobs[k]
          /\ jobs'[u].linked /\ jobs'[u].sha = pass.sha /\ jobs'[u].step = jobs[u].step
    BY <1>4 DEF Adopts
  <2>2. /\ \A k \in Linked : k < u /\ k \in DOMAIN jobs /\ k # u /\ jobs[k].sha <= pass.sha
                             /\ RankOf(k) < 5 /\ k \in Nat
        /\ jobs[u].step = "REVIEW" /\ u \in Nat
    BY <2>1, AdoptedComesLast, LinkedFacts DEF Linked
  <2>3. Linked' = Linked \cup {u}
    BY <2>1 DEF Linked
  <2>4. RankOf(u)' = 5 /\ \A k \in Linked : jobs'[k] = jobs[k] /\ RankOf(k)' = RankOf(k)
    BY <2>1, <2>2, RankFacts DEF RankOf
  <2>5. ASSUME NEW i \in Linked', NEW k \in Linked', i < k
        PROVE  jobs'[i].sha <= jobs'[k].sha /\ (SameKey(i, k)' => RankOf(i)' < RankOf(k)')
    <3>1. i \in Linked
      BY <2>2, <2>3, <2>5
    <3>2. CASE k \in Linked
      <4>1. jobs[i].sha <= jobs[k].sha /\ (SameKey(i, k) => RankOf(i) < RankOf(k))
        BY <2>5, <3>1, <3>2 DEF InOrder
      <4> QED BY <2>4, <3>1, <3>2, <4>1 DEF SameKey
    <3>3. CASE k = u
      BY <2>1, <2>2, <2>4, <3>1, <3>3
    <3> QED BY <2>3, <2>5, <3>2, <3>3
  <2> QED BY <2>5 DEF InOrder
<1> QED BY <1>1, <1>2, <1>3, <1>4 DEF JobsMove

\* What Beside says of one job.
BesideRun(u) ==
  /\ jobs[u].step = "REVIEW"
  /\ \E k \in Linked : k < u /\ jobs[k].step = "RUN"
  /\ \A k \in Linked : RankOf(k) < Rank["REVIEW"] => k < u

\* The reviews beside the flow stay behind its RUN: nothing earlier is queued after one.
LEMMA BesideStep ==
  ASSUME Typed, JobsOfFlow, Beside, PassOfFlow, ReviewsKnown, PassDecided, JobsMove
  PROVE  Beside'
<1>0. Beside <=> \A u \in DOMAIN jobs \ Linked : BesideRun(u)
  BY DEF Beside, BesideRun
<1>00. (\A u \in DOMAIN jobs' \ Linked' : BesideRun(u)') => Beside'
  BY DEF Beside, BesideRun
<1>1. CASE JobsKept
  <2>0. /\ Linked' = Linked /\ DOMAIN jobs' = DOMAIN jobs
        /\ \A i \in Linked : SameRow(i) /\ RankOf(i)' = RankOf(i)
        /\ \A i \in DOMAIN jobs : SameRow(i)
    BY <1>1, KeptLinked DEF JobsKept
  <2>1. ASSUME NEW u \in DOMAIN jobs \ Linked PROVE BesideRun(u)'
    <3>1. BesideRun(u)
      BY <1>0
    <3> QED BY <2>0, <3>1 DEF BesideRun, SameRow
  <2> QED BY <1>00, <2>0, <2>1
<1>2. CASE PassQueues
  <2>1. PICK n \in Nat :
          Queued(n, TRUE) /\ pass.at = "dispatch" /\ jobs'[n].step = pass.step
    BY <1>2 DEF PassQueues
  <2>2. /\ Linked' = Linked \cup {n} /\ DOMAIN jobs' = DOMAIN jobs \cup {n}
        /\ \A i \in Linked : jobs'[i] = jobs[i] /\ RankOf(i)' = RankOf(i)
        /\ \A i \in DOMAIN jobs : jobs'[i] = jobs[i]
    BY <2>1, QueuedLinked DEF Queued
  <2>3. ASSUME NEW u \in DOMAIN jobs \ Linked, u # n PROVE BesideRun(u)'
    <3>1. BesideRun(u)
      BY <1>0
    <3>2. PICK k \in Linked : k < u /\ jobs[k].step = "RUN"
      BY <3>1 DEF BesideRun
    <3>3. RankOf(n)' \in {5, 6}
      BY <2>1, <3>2, QueuedInOrder DEF RankOf
    <3>4. ~(RankOf(n)' < Rank["REVIEW"])
      BY <3>3, RankFacts
    <3>5. jobs'[u].step = "REVIEW" /\ \A i \in Linked' : RankOf(i)' < Rank["REVIEW"] => i < u
      BY <2>2, <3>1, <3>4 DEF BesideRun
    <3>6. k \in Linked' /\ jobs'[k].step = "RUN"
      BY <2>2, <3>2
    <3> QED BY <3>2, <3>5, <3>6 DEF BesideRun
  <2> QED BY <1>00, <2>2, <2>3
<1>3. CASE PollQueues
  <2>1. PICK n \in Nat : Queued(n, FALSE) /\ jobs'[n].step = "REVIEW" /\ poll.at = "dispatch"
    BY <1>3 DEF PollQueues
  <2>2. /\ Linked' = Linked /\ DOMAIN jobs' = DOMAIN jobs \cup {n}
        /\ \A i \in DOMAIN jobs : jobs'[i] = jobs[i] /\ i < n /\ RankOf(i)' = RankOf(i)
        /\ \A i \in Linked : i \in DOMAIN jobs
    BY <2>1, QueuedBeside
  <2>3. ASSUME NEW u \in DOMAIN jobs \ Linked PROVE BesideRun(u)'
    <3>1. BesideRun(u)
      BY <1>0
    <3> QED BY <2>2, <3>1 DEF BesideRun
  <2>4. BesideRun(n)'
    <3>1. PICK k \in Linked : jobs[k].step = "RUN"
      BY <2>1 DEF ReviewsKnown
    <3>2. k \in Linked' /\ k < n /\ jobs'[k].step = "RUN"
      BY <2>2, <3>1
    <3> QED BY <2>1, <2>2, <3>2 DEF BesideRun
  <2> QED BY <1>00, <2>2, <2>3, <2>4
<1>4. CASE Adopts
  <2>1. PICK u \in DOMAIN jobs :
          /\ u = pass.job /\ pass.at = "adopt" /\ ~jobs[u].linked
          /\ DOMAIN jobs' = DOMAIN jobs /\ \A k \in DOMAIN jobs : k # u => jobs'[k] = jobs[k]
          /\ jobs'[u].linked /\ jobs'[u].step = jobs[u].step
    BY <1>4 DEF Adopts
  <2>2. Linked' = Linked \cup {u} /\ u \notin Linked /\ Linked \subseteq DOMAIN jobs
    BY <2>1 DEF Linked
  <2>3. ~(RankOf(u)' < Rank["REVIEW"]) /\ \A k \in Linked : jobs'[k] = jobs[k] /\ RankOf(k)' = RankOf(k)
    <3>1. jobs[u].step = "REVIEW"
      BY <2>1 DEF ReviewsKnown
    <3>2. RankOf(u)' = 5 /\ Rank["REVIEW"] = 5
      BY <2>1, <3>1, RankFacts DEF RankOf
    <3>3. \A k \in Linked : jobs'[k] = jobs[k] /\ RankOf(k)' = RankOf(k)
      BY <2>1, <2>2 DEF RankOf
    <3> QED BY <3>2, <3>3
  <2>4. ASSUME NEW i \in DOMAIN jobs' \ Linked' PROVE BesideRun(i)'
    <3>1. BesideRun(i) /\ jobs'[i] = jobs[i]
      BY <1>0, <2>1, <2>2
    <3>2. PICK k \in Linked : k < i /\ jobs[k].step = "RUN"
      BY <3>1 DEF BesideRun
    <3>3. k \in Linked' /\ jobs'[k].step = "RUN"
      BY <2>2, <2>3, <3>2
    <3>4. \A j \in Linked' : RankOf(j)' < Rank["REVIEW"] => j < i
      BY <2>2, <2>3, <3>1 DEF BesideRun
    <3> QED BY <3>1, <3>2, <3>3, <3>4 DEF BesideRun
  <2> QED BY <1>00, <2>4
<1> QED BY <1>1, <1>2, <1>3, <1>4 DEF JobsMove

\* No job goes, changes its step or leaves the flow.
LEMMA JobsStay ==
  ASSUME Typed, JobsMove, NEW i \in DOMAIN jobs
  PROVE  /\ i \in DOMAIN jobs' /\ jobs'[i].step = jobs[i].step
         /\ i \in Linked => i \in Linked'
<1>1. CASE JobsKept
  BY <1>1 DEF JobsKept, SameRow, Linked
<1>2. CASE PassQueues
  BY <1>2 DEF PassQueues, Queued, Linked
<1>3. CASE PollQueues
  BY <1>3 DEF PollQueues, Queued, Linked
<1>4. CASE Adopts
  BY <1>4 DEF Adopts, Linked
<1> QED BY <1>1, <1>2, <1>3, <1>4 DEF JobsMove

\* Claims and passes keep to reviews.
LEMMA ReviewsKnownStep ==
  ASSUME Typed, Beside, ReviewsKnown, PassQueued, RowsMove
  PROVE  ReviewsKnown'
<1>0. JobsMove /\ PassMoves /\ ClaimMoves
  BY DEF RowsMove
<1>1. ASSUME NEW i \in DOMAIN jobs, jobs[i].step = "REVIEW"
      PROVE  i \in DOMAIN jobs' /\ jobs'[i].step = "REVIEW"
  BY <1>0, <1>1, JobsStay
<1>2. claim.job # NoJob => claim.job \in DOMAIN jobs' /\ jobs'[claim.job].step = "REVIEW"
  BY <1>1 DEF ReviewsKnown
<1>3. poll.at = "mark" => poll.job \in DOMAIN jobs' /\ jobs'[poll.job].step = "REVIEW"
  BY <1>1 DEF ReviewsKnown
<1>4. pass.at = "link" => pass.job \in DOMAIN jobs' /\ jobs'[pass.job].step = "REVIEW"
  <2>1. pass.at = "link" => pass.job \in DOMAIN jobs /\ jobs[pass.job].step = "REVIEW"
    BY DEF PassQueued, IsLast, Linked
  <2> QED BY <1>1, <2>1
<1>5. pass.at = "adopt" => pass.job \in DOMAIN jobs' /\ jobs'[pass.job].step = "REVIEW"
  BY <1>1 DEF ReviewsKnown
<1>6. claim'.job # NoJob => claim'.job \in DOMAIN jobs' /\ jobs'[claim'.job].step = "REVIEW"
  BY <1>0, <1>2, <1>3, <1>4 DEF ClaimMoves
<1>7. poll'.at = "mark" => poll'.job \in DOMAIN jobs' /\ jobs'[poll'.job].step = "REVIEW"
  <2>1. CASE poll' = poll
    BY <1>3, <2>1
  <2>2. CASE PollQueues
    BY <2>2 DEF PollQueues, Queued
  <2> QED BY <1>0, <2>1, <2>2 DEF ClaimMoves
<1>8. pass'.at = "adopt" => pass'.job \in DOMAIN jobs' /\ jobs'[pass'.job].step = "REVIEW"
  <2>1. ASSUME pass'.at = "adopt"
        PROVE  (pass' = pass) \/ (claim.job # NoJob /\ pass'.job = claim.job)
    <3>1. CASE PassQueues
      BY <2>1, <3>1 DEF PassQueues
    <3> QED BY <1>0, <2>1, <3>1 DEF PassMoves, PassLooks, PassChooses, PassGoesOn, PassLinks
  <2> QED BY <1>2, <1>5, <2>1
<1>9. poll'.at # "idle" => \E k \in Linked' : jobs'[k].step = "RUN"
  <2>1. ASSUME NEW k \in Linked, jobs[k].step = "RUN" PROVE k \in Linked' /\ jobs'[k].step = "RUN"
    <3>1. k \in DOMAIN jobs
      BY DEF Linked
    <3> QED BY <1>0, <2>1, <3>1, JobsStay
  <2>2. ASSUME PrIsOpen PROVE \E k \in Linked : jobs[k].step = "RUN"
    <3>1. PICK i \in DOMAIN jobs : jobs[i].step = "RUN"
      BY <2>2 DEF PrIsOpen
    <3>2. i \in Linked
      BY <3>1 DEF Beside
    <3> QED BY <3>1, <3>2
  <2> QED BY <1>0, <2>1, <2>2 DEF ClaimMoves, ReviewsKnown
<1> QED BY <1>6, <1>7, <1>8, <1>9 DEF ReviewsKnown

-----------------------------------------------------------------------------
(* The pass, step by step *)

\* A pass whose flow got another spec sees that it did: publications only count up.
LEMMA PassOfFlowStep ==
  ASSUME Typed, Typed', Published, PassOfFlow, FlowMoves, PassMoves
  PROVE  PassOfFlow'
<1>0. /\ flow.sha \in Nat /\ flow.generation \in Nat /\ pass.sha \in Nat /\ pass.generation \in Nat
      /\ pass.head \in Nat /\ head \in Nat /\ flow.sha \in Shas /\ flow'.sha \in Nat /\ flow'.generation \in Nat
      /\ flow.sha <= head /\ flow.sha >= 1
  <2>1. flow'.sha \in Nat /\ flow'.generation \in Nat
    BY BoundsTyped DEF Typed, FlowRow
  <2> QED BY <2>1, FlowFacts, BoundsTyped DEF Published
<1>1. CASE pass'.at = "idle"
  BY <1>1 DEF PassOfFlow
<1>2. CASE pass' = pass /\ pass.at # "idle"
  <2>0. /\ pass.sha \in 1..flow.sha /\ pass.generation <= flow.generation
        /\ pass.sha = flow.sha => pass.generation = flow.generation /\ flow.state # "PENDING"
        /\ flow.state = "RUNNING" => SameTarget
        /\ pass.at = "decide" => pass.head = NoSha \/ pass.sha <= pass.head
    BY <1>2 DEF PassOfFlow
  <2>1. CASE FlowStops \/ FlowRests
    BY <1>0, <1>2, <2>0, <2>1 DEF PassOfFlow, FlowStops, FlowRests, SameTarget
  <2>2. CASE FlowReasks \/ FlowCarried
    BY <1>0, <1>2, <2>0, <2>2 DEF PassOfFlow, FlowReasks, FlowCarried
  <2>3. CASE FlowStarts
    BY <1>0, <1>2, <2>0, <2>3 DEF PassOfFlow, FlowStarts
  <2>4. CASE FlowRuns \/ FlowCompletes
    BY <1>2, <2>4 DEF FlowRuns, FlowCompletes
  <2> QED BY <2>1, <2>2, <2>3, <2>4 DEF FlowMoves
<1>3. CASE PassLooks
  BY <1>0, <1>3 DEF PassLooks, PassOfFlow, SameTarget, Live
<1>4. CASE PassChooses
  <2>1. Live /\ pass'.at # "decide"
    BY <1>4 DEF PassChooses, Deciding, Before, Claiming
  <2> QED BY <1>0, <1>4, <2>1 DEF PassChooses, PassOfFlow, SameTarget, Live
<1>5. CASE PassGoesOn \/ PassLinks \/ PassQueues
  <2>1. flow' = flow /\ PassStays /\ pass.at # "idle" /\ pass'.at # "decide"
    BY <1>5 DEF PassGoesOn, PassLinks, PassQueues, Before, Claiming, Queued
  <2> QED BY <2>1 DEF PassOfFlow, PassStays, SameTarget
<1> QED BY <1>1, <1>2, <1>3, <1>4, <1>5 DEF PassMoves

\* The job that a step builds on.
BuiltOn(k, step) == jobs[k].state = "good" /\ OfPass(k) /\ StepAfter[jobs[k].step] = step

\* What PassDecided says of a pass that decided a step.
DecidedWell ==
  /\ pass.step \in FlowSteps
  /\ \A i \in Linked : jobs[i].sha <= pass.sha /\ (OfPass(i) => RankOf(i) < Rank[pass.step])
  /\ IF pass.step = "SPEC_REVIEW"
     THEN flow.state # "RUNNING" /\ \A i \in Linked : jobs[i].step = "SPEC_REVIEW"
     ELSE /\ SameTarget /\ flow.state \in {"RUNNING", "STOPPED"}
          /\ \E k \in Linked : BuiltOn(k, pass.step)

\* PassDecided is DecidedWell, at the points it is about.
LEMMA DecidedWellIs ==
  PassDecided <=> (pass.at \in Before => DecidedWell /\ (pass.at \in Claiming => pass.step = "REVIEW"))
  BY DEF PassDecided, DecidedWell, BuiltOn

\* The same after the step.
LEMMA DecidedWellIsPrimed ==
  PassDecided' <=> (pass'.at \in Before => DecidedWell' /\ (pass'.at \in Claiming => pass'.step = "REVIEW"))
  BY DEF PassDecided, DecidedWell, BuiltOn

\* A decided step stays decided well until it is queued: nobody else queues it.
LEMMA PassDecidedStep ==
  ASSUME Typed, JobsOfFlow, InOrder, PassOfFlow, PassDecided, FlowMoves, RowsMove
  PROVE  PassDecided'
<1>0. JobsMove /\ PassMoves
  BY DEF RowsMove
<1>1. CASE pass'.at = "idle" \/ PassLinks \/ PassLooks \/ PassQueues
  <2>1. pass'.at \notin Before
    BY <1>1 DEF PassLinks, PassLooks, PassQueues, Before, Claiming
  <2> QED BY <2>1, DecidedWellIsPrimed
<1>2. CASE pass' = pass /\ pass.at \in Before /\ pass'.at # "idle" /\ ~PassQueues
  <2>0. DecidedWell /\ (pass.at \in Claiming => pass.step = "REVIEW")
    BY <1>2, DecidedWellIs
  <2>1. JobsKept \/ PollQueues
    BY <1>0, <1>2 DEF JobsMove, Adopts
  <2>2. /\ Linked' = Linked
        /\ \A i \in Linked : SameRow(i) /\ RankOf(i)' = RankOf(i)
    <3>1. CASE JobsKept
      BY <3>1, KeptLinked
    <3>2. CASE PollQueues
      <4>1. PICK n \in Nat : Queued(n, FALSE)
        BY <3>2 DEF PollQueues
      <4> QED BY <4>1, QueuedBeside DEF SameRow
    <3> QED BY <2>1, <3>1, <3>2
  <2>3. \A i \in Linked : jobs'[i].sha <= pass'.sha /\ (OfPass(i)' => RankOf(i)' < Rank[pass'.step])
    BY <1>2, <2>0, <2>2 DEF DecidedWell, OfPass, SameRow
  <2>4. \A k \in Linked : BuiltOn(k, pass.step) => BuiltOn(k, pass.step)'
    BY <1>2, <2>2 DEF BuiltOn, SameRow, OfPass
  <2>5. IF pass.step = "SPEC_REVIEW" THEN flow'.state # "RUNNING"
        ELSE SameTarget' /\ flow'.state \in {"RUNNING", "STOPPED"}
    <3>1. IF pass.step = "SPEC_REVIEW" THEN flow.state # "RUNNING"
          ELSE SameTarget /\ flow.state \in {"RUNNING", "STOPPED"}
      BY <2>0 DEF DecidedWell
    <3>2. ~FlowRuns /\ ~FlowCompletes
      BY <1>2 DEF FlowRuns, FlowCompletes
    <3> QED BY <1>2, <3>1, <3>2
        DEF FlowMoves, FlowStops, FlowReasks, FlowCarried, FlowStarts, FlowRests, SameTarget
  <2>6. DecidedWell'
    BY <1>2, <2>0, <2>2, <2>3, <2>4, <2>5 DEF DecidedWell, SameRow
  <2> QED BY <1>2, <2>0, <2>6, DecidedWellIsPrimed
<1>3. CASE pass' = pass /\ pass.at \notin Before
  BY <1>3, DecidedWellIsPrimed
<1>4. CASE PassGoesOn
  <2>0. DecidedWell /\ (pass.at \in Claiming => pass.step = "REVIEW") /\ UNCHANGED <<flow, jobs>> /\ PassStays
    BY <1>4, DecidedWellIs DEF PassGoesOn
  <2>1. DecidedWell'
    BY <2>0 DEF DecidedWell, PassStays, Linked, OfPass, RankOf, SameTarget, BuiltOn
  <2> QED BY <1>4, <2>0, <2>1, DecidedWellIsPrimed DEF PassGoesOn, PassStays
<1>5. CASE PassChooses
  <2>0. /\ UNCHANGED <<flow, jobs>> /\ pass'.step \in FlowSteps /\ Deciding(pass'.step)
        /\ pass'.sha = flow.sha /\ pass'.generation = flow.generation
        /\ (pass'.at \in Claiming => pass'.step = "REVIEW")
        /\ Linked' = Linked /\ \A i : RankOf(i)' = RankOf(i)
    BY <1>5 DEF PassChooses, Linked, RankOf
  <2>1. CASE pass'.step = "SPEC_REVIEW"
    <3>1. /\ flow.state = "APPROVED"
          /\ \A i \in Linked : jobs[i].step = "SPEC_REVIEW" /\ jobs[i].sha <= flow.sha /\ jobs[i].sha # flow.sha
      BY <2>0, <2>1, DecidesSpecReview
    <3>2. DecidedWell'
      BY <2>0, <2>1, <3>1 DEF DecidedWell, OfPass
    <3> QED BY <2>0, <3>2, DecidedWellIsPrimed
  <2>2. CASE pass'.step # "SPEC_REVIEW"
    <3>1. PICK step \in FlowSteps : step = pass'.step /\ Deciding(step)
      BY <2>0
    <3>2. Follows(step)
      BY <2>2, <3>1, DecidesNext
    <3>3. PICK l \in Linked : /\ jobs[l].state = "good" /\ jobs[l].sha = flow.sha
                              /\ jobs[l].of = flow.generation /\ StepAfter[jobs[l].step] = step
      BY <3>2 DEF Follows
    <3>4. \A i \in Linked : jobs[i].sha <= flow.sha /\ (jobs[i].sha = flow.sha => RankOf(i) < Rank[step])
      BY <3>2 DEF Follows
    <3>5. BuiltOn(l, step)'
      BY <2>0, <3>1, <3>3 DEF BuiltOn, OfPass
    <3>6. flow.state = "RUNNING" /\ SameTarget'
      BY <2>0, <3>2 DEF Follows, SameTarget
    <3>7. DecidedWell'
      BY <2>0, <2>2, <3>1, <3>3, <3>4, <3>5, <3>6 DEF DecidedWell, OfPass
    <3> QED BY <2>0, <3>7, DecidedWellIsPrimed
  <2> QED BY <2>1, <2>2
<1> QED BY <1>0, <1>1, <1>2, <1>3, <1>4, <1>5 DEF PassMoves

\* A job that a pass queued stays the last.
LEMMA PassQueuedStep ==
  ASSUME Typed, PassQueued, RowsMove
  PROVE  PassQueued'
<1>0. JobsMove /\ PassMoves
  BY DEF RowsMove
<1>1. CASE PassQueues
  <2>1. PICK n \in Nat :
          /\ Queued(n, TRUE) /\ PassStays /\ jobs'[n].step = pass.step /\ jobs'[n].sha = pass.sha
          /\ jobs'[n].of = pass.generation /\ pass'.job = n
          /\ pass'.at = (IF pass.step = "REVIEW" THEN "link" ELSE "record")
    BY <1>1 DEF PassQueues
  <2>2. IsLast(n)'
    BY <2>1, QueuedLinked
  <2>3. pass'.at = "link" => pass'.step = "REVIEW"
    BY <2>1 DEF PassStays
  <2> QED BY <2>1, <2>2, <2>3 DEF PassQueued, PassStays, OfPass
<1>2. CASE pass' = pass /\ pass.at \in {"link", "record"} /\ ~PassQueues
  <2>0. IsLast(pass.job) /\ OfPass(pass.job) /\ jobs[pass.job].step = pass.step
        /\ (pass.at = "link" => pass.step = "REVIEW")
    BY <1>2 DEF PassQueued
  <2>1. PICK i \in Linked : i = pass.job
    BY <2>0 DEF IsLast
  <2>2. IsLast(i)' /\ jobs'[i].step = jobs[i].step /\ jobs'[i].sha = jobs[i].sha /\ jobs'[i].of = jobs[i].of
    <3>1. CASE JobsKept
      BY <2>0, <2>1, <3>1, KeptLinked DEF SameRow
    <3>2. CASE PollQueues
      <4>1. PICK n \in Nat : Queued(n, FALSE)
        BY <3>2 DEF PollQueues
      <4> QED BY <2>0, <2>1, <4>1, QueuedBeside
    <3> QED BY <1>0, <1>2, <3>1, <3>2 DEF JobsMove, Adopts
  <2> QED BY <1>2, <2>0, <2>1, <2>2 DEF PassQueued, OfPass
<1>3. CASE PassLinks
  BY <1>3 DEF PassLinks, PassStays, PassQueued, IsLast, Linked, OfPass
<1>4. CASE pass'.at \notin {"link", "record"}
  BY <1>4 DEF PassQueued
<1> QED BY <1>0, <1>1, <1>2, <1>3, <1>4 DEF PassMoves, PassLooks, PassChooses, PassGoesOn, Before, Claiming

-----------------------------------------------------------------------------
(* What steps build on *)

\* What StepsFollow says of one job.
Followed(i) ==
  \E k \in Linked :
    /\ k < i /\ jobs[k].state = "good" /\ StepAfter[jobs[k].step] = jobs[i].step
    /\ jobs[k].of = jobs[i].of /\ jobs[k].sha = jobs[i].sha

\* StepsFollow in terms of the flow's jobs.
LEMMA StepsFollowIs ==
  ASSUME Typed
  PROVE  StepsFollow <=> \A i \in Linked : jobs[i].step # "SPEC_REVIEW" => Followed(i)
<1>1. DOMAIN jobs = 1..Len(jobs) /\ Len(jobs) \in Nat
  BY DEF Typed
<1>2. ASSUME StepsFollow, NEW i \in Linked, jobs[i].step # "SPEC_REVIEW" PROVE Followed(i)
  <2>1. i \in DOMAIN jobs /\ jobs[i].linked /\ i \in 1..Len(jobs)
    BY <1>1 DEF Linked
  <2>2. PICK k \in 1..(i - 1) :
          /\ jobs[k].linked /\ jobs[k].state = "good" /\ StepAfter[jobs[k].step] = jobs[i].step
          /\ jobs[k].of = jobs[i].of /\ jobs[k].sha = jobs[i].sha
    BY <1>2, <2>1 DEF StepsFollow
  <2>3. k \in Linked /\ k < i
    BY <1>1, <2>1, <2>2 DEF Linked
  <2> QED BY <2>2, <2>3 DEF Followed
<1>3. ASSUME \A i \in Linked : jobs[i].step # "SPEC_REVIEW" => Followed(i) PROVE StepsFollow
  <2>1. SUFFICES ASSUME NEW i \in DOMAIN jobs, jobs[i].linked, jobs[i].step # "SPEC_REVIEW"
                 PROVE  \E k \in 1..(i - 1) :
                          /\ jobs[k].linked /\ jobs[k].state = "good" /\ StepAfter[jobs[k].step] = jobs[i].step
                          /\ jobs[k].of = jobs[i].of /\ jobs[k].sha = jobs[i].sha
    BY DEF StepsFollow
  <2>2. Followed(i)
    BY <1>3, <2>1 DEF Linked
  <2>3. PICK k \in Linked :
          /\ k < i /\ jobs[k].state = "good" /\ StepAfter[jobs[k].step] = jobs[i].step
          /\ jobs[k].of = jobs[i].of /\ jobs[k].sha = jobs[i].sha
    BY <2>2 DEF Followed
  <2>4. k \in 1..(i - 1) /\ jobs[k].linked
    BY <1>1, <2>3 DEF Linked
  <2> QED BY <2>3, <2>4
<1> QED BY <1>2, <1>3

\* A new job builds on the one it was decided from, which is good for good.
LEMMA StepsFollowStep ==
  ASSUME Typed, Typed', JobsOfFlow, Beside, PassOfFlow, ReviewsKnown, PassDecided, StepsFollow, JobsMove
  PROVE  StepsFollow'
<1>0. \A i \in Linked : jobs[i].step # "SPEC_REVIEW" => Followed(i)
  BY StepsFollowIs
<1>00. (\A i \in Linked' : jobs'[i].step # "SPEC_REVIEW" => Followed(i)') => StepsFollow'
  <2>1. Typed' => (StepsFollow <=> \A i \in Linked : jobs[i].step # "SPEC_REVIEW" => Followed(i))'
    BY StepsFollowIs, PTL
  <2> QED BY <2>1
<1>1. CASE JobsKept
  <2>0. Linked' = Linked /\ \A i \in Linked : SameRow(i)
    BY <1>1, KeptLinked
  <2>1. ASSUME NEW i \in Linked, jobs'[i].step # "SPEC_REVIEW" PROVE Followed(i)'
    <3>1. Followed(i)
      BY <1>0, <2>0, <2>1 DEF SameRow
    <3> QED BY <2>0, <3>1 DEF Followed, SameRow
  <2> QED BY <1>00, <2>0, <2>1
<1>2. CASE PassQueues
  <2>1. PICK n \in Nat :
          /\ Queued(n, TRUE) /\ pass.at = "dispatch" /\ jobs'[n].step = pass.step
          /\ jobs'[n].sha = pass.sha /\ jobs'[n].of = pass.generation
    BY <1>2 DEF PassQueues
  <2>2. Linked' = Linked \cup {n} /\ \A i \in Linked : jobs'[i] = jobs[i] /\ i < n
    BY <2>1, QueuedLinked
  <2>3. ASSUME NEW i \in Linked, jobs'[i].step # "SPEC_REVIEW" PROVE Followed(i)'
    <3>1. Followed(i)
      BY <1>0, <2>2, <2>3
    <3> QED BY <2>2, <3>1 DEF Followed
  <2>4. ASSUME jobs'[n].step # "SPEC_REVIEW" PROVE Followed(n)'
    <3>1. PICK k \in Linked : BuiltOn(k, pass.step)
      BY <2>1, <2>4, DecidedWellIs DEF DecidedWell, Before
    <3> QED BY <2>1, <2>2, <3>1 DEF BuiltOn, OfPass, Followed
  <2> QED BY <1>00, <2>2, <2>3, <2>4
<1>3. CASE PollQueues
  <2>1. PICK n \in Nat : Queued(n, FALSE)
    BY <1>3 DEF PollQueues
  <2>2. Linked' = Linked /\ \A i \in Linked : jobs'[i] = jobs[i]
    BY <2>1, QueuedBeside
  <2>3. ASSUME NEW i \in Linked, jobs'[i].step # "SPEC_REVIEW" PROVE Followed(i)'
    <3>1. Followed(i)
      BY <1>0, <2>2, <2>3
    <3> QED BY <2>2, <3>1 DEF Followed
  <2> QED BY <1>00, <2>2, <2>3
<1>4. CASE Adopts
  <2>1. PICK u \in DOMAIN jobs :
          /\ u = pass.job /\ pass.at = "adopt" /\ LockLive /\ ~jobs[u].linked
          /\ DOMAIN jobs' = DOMAIN jobs /\ \A k \in DOMAIN jobs : k # u => jobs'[k] = jobs[k]
          /\ jobs'[u].linked /\ jobs'[u].of = pass.generation /\ jobs'[u].sha = pass.sha
          /\ jobs'[u].step = jobs[u].step
    BY <1>4 DEF Adopts
  <2>2. /\ \A k \in Linked : k < u /\ k \in DOMAIN jobs /\ k # u
        /\ jobs[u].step = "REVIEW" /\ pass.step = "REVIEW"
    BY <2>1, AdoptedComesLast DEF Linked
  <2>3. Linked' = Linked \cup {u} /\ \A k \in Linked : jobs'[k] = jobs[k]
    BY <2>1, <2>2 DEF Linked
  <2>4. ASSUME NEW i \in Linked, jobs'[i].step # "SPEC_REVIEW" PROVE Followed(i)'
    <3>1. Followed(i)
      BY <1>0, <2>3, <2>4
    <3> QED BY <2>3, <3>1 DEF Followed
  <2>5. Followed(u)'
    <3>1. PICK k \in Linked : BuiltOn(k, pass.step)
      BY <2>1, <2>2, DecidedWellIs DEF DecidedWell, Before, Claiming
    <3> QED BY <2>1, <2>2, <2>3, <3>1 DEF BuiltOn, OfPass, Followed
  <2> QED BY <1>00, <2>3, <2>4, <2>5
<1> QED BY <1>1, <1>2, <1>3, <1>4 DEF JobsMove

\* A running flow shows a step that it has a job for.
LEMMA StepShownStep ==
  ASSUME Typed, StepShown, FlowMoves, JobsMove
  PROVE  StepShown'
<1>1. SUFFICES ASSUME flow'.state = "RUNNING"
               PROVE  \E i \in DOMAIN jobs' : jobs'[i].linked /\ jobs'[i].step = flow'.step /\ jobs'[i].sha = flow'.sha
  BY DEF StepShown
<1>2. CASE FlowRuns
  BY <1>2 DEF FlowRuns, Linked
<1>3. CASE FlowRests
  <2>1. PICK i \in DOMAIN jobs : jobs[i].linked /\ jobs[i].step = flow.step /\ jobs[i].sha = flow.sha
    BY <1>1, <1>3 DEF FlowRests, StepShown
  <2>2. i \in DOMAIN jobs' /\ jobs'[i].linked /\ jobs'[i].step = jobs[i].step /\ jobs'[i].sha = jobs[i].sha
    BY <2>1 DEF JobsMove, JobsKept, SameRow, PassQueues, PollQueues, Adopts, Queued
  <2> QED BY <1>3, <2>1, <2>2 DEF FlowRests
<1> QED BY <1>1, <1>2, <1>3 DEF FlowMoves, FlowStops, FlowReasks, FlowCarried, FlowStarts, FlowCompletes

-----------------------------------------------------------------------------
(* The reviews of a head *)

\* How the reviews dispatched and the rights to dispatch one move.
NoNewRight   == (PassMay' => PassMay) /\ (PollMay' => PollMay) /\ (HeadOpen' => HeadOpen)
PassExchange == (PollMay' => PollMay) /\ (PassMay \/ HeadOpen) /\ ~(PassMay' /\ HeadOpen')
PollExchange == (PassMay' => PassMay) /\ (PollMay \/ HeadOpen) /\ ~(PollMay' /\ HeadOpen')
PassSpends   == PassMay /\ ~PassMay' /\ (PollMay' => PollMay) /\ (HeadOpen' => HeadOpen)
PollSpends   == PollMay /\ ~PollMay' /\ (PassMay' => PassMay) /\ (HeadOpen' => HeadOpen)
FaultPays    == (PassMay' => PassMay) /\ (PollMay' => PollMay) /\ faults' = faults + 1

\* One more review is queued.
ReviewMore == \E n : n \notin Reviews /\ Reviews' = Reviews \cup {n}

\* What a step may do to the budget: rights are exchanged, spent, or paid for by a fault.
BudgetMoves ==
  \/ Reviews' = Reviews /\ faults' >= faults /\ (NoNewRight \/ PassExchange \/ PollExchange \/ FaultPays)
  \/ ReviewMore /\ faults' = faults /\ (PassSpends \/ PollSpends)

\* Such a step keeps the budget.
LEMMA BudgetStep ==
  ASSUME Typed, Typed', ReviewBudget, BudgetMoves
  PROVE  ReviewBudget'
<1>0. /\ IsFiniteSet(Reviews) /\ faults \in Nat /\ faults' \in Nat
  <2>1. Reviews \subseteq 1..Len(jobs) /\ Len(jobs) \in Nat
    BY DEF Typed, Reviews
  <2>2. IsFiniteSet(Reviews)
    <3>1. IsFiniteSet(1..Len(jobs))
      BY <2>1, FS_Interval
    <3> QED BY <2>1, <3>1, FS_Subset
  <2> QED BY <2>2, BoundsTyped DEF Typed
<1>1. PICK c \in Nat : c = Cardinality(Reviews)
  BY <1>0, FS_CardinalityType
<1>2. c + One(PassMay) + One(PollMay) + One(HeadOpen) <= 1 + faults
  <2>1. One(PassMay) \in Nat /\ One(PollMay) \in Nat /\ One(HeadOpen) \in Nat
    BY DEF One
  <2>2. c + Rights <= 1 + faults
    BY <1>1 DEF ReviewBudget
  <2> QED BY <2>1, <2>2 DEF Rights
<1>3. CASE Reviews' = Reviews /\ faults' >= faults /\ (NoNewRight \/ PassExchange \/ PollExchange \/ FaultPays)
  <2>1. Cardinality(Reviews)' = c
    BY <1>1, <1>3
  <2>2. c + One(PassMay)' + One(PollMay)' + One(HeadOpen)' <= 1 + faults'
    <3>0. /\ One(PassMay) \in {0, 1} /\ One(PollMay) \in {0, 1} /\ One(HeadOpen) \in {0, 1}
          /\ One(PassMay)' \in {0, 1} /\ One(PollMay)' \in {0, 1} /\ One(HeadOpen)' \in {0, 1}
          /\ faults' >= faults
      BY <1>3 DEF One
    <3>1. CASE NoNewRight
      <4>1. /\ One(PassMay)' <= One(PassMay) /\ One(PollMay)' <= One(PollMay)
            /\ One(HeadOpen)' <= One(HeadOpen)
        BY <3>1 DEF One, NoNewRight
      <4> QED BY <1>0, <1>2, <3>0, <4>1
    <3>2. CASE PassExchange
      <4>1. /\ One(PassMay)' + One(HeadOpen)' <= One(PassMay) + One(HeadOpen)
            /\ One(PollMay)' <= One(PollMay)
        BY <3>2 DEF One, PassExchange
      <4> QED BY <1>0, <1>2, <3>0, <4>1
    <3>3. CASE PollExchange
      <4>1. /\ One(PollMay)' + One(HeadOpen)' <= One(PollMay) + One(HeadOpen)
            /\ One(PassMay)' <= One(PassMay)
        BY <3>3 DEF One, PollExchange
      <4> QED BY <1>0, <1>2, <3>0, <4>1
    <3>4. CASE FaultPays
      BY <1>0, <1>2, <1>3, <3>4 DEF One, FaultPays
    <3> QED BY <1>3, <3>1, <3>2, <3>3, <3>4
  <2>3. One(PassMay)' \in Nat /\ One(PollMay)' \in Nat /\ One(HeadOpen)' \in Nat
    BY DEF One
  <2> QED BY <2>1, <2>2, <2>3 DEF ReviewBudget, Rights
<1>4. CASE ReviewMore /\ faults' = faults /\ (PassSpends \/ PollSpends)
  <2>0. PICK n : n \notin Reviews /\ Reviews' = Reviews \cup {n}
    BY <1>4 DEF ReviewMore
  <2>1. Cardinality(Reviews)' = c + 1
    BY <1>0, <1>1, <2>0, FS_AddElement
  <2>2. c + 1 + One(PassMay)' + One(PollMay)' + One(HeadOpen)' <= 1 + faults'
    BY <1>0, <1>2, <1>4 DEF One, PassSpends, PollSpends
  <2>3. One(PassMay)' \in Nat /\ One(PollMay)' \in Nat /\ One(HeadOpen)' \in Nat
    BY DEF One
  <2> QED BY <2>1, <2>2, <2>3 DEF ReviewBudget, Rights
<1> QED BY <1>3, <1>4 DEF BudgetMoves

\* Steps of the flow and of its jobs leave the budget alone.
LEMMA OutsideBudget ==
  ASSUME Typed, JobsMove, \/ UNCHANGED flowVars \/ People \/ Commands \/ Listener \/ Work
  PROVE  BudgetMoves
<1>1. UNCHANGED <<claim, pass, poll, faults>> /\ Reviews' = Reviews
  <2>1. CASE UNCHANGED <<jobs, claim, pass, poll, faults>>
    BY <2>1 DEF Reviews
  <2>2. CASE Work
    <3>1. PICK i \in DOMAIN jobs : CheckOut(i) \/ JobEnds(i) \/ Ingest(i)
      BY <2>2 DEF Work
    <3>2. JobsKept /\ UNCHANGED <<claim, pass, poll, faults>>
      BY <3>1, EndedJobsKept DEF CheckOut, JobEnds, Ingest
    <3> QED BY <3>2 DEF Reviews, JobsKept, SameRow
  <2> QED BY <2>1, <2>2 DEF flowVars, People, Commands, Listener, Stop, Approve, Reject, Start, Publish, Respec
<1>2. NoNewRight
  BY <1>1 DEF NoNewRight, PassMay, PollMay, HeadOpen, PassOwns, PollOwns
<1> QED BY <1>1, <1>2 DEF BudgetMoves, Typed

\* A pass outside its dispatch owns no head.
LEMMA IdlePassBudget ==
  ASSUME Typed, UNCHANGED <<claim, poll, faults>>, Reviews' = Reviews,
         pass.at = "link" /\ pass.step = "REVIEW" => claim.status # "pending" \/ pass.claim # claim.id,
         pass.at = "dispatch" => pass.step # "REVIEW",
         pass'.at \notin {"dispatch", "link"} \/ pass'.step # "REVIEW"
  PROVE  BudgetMoves
<1>1. NoNewRight
  BY DEF NoNewRight, PassMay, PollMay, HeadOpen, PassOwns, PollOwns
<1> QED BY <1>1 DEF BudgetMoves, Typed

\* A claim is a right; who loses it lost the right, and removing one opens the head.
LEMMA ClaimBudget ==
  ASSUME Typed, PassDecided, PassQueued, Look \/ Wait \/ ClaimHead \/ FindHead \/ Retake \/ Reclaim \/ DispatchFails \/ Link
  PROVE  BudgetMoves
<1>0. /\ claim \in Claim /\ pass \in Pass /\ flow \in FlowRow /\ head \in Shas /\ claim.id \in 0..4 /\ claim.job \in Nat
      /\ Idle.at = "idle" /\ Unclaimed.status = "none" /\ FreshClaim \in 0..4
      /\ Pending(FreshClaim).status = "pending" /\ Pending(FreshClaim).id = FreshClaim /\ ~Pending(FreshClaim).old
      /\ FreshClaim # poll.claim /\ faults \in Nat
  BY PendingTyped, FreshClaimFacts, BoundsTyped DEF Typed, Idle, Unclaimed, Claim
<1>01. \A at \in PassPoints : Goes(at) => pass'.at = at /\ pass'.step = pass.step
  BY <1>0, GoesFacts
<1>1. CASE Look
  <2>1. pass'.at = "decide" /\ pass.at = "idle"
    BY <1>0, <1>1, LookFacts DEF Look, At
  <2> QED BY <1>1, <2>1, IdlePassBudget DEF Look, Reviews
<1>2. CASE Wait
  <2>1. pass'.at = "idle" /\ pass.at = "decide"
    BY <1>0, <1>2 DEF Wait, Deciding, Ends, At
  <2> QED BY <1>2, <2>1, IdlePassBudget DEF Wait, Reviews
<1>3. ASSUME pass.at \in {"claim", "reclaim"}, claim.status = "none", claim' = Pending(FreshClaim),
             pass' = [pass EXCEPT !.at = "dispatch", !.claim = FreshClaim], UNCHANGED <<jobs, poll, faults>>
      PROVE  BudgetMoves
  <2>1. pass'.at = "dispatch" /\ pass'.claim = FreshClaim
    BY <1>0, <1>3 DEF Pass
  <2>2. PassExchange
    BY <1>0, <1>3, <2>1 DEF PassExchange, PassMay, PollMay, HeadOpen, PassOwns, PollOwns
  <2> QED BY <1>0, <1>3, <2>2 DEF BudgetMoves, Reviews
<1>4. CASE ClaimHead
  <2>1. CASE Goes("find") /\ UNCHANGED claim
    <3>1. pass'.at = "find" /\ pass.at = "claim"
      BY <1>01, <1>4, <2>1 DEF ClaimHead, At, PassPoints
    <3> QED BY <1>4, <2>1, <3>1, IdlePassBudget DEF ClaimHead, Reviews
  <2> QED BY <1>3, <1>4, <2>1 DEF ClaimHead, At
<1>5. CASE Reclaim
  <2>1. CASE Ends /\ UNCHANGED claim
    <3>1. pass'.at = "idle" /\ pass.at = "reclaim"
      BY <1>0, <1>5, <2>1 DEF Reclaim, Ends, At
    <3> QED BY <1>5, <2>1, <3>1, IdlePassBudget DEF Reclaim, Reviews
  <2> QED BY <1>3, <1>5, <2>1 DEF Reclaim, At
<1>6. CASE FindHead
  <2>1. pass'.at \in {"adopt", "refused", "retake", "idle"} /\ pass.at \in {"find", "findAgain"}
    BY <1>0, <1>01, <1>6, PassTakes, PassClaims DEF FindHead, Found, Ends, At, PassPoints
  <2> QED BY <1>6, <2>1, IdlePassBudget DEF FindHead, Reviews
<1>7. CASE Retake
  <2>1. pass'.at \in {"reclaim", "findAgain"} /\ pass.at = "retake"
    BY <1>01, <1>7 DEF Retake, At, PassPoints
  <2>2. CASE claim' = Unclaimed /\ IsStale
    <3>1. PassExchange
      BY <1>0, <1>7, <2>1, <2>2
         DEF Retake, IsStale, PassExchange, PassMay, PollMay, HeadOpen
    <3> QED BY <1>0, <1>7, <3>1 DEF Retake, BudgetMoves, Reviews
  <2>3. CASE UNCHANGED claim
    BY <1>7, <2>1, <2>3, IdlePassBudget DEF Retake, Reviews
  <2> QED BY <1>7, <2>2, <2>3 DEF Retake
<1>8. CASE DispatchFails
  <2>1. pass'.at \in {"refused", "idle"} /\ pass.at = "dispatch" /\ faults' >= faults /\ UNCHANGED <<jobs, poll>>
    BY <1>0, <1>01, <1>8 DEF DispatchFails, Ends, At, PassPoints
  <2>2. CASE pass.step = "REVIEW" /\ IsStill(pass.claim)
    <3>1. claim' = Unclaimed
      BY <1>8, <2>2 DEF DispatchFails
    <3>2. PassExchange
      BY <1>0, <2>1, <2>2, <3>1 DEF PassExchange, PassMay, PollMay, HeadOpen
    <3> QED BY <2>1, <3>2 DEF BudgetMoves, Reviews
  <2>3. CASE ~(pass.step = "REVIEW" /\ IsStill(pass.claim))
    <3>1. claim' = claim
      BY <1>8, <2>3 DEF DispatchFails
    <3>2. NoNewRight
      BY <1>0, <2>1, <2>3, <3>1 DEF NoNewRight, PassMay, PollMay, HeadOpen, PassOwns, PollOwns, IsStill
    <3> QED BY <2>1, <3>2 DEF BudgetMoves, Reviews
  <2> QED BY <2>2, <2>3
<1>9. CASE Link
  <2>1. pass'.at \in {"record", "idle"} /\ pass.at = "link" /\ UNCHANGED <<jobs, poll, faults>>
    BY <1>0, <1>01, <1>9 DEF Link, Ends, At, PassPoints
  <2>2. CASE IsStill(pass.claim)
    <3>0. pass.job \in Nat
      BY <1>0 DEF Pass
    <3>1. claim'.status = "dispatched" /\ claim'.id = claim.id
      BY <1>0, <1>9, <2>2, <3>0 DEF Link, Claim
    <3>2. NoNewRight
      BY <1>0, <2>1, <2>2, <3>1 DEF NoNewRight, PassMay, PollMay, HeadOpen
    <3> QED BY <1>0, <2>1, <3>2 DEF BudgetMoves, Reviews
  <2>3. CASE ~IsStill(pass.claim)
    <3>1. claim' = claim
      BY <1>9, <2>3 DEF Link
    <3>2. NoNewRight
      BY <1>0, <2>1, <2>3, <3>1 DEF NoNewRight, PassMay, PollMay, HeadOpen, PassOwns, PollOwns, IsStill
    <3> QED BY <1>0, <2>1, <3>2 DEF BudgetMoves, Reviews
  <2> QED BY <2>2, <2>3
<1> QED BY <1>1, <1>2, <1>4, <1>5, <1>6, <1>7, <1>8, <1>9

\* The ends of a pass keep the budget,
LEMMA EndBudget ==
  ASSUME Typed, JobsMove, Recover \/ StopDecided \/ Complete \/ Refused \/ Record \/ Adopt
  PROVE  BudgetMoves
<1>1. pass'.at = "idle" /\ UNCHANGED <<claim, poll, faults>> /\ pass.at \notin {"link", "dispatch"}
  BY DEF Recover, StopDecided, Complete, Refused, Record, Adopt, Deciding, At, Ends, Idle
<1>2. Reviews' = Reviews
  <2>1. ~PassQueues /\ ~PollQueues
    BY <1>1 DEF PassQueues, PollQueues
  <2>2. JobsKept \/ Adopts
    BY <2>1 DEF JobsMove
  <2> QED BY <2>2 DEF Reviews, JobsKept, SameRow, Adopts
<1> QED BY <1>1, <1>2, IdlePassBudget

\* and the decisions, for a review is decided before it is claimed.
LEMMA DecideBudget ==
  ASSUME Typed, NEW step \in FlowSteps, DecideSpec(step) \/ DecideStep(step)
  PROVE  BudgetMoves
<1>0. /\ pass \in Pass /\ flow \in FlowRow /\ UNCHANGED <<jobs, claim, poll, faults>> /\ pass.at = "decide"
      /\ Idle.at = "idle" /\ Reviews' = Reviews
  BY DEF Typed, DecideSpec, DecideStep, Deciding, At, Idle, Reviews
<1>1. pass'.at \notin {"dispatch", "link"} \/ pass'.step # "REVIEW"
  <2>1. CASE Ends
    BY <1>0, <2>1 DEF Ends
  <2>2. ASSUME NEW at \in {"dispatch", "claim"}, at = "dispatch" => step # "REVIEW",
               pass' = [pass EXCEPT !.at = at, !.sha = flow.sha, !.generation = flow.generation, !.step = step]
        PROVE  pass'.at \notin {"dispatch", "link"} \/ pass'.step # "REVIEW"
    <3>1. pass'.at = at /\ pass'.step = step
      BY <1>0, <2>2, PassDecides DEF PassPoints
    <3> QED BY <2>2, <3>1
  <2>3. CASE DecideSpec(step)
    BY <2>1, <2>2, <2>3 DEF DecideSpec
  <2>4. CASE DecideStep(step)
    BY <2>2, <2>4 DEF DecideStep
  <2> QED BY <2>3, <2>4
<1> QED BY <1>0, <1>1, IdlePassBudget

\* A dispatch spends the right of its pass.
LEMMA DispatchBudget ==
  ASSUME Typed, PassOfFlow, PassDecided, Dispatch
  PROVE  BudgetMoves
<1>0. RowsMove /\ UNCHANGED <<claim, poll, faults>> /\ pass \in Pass /\ faults \in Nat
  BY DispatchRows, BoundsTyped DEF Dispatch, Typed
<1>1. PICK n \in Nat :
        /\ Queued(n, TRUE) /\ pass.at = "dispatch" /\ PassStays /\ jobs'[n].step = pass.step
        /\ pass'.at = (IF pass.step = "REVIEW" THEN "link" ELSE "record")
  <2>1. DOMAIN jobs' # DOMAIN jobs /\ poll' = poll /\ pass.at = "dispatch"
    <3>1. PICK linked \in BOOLEAN, step \in FlowSteps : linked /\ step = pass.step /\ Insert(step, linked)
      BY DEF Dispatch, PassDecided, Before, At
    <3>2. Len(jobs') = Len(jobs) + 1 /\ DOMAIN jobs = 1..Len(jobs) /\ DOMAIN jobs' = 1..Len(jobs') /\ pass.at = "dispatch"
      BY <3>1, InsertFields DEF Dispatch, At
    <3>3. Len(jobs) + 1 \in DOMAIN jobs' /\ Len(jobs) + 1 \notin DOMAIN jobs
      BY <3>2 DEF Typed
    <3> QED BY <1>0, <3>2, <3>3
  <2>2. PassQueues
    <3>1. ~JobsKept /\ ~Adopts
      BY <2>1 DEF JobsKept, Adopts
    <3>2. ~PollQueues
      BY <2>1 DEF PollQueues
    <3> QED BY <1>0, <3>1, <3>2 DEF RowsMove, JobsMove
  <2> QED BY <2>2 DEF PassQueues
<1>2. pass'.claim = pass.claim /\ pass'.step = pass.step
  <2>1. PICK at \in PassPoints, i \in Nat : pass' = [pass EXCEPT !.at = at, !.job = i]
    <3>1. Len(jobs) + 1 \in Nat
      BY DEF Typed
    <3> QED BY <3>1 DEF Dispatch, AfterDispatch, PassPoints
  <2> QED BY <1>0, <2>1, PassTakes
<1>3. /\ PollMay' = PollMay
      /\ HeadOpen' => HeadOpen
  BY <1>0, <1>1, <1>2 DEF PollMay, HeadOpen, PassOwns, PollOwns
<1>4. CASE pass.step = "REVIEW"
  <2>1. n \notin Reviews /\ Reviews' = Reviews \cup {n}
    BY <1>1, <1>4 DEF Reviews, Queued
  <2>2. PassSpends
    BY <1>1, <1>3, <1>4 DEF PassSpends, PassMay
  <2> QED BY <1>0, <2>1, <2>2 DEF BudgetMoves, ReviewMore
<1>5. CASE pass.step # "REVIEW"
  <2>1. Reviews' = Reviews
    BY <1>1, <1>5 DEF Reviews, Queued
  <2>2. NoNewRight
    BY <1>1, <1>2, <1>3, <1>5 DEF NoNewRight, PassMay
  <2> QED BY <1>0, <2>1, <2>2 DEF BudgetMoves
<1> QED BY <1>4, <1>5

\* The auto-reviewer's steps.
LEMMA PollBudget ==
  ASSUME Typed, PassOfFlow, Poller \/ Ages \/ Crash
  PROVE  BudgetMoves
<1>0. /\ claim \in Claim /\ poll \in Poll /\ claim.id \in 0..4 /\ faults \in Nat /\ faults >= faults
      /\ Idle.at = "idle" /\ PollIdle.at = "idle" /\ Unclaimed.status = "none" /\ FreshClaim \in 0..4
      /\ Pending(FreshClaim).status = "pending" /\ Pending(FreshClaim).id = FreshClaim /\ ~Pending(FreshClaim).old
      /\ [PollIdle EXCEPT !.at = "insert"].at = "insert"
  BY PendingTyped, FreshClaimFacts, BoundsTyped DEF Typed, Idle, PollIdle, Unclaimed, Claim
<1>1. CASE PollReads
  <2>1. CASE PollGoes("insert")
    <3>1. poll'.at = "insert" /\ poll.at = "idle"
      BY <1>0, <1>1, <2>1 DEF PollReads, PollGoes, Polling, Poll
    <3>2. NoNewRight
      BY <1>1, <3>1 DEF PollReads, NoNewRight, PassMay, PollMay, HeadOpen, PassOwns, PollOwns
    <3> QED BY <1>0, <1>1, <3>2 DEF PollReads, BudgetMoves, Reviews
  <2>2. CASE IsStale /\ poll' = [poll EXCEPT !.at = "reopen", !.claim = claim.id]
    <3>1. poll'.at = "reopen" /\ poll.at = "idle"
      BY <1>0, <1>1, <2>2 DEF PollReads, Polling, Poll
    <3>2. NoNewRight
      BY <1>1, <2>2, <3>1 DEF PollReads, NoNewRight, PassMay, PollMay, HeadOpen, IsStale
    <3> QED BY <1>0, <1>1, <3>2 DEF PollReads, BudgetMoves, Reviews
  <2> QED BY <1>1, <2>1, <2>2 DEF PollReads
<1>2. CASE PollReopens
  <2>1. poll'.at = "insert" /\ poll.at = "reopen"
    BY <1>0, <1>2 DEF PollReopens, Polling
  <2>2. NoNewRight
    <3>1. CASE IsStill(poll.claim)
      BY <1>0, <1>2, <2>1, <3>1 DEF PollReopens, NoNewRight, PassMay, PollMay, HeadOpen, IsStill
    <3>2. CASE ~IsStill(poll.claim)
      BY <1>0, <1>2, <2>1, <3>2
         DEF PollReopens, NoNewRight, PassMay, PollMay, HeadOpen, PassOwns, PollOwns, IsStill
    <3> QED BY <3>1, <3>2
  <2> QED BY <1>0, <1>2, <2>2 DEF PollReopens, BudgetMoves, Reviews
<1>3. CASE PollInserts
  <2>1. CASE claim.status = "none"
    <3>1. claim' = Pending(FreshClaim) /\ poll' = [poll EXCEPT !.at = "dispatch", !.claim = FreshClaim]
      BY <1>3, <2>1 DEF PollInserts
    <3>2. poll'.at = "dispatch" /\ poll'.claim = FreshClaim
      BY <1>0, <3>1 DEF Poll
    <3>3. PollExchange
      BY <1>0, <1>3, <2>1, <3>1, <3>2 DEF PollInserts, PollExchange, PassMay, PollMay, HeadOpen, PollOwns
    <3> QED BY <1>0, <1>3, <3>3 DEF PollInserts, BudgetMoves, Reviews
  <2>2. CASE claim.status # "none"
    <3>1. poll'.at = "idle" /\ poll.at = "insert" /\ claim' = claim
      BY <1>0, <1>3, <2>2 DEF PollInserts, Polling
    <3>2. NoNewRight
      BY <1>3, <3>1 DEF PollInserts, NoNewRight, PassMay, PollMay, HeadOpen, PassOwns, PollOwns
    <3> QED BY <1>0, <1>3, <3>2 DEF PollInserts, BudgetMoves, Reviews
  <2> QED BY <2>1, <2>2
<1>4. CASE PollGivesUp
  <2>1. poll'.at = "release" /\ poll.at = "dispatch" /\ poll'.claim = poll.claim
    BY <1>0, <1>4 DEF PollGivesUp, PollGoes, Polling, Poll
  <2>2. NoNewRight
    BY <1>4, <2>1 DEF PollGivesUp, NoNewRight, PassMay, PollMay, HeadOpen, PassOwns, PollOwns
  <2> QED BY <1>0, <1>4, <2>2 DEF PollGivesUp, BudgetMoves, Reviews
<1>5. CASE PollMarks
  <2>1. poll'.at = "idle" /\ poll.at \in {"release", "fail", "mark"} /\ UNCHANGED <<jobs, pass, faults>>
    BY <1>0, <1>5 DEF PollMarks, Polling
  <2>2. CASE ~IsStill(poll.claim)
    <3>1. claim' = claim
      BY <1>5, <2>2 DEF PollMarks
    <3>2. NoNewRight
      BY <2>1, <2>2, <3>1 DEF NoNewRight, PassMay, PollMay, HeadOpen, PassOwns, PollOwns, IsStill
    <3> QED BY <1>0, <2>1, <3>2 DEF BudgetMoves, Reviews
  <2>3. CASE IsStill(poll.claim) /\ poll.at = "release"
    <3>1. claim' = Unclaimed
      BY <1>5, <2>3 DEF PollMarks, Polling
    <3>2. PollExchange
      BY <1>0, <2>1, <2>3, <3>1 DEF PollExchange, PassMay, PollMay, HeadOpen
    <3> QED BY <1>0, <2>1, <3>2 DEF BudgetMoves, Reviews
  <2>4. CASE IsStill(poll.claim) /\ poll.at # "release"
    <3>0. poll.job \in Nat
      BY <1>0 DEF Poll
    <3>1. claim'.status \in {"failed", "dispatched"}
      BY <1>0, <1>5, <2>4, <3>0 DEF PollMarks, Polling, Claim
    <3>2. NoNewRight
      BY <2>1, <3>1 DEF NoNewRight, PassMay, PollMay, HeadOpen
    <3> QED BY <1>0, <2>1, <3>2 DEF BudgetMoves, Reviews
  <2> QED BY <2>2, <2>3, <2>4
<1>6. CASE Ages
  <2>0. UNCHANGED <<jobs, pass, poll>> /\ claim.status = "pending" /\ ~claim.old /\ claim.old \in BOOLEAN
    BY <1>0, <1>6 DEF Ages, Claim
  <2>1. CASE claim.id \in {pass.claim, poll.claim}
    <3>1. FaultPays
      BY <1>6, <2>0, <2>1 DEF Ages, FaultPays, PassMay, PollMay
    <3>2. faults' >= faults
      BY <1>0, <3>1 DEF FaultPays
    <3> QED BY <2>0, <3>1, <3>2 DEF BudgetMoves, Reviews
  <2>2. CASE claim.id \notin {pass.claim, poll.claim}
    <3>1. NoNewRight /\ faults' = faults
      BY <1>6, <2>0, <2>2 DEF Ages, NoNewRight, PassMay, PollMay, HeadOpen, PassOwns, PollOwns
    <3> QED BY <1>0, <2>0, <3>1 DEF BudgetMoves, Reviews
  <2> QED BY <2>1, <2>2
<1>7. CASE Crash
  <2>1. FaultPays
    BY <1>0, <1>7 DEF Crash, FaultPays, PassMay, PollMay
  <2>2. faults' >= faults
    BY <1>0, <2>1 DEF FaultPays
  <2> QED BY <1>7, <2>1, <2>2 DEF Crash, BudgetMoves, Reviews
<1>8. CASE PollDispatches
  <2>0. poll.at = "dispatch" /\ UNCHANGED <<claim, pass, faults>>
    BY <1>8 DEF PollDispatches, Polling
  <2>1. CASE Insert("REVIEW", FALSE) /\ poll' = [poll EXCEPT !.at = "mark", !.job = Len(jobs) + 1]
    <3>1. /\ Len(jobs') = Len(jobs) + 1 /\ DOMAIN jobs = 1..Len(jobs) /\ DOMAIN jobs' = 1..Len(jobs')
          /\ \A i \in DOMAIN jobs : jobs'[i] = jobs[i]
          /\ jobs'[Len(jobs')].step = "REVIEW"
      <4>1. PICK linked \in BOOLEAN, step \in FlowSteps : ~linked /\ step = "REVIEW" /\ Insert(step, linked)
        BY <2>1 DEF FlowSteps
      <4> QED BY <4>1, InsertFields
    <3>2. PICK n \in Nat : n = Len(jobs) + 1
      BY DEF Typed
    <3>3. n \notin DOMAIN jobs /\ DOMAIN jobs' = DOMAIN jobs \cup {n}
      BY <3>1, <3>2 DEF Typed
    <3>4. n \notin Reviews /\ Reviews' = Reviews \cup {n}
      BY <3>1, <3>2, <3>3 DEF Reviews
    <3>5. poll'.at = "mark" /\ poll'.claim = poll.claim
      BY <1>0, <2>1, <3>2 DEF Poll
    <3>6. PollSpends
      BY <2>0, <3>5 DEF PollSpends, PassMay, PollMay, HeadOpen, PassOwns, PollOwns
    <3> QED BY <2>0, <3>4, <3>6 DEF BudgetMoves, ReviewMore
  <2>2. CASE PollGoes("fail") /\ UNCHANGED jobs
    <3>1. poll'.at = "fail" /\ poll'.claim = poll.claim
      BY <1>0, <2>2 DEF PollGoes, Poll
    <3>2. NoNewRight
      BY <2>0, <3>1 DEF NoNewRight, PassMay, PollMay, HeadOpen, PassOwns, PollOwns
    <3> QED BY <1>0, <2>0, <2>2, <3>2 DEF BudgetMoves, Reviews
  <2> QED BY <1>8, <2>1, <2>2 DEF PollDispatches
<1> QED BY <1>1, <1>2, <1>3, <1>4, <1>5, <1>6, <1>7, <1>8 DEF Poller

\* Every step keeps to the budget.
LEMMA FlowNextKeepsBudget ==
  ASSUME Typed, PassOfFlow, ReviewsKnown, PassDecided, PassQueued, [FlowNext]_flowVars
  PROVE  BudgetMoves
<1>0. JobsMove
  BY FlowNextMovesRows DEF RowsMove
<1>1. CASE UNCHANGED flowVars \/ People \/ Commands \/ Listener \/ Work
  BY <1>0, <1>1, OutsideBudget
<1>2. CASE Poller \/ Ages \/ Crash
  BY <1>2, PollBudget
<1>3. CASE Ticker
  <2>1. CASE Decided
    BY <1>0, <2>1, ClaimBudget, EndBudget, DecideBudget DEF Decided
  <2>2. CASE ~Decided
    BY <1>0, <1>3, <2>2, ClaimBudget, EndBudget, DispatchBudget DEF Ticker
  <2> QED BY <2>1, <2>2
<1> QED BY <1>1, <1>2, <1>3 DEF FlowNext

-----------------------------------------------------------------------------
(* The names of jobs *)

\* Passes name jobs that are there.
LEMMA NamedStep ==
  ASSUME Typed, ReviewsKnown, Named, PassOfFlow, PassDecided, [FlowNext]_flowVars, JobsMove
  PROVE  Named'
<1>0. /\ claim \in Claim /\ pass \in Pass /\ poll \in Poll /\ flow \in FlowRow /\ head \in Shas
      /\ claim.id \in 0..4 /\ claim.job \in Nat /\ FreshClaim \in 0..4
      /\ Idle.job = NoJob /\ PollIdle.job = NoJob /\ [PollIdle EXCEPT !.at = "insert"].job = NoJob
      /\ DOMAIN jobs \subseteq DOMAIN jobs' /\ claim.job \in DOMAIN jobs \cup {NoJob}
  <2>1. DOMAIN jobs \subseteq DOMAIN jobs'
    BY JobsStay
  <2> QED BY <2>1, FreshClaimFacts DEF Typed, Idle, PollIdle, Claim, ReviewsKnown
<1>01. \A at \in PassPoints : Goes(at) => pass'.job = pass.job
  BY <1>0, GoesFacts
<1>02. \A linked \in BOOLEAN, step \in FlowSteps :
         Insert(step, linked) /\ (linked => pass.at # "idle") => Len(jobs) + 1 \in DOMAIN jobs'
  <2>1. ASSUME NEW linked \in BOOLEAN, NEW step \in FlowSteps, Insert(step, linked), linked => pass.at # "idle"
        PROVE  Len(jobs) + 1 \in DOMAIN jobs'
    <3>1. Len(jobs') = Len(jobs) + 1 /\ DOMAIN jobs' = 1..Len(jobs') /\ Len(jobs) \in Nat
      BY <2>1, InsertFields DEF Typed
    <3> QED BY <3>1
  <2> QED BY <2>1
<1>1. ASSUME pass'.job = pass.job \/ pass'.job = claim.job \/ pass'.job = NoJob, poll'.job = poll.job \/ poll'.job = NoJob
      PROVE  Named'
  BY <1>0, <1>1 DEF Named
<1>2. CASE UNCHANGED flowVars \/ People \/ Commands \/ Listener \/ Work \/ Crash \/ Ages
  BY <1>0, <1>1, <1>2 DEF flowVars, People, Commands, Listener, Work, Crash, Ages, Stop, Approve, Reject, Start,
     Publish, Respec, CheckOut, JobEnds, Ingest
<1>3. CASE PollReads \/ PollReopens \/ PollInserts \/ PollGivesUp \/ PollMarks
  <2>1. poll'.job = poll.job \/ poll'.job = NoJob
    BY <1>0, <1>3 DEF PollReads, PollReopens, PollInserts, PollGivesUp, PollMarks, PollGoes, Poll
  <2> QED BY <1>1, <1>3, <2>1 DEF PollReads, PollReopens, PollInserts, PollGivesUp, PollMarks
<1>4. CASE PollDispatches
  <2>1. CASE Insert("REVIEW", FALSE) /\ poll' = [poll EXCEPT !.at = "mark", !.job = Len(jobs) + 1]
    <3>1. Len(jobs) + 1 \in DOMAIN jobs'
      <4>1. PICK linked \in BOOLEAN, step \in FlowSteps : ~linked /\ step = "REVIEW" /\ Insert(step, linked)
        BY <2>1 DEF FlowSteps
      <4> QED BY <1>02, <4>1
    <3>2. poll'.job = Len(jobs) + 1
      BY <1>0, <2>1 DEF Poll
    <3> QED BY <1>0, <1>4, <3>1, <3>2 DEF PollDispatches, Named
  <2>2. CASE PollGoes("fail") /\ UNCHANGED jobs
    <3>1. poll'.job = poll.job
      BY <1>0, <2>2 DEF PollGoes, Poll
    <3> QED BY <1>1, <1>4, <3>1 DEF PollDispatches
  <2> QED BY <1>4, <2>1, <2>2 DEF PollDispatches
<1>5. CASE Decided
  <2>1. poll' = poll
    BY <1>5 DEF Decided, Recover, Wait, StopDecided, Complete, DecideSpec, DecideStep
  <2>2. pass'.job = pass.job \/ pass'.job = NoJob
    <3>1. CASE Ends
      BY <1>0, <3>1 DEF Ends
    <3>2. CASE ~Ends
      <4>1. PICK step \in FlowSteps, at \in PassPoints :
              pass' = [pass EXCEPT !.at = at, !.sha = flow.sha, !.generation = flow.generation, !.step = step]
        BY <1>5, <3>2 DEF Decided, Recover, Wait, StopDecided, Complete, DecideSpec, DecideStep, PassPoints
      <4> QED BY <1>0, <4>1, PassDecides
    <3> QED BY <3>1, <3>2
  <2> QED BY <1>1, <2>1, <2>2
<1>6. CASE Look \/ ClaimHead \/ FindHead \/ Retake \/ Reclaim \/ DispatchFails \/ Link
  <2>1. poll' = poll
    BY <1>6 DEF Look, ClaimHead, FindHead, Retake, Reclaim, DispatchFails, Link
  <2>2. CASE Look
    BY <1>0, <1>1, <2>1, <2>2, LookFacts
  <2>3. CASE ClaimHead \/ Reclaim
    <3>1. pass'.job = pass.job \/ pass'.job = NoJob
      BY <1>0, <1>01, <2>3, PassClaims DEF ClaimHead, Reclaim, Ends, PassPoints
    <3> QED BY <1>1, <2>1, <3>1
  <2>4. CASE FindHead
    <3>1. pass'.job = pass.job \/ pass'.job = NoJob \/ pass'.job = claim.job
      BY <1>0, <1>01, <2>4, PassTakes, PassClaims DEF FindHead, Found, Ends, PassPoints
    <3> QED BY <1>1, <2>1, <3>1
  <2>5. CASE Retake \/ DispatchFails \/ Link
    <3>1. pass'.job = pass.job \/ pass'.job = NoJob
      BY <1>0, <1>01, <2>5 DEF Retake, DispatchFails, Link, Ends, PassPoints
    <3> QED BY <1>1, <2>1, <3>1
  <2> QED BY <1>6, <2>2, <2>3, <2>4, <2>5
<1>7. CASE Refused \/ Record \/ Adopt
  BY <1>0, <1>1, <1>7 DEF Refused, Record, Adopt, Ends
<1>8. CASE Dispatch
  <2>1. Len(jobs) + 1 \in DOMAIN jobs'
    <3>1. PICK linked \in BOOLEAN, step \in FlowSteps : linked /\ step = pass.step /\ Insert(step, linked)
      BY <1>8 DEF Dispatch, PassDecided, Before, At
    <3>2. pass.at # "idle"
      BY <1>8 DEF Dispatch, At
    <3> QED BY <1>02, <3>1, <3>2
  <2>2. pass'.job = Len(jobs) + 1
    BY <1>0, <1>8 DEF Dispatch, AfterDispatch, Pass
  <2> QED BY <1>0, <1>8, <2>1, <2>2 DEF Dispatch, Named
<1> QED BY <1>2, <1>3, <1>4, <1>5, <1>6, <1>7, <1>8 DEF FlowNext, Ticker, Poller

-----------------------------------------------------------------------------
(* The theorems *)

\* The initial states are well-typed,
LEMMA InitTyped ==
  ASSUME FlowInit
  PROVE  Typed
<1>0. 1 \in Shas /\ MaxFaults \in Nat /\ Idle \in Pass /\ PollIdle \in Poll /\ Unclaimed \in Claim /\ AskIds = Shas
  BY BoundsTyped, IdlesTyped DEF AskIds, Shas
<1>1. flow \in FlowRow
  <2>1. ASSUME NEW entry \in Entries
        PROVE  NewFlow(entry) \in FlowRow
               /\ [NewFlow(entry) EXCEPT !.state = "APPROVED", !.generation = 1, !.ask = NoAsk] \in FlowRow
    <3>1. NewFlow(entry) \in FlowRow
      BY <1>0 DEF NewFlow, FlowRow, FlowStates, Transitions
    <3>2. "APPROVED" \in FlowStates
      BY DEF FlowStates, Transitions
    <3> QED BY <3>1, <3>2 DEF FlowRow
  <2> QED BY <2>1 DEF FlowInit
<1>2. asks \in [AskIds -> AskRow]
  <2>1. ASSUME NEW a \in AskIds PROVE asks[a] \in AskRow
    BY <1>0 DEF FlowInit, AskRow, NoSha
  <2>2. asks = [a \in AskIds |-> asks[a]]
    BY DEF FlowInit
  <2> QED BY <2>1, <2>2
<1>3. /\ head \in Shas /\ content \in [Shas -> Shas] /\ events \subseteq Event
      /\ jobs \in Seq(JobRow) /\ claim \in Claim /\ pass \in Pass /\ poll \in Poll /\ faults \in 0..MaxFaults
  BY <1>0 DEF FlowInit
<1> QED BY <1>1, <1>2, <1>3 DEF Typed

\* and have the invariant,
LEMMA FlowStarted ==
  ASSUME FlowInit
  PROVE  FlowInv
<1>0. /\ Typed /\ jobs = <<>> /\ pass.at = "idle" /\ poll.at = "idle" /\ pass.job = NoJob /\ poll.job = NoJob
      /\ claim.job = NoJob /\ faults = 0 /\ Linked = {} /\ Reviews = {} /\ DOMAIN jobs = {}
  BY InitTyped DEF FlowInit, Idle, PollIdle, Unclaimed, Linked, Reviews
<1>1. flow.state \in {"PENDING", "APPROVED"} /\ flow.sha = 1
  <2>1. PICK entry \in Entries \cup {"THREAD"} :
          flow \in {NewFlow(entry),
                    [NewFlow(entry) EXCEPT !.state = "APPROVED", !.generation = 1, !.ask = NoAsk]}
    BY DEF FlowInit
  <2>2. CASE flow = NewFlow(entry)
    BY <2>2 DEF NewFlow
  <2>3. CASE flow = [NewFlow(entry) EXCEPT !.state = "APPROVED", !.generation = 1, !.ask = NoAsk]
    BY <2>3 DEF NewFlow
  <2> QED BY <2>1, <2>2, <2>3
<1>2. Published /\ SpecApproved /\ Approvals
  BY <1>0, <1>1, BoundsTyped DEF FlowInit, Published, SpecApproved, Approvals
<1>3. JobsOfFlow /\ InOrder /\ Beside /\ ReviewsKnown /\ Named /\ PassOfFlow /\ PassDecided /\ PassQueued
  BY <1>0, <1>1 DEF JobsOfFlow, InOrder, Beside, ReviewsKnown, Named, PassOfFlow, PassDecided, PassQueued,
     Before, Claiming
<1>4. StepsFollow /\ StepShown
  BY <1>0, <1>1 DEF StepsFollow, StepShown
<1>5. ReviewBudget
  <2>1. Cardinality(Reviews) = 0
    BY <1>0, FS_EmptySet
  <2>2. Rights <= 1
    BY <1>0 DEF Rights, One, PassMay, PollMay
  <2>3. Rights \in Nat
    BY DEF Rights, One
  <2> QED BY <1>0, <2>1, <2>2, <2>3 DEF ReviewBudget
<1> QED BY <1>0, <1>2, <1>3, <1>4, <1>5 DEF FlowInv

\* which every step keeps.
LEMMA FlowStepKeeps ==
  ASSUME FlowInv, [FlowNext]_flowVars
  PROVE  FlowInv'
<1>0. /\ Typed /\ Published /\ SpecApproved /\ Approvals
      /\ JobsOfFlow /\ InOrder /\ Beside /\ ReviewsKnown /\ Named /\ PassOfFlow /\ PassDecided /\ PassQueued
      /\ StepsFollow /\ StepShown /\ ReviewBudget
  BY DEF FlowInv
<1>1. Typed'
  BY <1>0, TypedStep
<1>2. FlowMoves
  BY <1>0, FlowNextMovesFlow
<1>3. RowsMove /\ JobsMove /\ PassMoves
  BY <1>0, FlowNextMovesRows DEF RowsMove
<1>4. Published'
  <2>1. pass'.at = "decide" => pass' = pass \/ pass'.head \in {NoSha, head}
    BY <1>3 DEF PassMoves, PassLooks, PassChooses, PassGoesOn, PassLinks, PassQueues, Before, Claiming
  <2> QED BY <1>0, <1>1, <1>2, <2>1, PublishedStep
<1>5. SpecApproved' /\ Approvals'
  BY <1>0, <1>2, <1>3, SpecApprovedStep, ApprovalsStep
<1>6. JobsOfFlow' /\ InOrder' /\ Beside'
  BY <1>0, <1>1, <1>2, <1>3, JobsOfFlowStep, InOrderStep, BesideStep
<1>7. ReviewsKnown' /\ Named'
  BY <1>0, <1>3, ReviewsKnownStep, NamedStep
<1>8. PassOfFlow' /\ PassDecided' /\ PassQueued'
  BY <1>0, <1>1, <1>2, <1>3, PassOfFlowStep, PassDecidedStep, PassQueuedStep
<1>9. StepsFollow' /\ StepShown'
  BY <1>0, <1>1, <1>2, <1>3, StepsFollowStep, StepShownStep
<1>10. ReviewBudget'
  BY <1>0, <1>1, FlowNextKeepsBudget, BudgetStep
<1> QED BY <1>1, <1>4, <1>5, <1>6, <1>7, <1>8, <1>9, <1>10 DEF FlowInv

\* Every state that a flow reaches has the invariant.
THEOREM FlowInvariance == FlowSpec => []FlowInv
  BY FlowStarted, FlowStepKeeps, PTL DEF FlowSpec

\* Every state is well-typed, and claims and passes name jobs that are there.
THEOREM FlowTypes == FlowSpec => []FlowTypeOK
<1>1. FlowInv => FlowTypeOK
  BY DEF FlowInv, Typed, ReviewsKnown, Named, FlowTypeOK, Event, Claim
<1> QED BY <1>1, FlowInvariance, PTL

\* The spec that a live flow records, and the one each of its jobs under the present
\* approval was dispatched for, have the content of its last approval, however
\* publications, commands and passes interleave (respec, currentPending, lockLive).
\* What a PLAN finds on the branch is not spoken of: PlansApproved does not hold.
THEOREM FlowSpecApproved == FlowSpec => []SpecApproved
<1>1. FlowInv => SpecApproved
  BY DEF FlowInv
<1> QED BY <1>1, FlowInvariance, PTL

\* Every step is built on the good end of the step before, dispatched under one approval
\* and for one spec (decideFlowStep, lockLive).
THEOREM FlowStepsFollow == FlowSpec => []StepsFollow
<1>1. FlowInv => StepsFollow
  BY DEF FlowInv
<1> QED BY <1>1, FlowInvariance, PTL

\* The step that a running flow shows is one it has a job for (recordStep).
THEOREM FlowStepShown == FlowSpec => []StepShown
<1>1. FlowInv => StepShown
  BY DEF FlowInv
<1> QED BY <1>1, FlowInvariance, PTL

\* No step is dispatched twice under one approval and for one spec (decide, recordStep).
THEOREM FlowStepOnce == FlowSpec => []StepOnce
<1>1. ASSUME FlowInv PROVE StepOnce
  <2>1. SUFFICES ASSUME NEW i \in DOMAIN jobs, NEW k \in DOMAIN jobs, i < k,
                        jobs[i].linked, jobs[k].linked, jobs[i].step = jobs[k].step,
                        jobs[i].of = jobs[k].of, jobs[i].sha = jobs[k].sha
                 PROVE  FALSE
    <3>1. \A i \in DOMAIN jobs : i \in Nat
      BY <1>1, LinkedFacts DEF FlowInv
    <3> QED BY <3>1 DEF StepOnce
  <2>2. RankOf(i) < RankOf(k)
    BY <1>1, <2>1 DEF FlowInv, InOrder, Linked, SameKey
  <2>3. RankOf(i) = RankOf(k) /\ RankOf(i) \in 1..6
    BY <1>1, <2>1, LinkedFacts DEF RankOf, FlowInv
  <2> QED BY <2>2, <2>3
<1> QED BY <1>1, FlowInvariance, PTL

\* A head is reviewed once, and once more for each fault at most (claimHead, insertPending).
THEOREM FlowReviewedOnce == FlowSpec => []ReviewedOnce
<1>1. ASSUME FlowInv PROVE ReviewedOnce
  <2>1. IsFiniteSet(Reviews)
    <3>1. Reviews \subseteq 1..Len(jobs) /\ Len(jobs) \in Nat
      BY <1>1 DEF FlowInv, Typed, Reviews
    <3>2. IsFiniteSet(1..Len(jobs))
      BY <3>1, FS_Interval
    <3> QED BY <3>1, <3>2, FS_Subset
  <2>2. Cardinality(Reviews) \in Nat /\ Rights \in Nat /\ faults \in Nat
    BY <1>1, <2>1, FS_CardinalityType, BoundsTyped DEF Rights, One, FlowInv, Typed
  <2>3. Cardinality(Reviews) + Rights <= 1 + faults
    BY <1>1 DEF FlowInv, ReviewBudget
  <2> QED BY <2>2, <2>3 DEF ReviewedOnce, Reviews
<1> QED BY <1>1, FlowInvariance, PTL

\* No write of a flow's state goes against flow-states.ts.
THEOREM FlowStatesFollowTable == FlowSpec => StatesFollowTable
<1>1. ASSUME FlowInv, [FlowNext]_flowVars
      PROVE  [flow'.state # flow.state => flow'.state \in Transitions[flow.state]]_flowVars
  <2>1. FlowMoves
    BY <1>1, FlowNextMovesFlow DEF FlowInv
  <2> QED BY <1>1, <2>1, TableStep DEF FlowInv
<1> QED BY <1>1, FlowInvariance, PTL DEF FlowSpec, StatesFollowTable
==============================================================================
