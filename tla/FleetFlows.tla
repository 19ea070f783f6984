------------------------------ MODULE FleetFlows ------------------------------
(***************************************************************************)
(* A flow takes one feature from its spec to a reviewed pull request: each *)
(* pass of a ticker decides the next step from the flow and its latest job *)
(* under the locks, dispatches outside them, and records under them again. *)
(* Meanwhile people approve, reject and stop, the spec is published anew   *)
(* and approval asked again, jobs end, and the auto-reviewer may claim the *)
(* very head the flow wants reviewed.                                      *)
(*                                                                         *)
(* A transaction that holds the flow's lock is one step, and so is every   *)
(* statement outside one.  Jobs are dispatched, run and ingested elsewhere:*)
(* here they are active, then good or bad for the next step.  The ticker   *)
(* and the poller are single-flight in one API process, which may die.     *)
(***************************************************************************)
EXTENDS Integers, Sequences, FiniteSets

CONSTANTS
  Entries,      \* {"THREAD", "NAX"}: where a flow's spec may be published
  MaxShas,      \* publications, a bound of the model
  MaxFaults     \* crashes, and claims that go stale under a live pass: a bound

ASSUME EntryAssumption == Entries \subseteq {"THREAD", "NAX"}
ASSUME FlowBoundAssumption == MaxShas \in Nat \ {0} /\ MaxFaults \in Nat

Shas == 1..MaxShas
AskIds == 1..MaxShas    \* approval is asked again for a newer spec only
NoSha == 0
NoAsk == 0
NoJob == 0
NoClaim == 0

VARIABLES
  head,      \* what is published: the thread's publishedSha, or the branch's head
  content,   \* [Shas -> the publication whose spec files it has]
  events,    \* publications on their way to the listener
  flow,      \* the FleetFlow row and its feature's
  asks,      \* the start requests opened for it
  jobs,      \* FleetJob rows in the order they were queued
  claim,     \* the FleetPrReview row of the head that RUN pushed
  pass,      \* the flow ticker's pass
  poll,      \* the auto-reviewer's pass
  faults,    \* history
  approved   \* history: the content of the last approval

outside == <<head, content, events>>
flowVars == <<outside, flow, asks, jobs, claim, pass, poll, faults, approved>>

-----------------------------------------------------------------------------
FlowSteps == {"SPEC_REVIEW", "PLAN", "PRD_REVIEW", "RUN", "REVIEW", "FIX"}
StepAfter == [SPEC_REVIEW |-> "PLAN", PLAN |-> "PRD_REVIEW", PRD_REVIEW |-> "RUN",
              RUN |-> "REVIEW", REVIEW |-> "FIX"]

\* transitions: the table of flow-states.ts, for the states flows reach.
Transitions == [PENDING   |-> {"APPROVED", "STOPPED", "PENDING"},
                APPROVED  |-> {"RUNNING", "PENDING", "STOPPED"},
                RUNNING   |-> {"COMPLETED", "STOPPED", "PENDING"},
                COMPLETED |-> {}, STOPPED |-> {}]
FlowStates == DOMAIN Transitions

\* generation: approvedAt, as the number of approvals so far; step: currentStep.
FlowRow == [entry: Entries, state: FlowStates, sha: Shas, generation: Nat, ask: AskIds \cup {NoAsk},
            step: FlowSteps \cup {"none"}]

\* opened: "closed" stands for cancelled, rejected, and executed.
AskRow == [sha: Shas \cup {NoSha}, status: {"none", "pending", "approved", "closed"}]

\* sha: the spec it was dispatched for, which is the ref of a SPEC_REVIEW; reads: what
\* a PLAN checked out, whose ref is the branch.  since: approvals given before it was
\* queued; of: the approval it was decided under.  A RUN that ended waits for its ingest.
JobRow == [step: FlowSteps, sha: Shas, reads: Shas \cup {NoSha}, since: Nat, of: Nat,
           linked: BOOLEAN, state: {"active", "ended", "good", "bad"}]

\* The steps that share a feature share the index of active jobs.
OnPr(step) == step \in {"REVIEW", "FIX"}
Busy(step) == \E i \in DOMAIN jobs : jobs[i].state = "active" /\ (OnPr(jobs[i].step) <=> OnPr(step))

Idle == [at |-> "idle", sha |-> NoSha, generation |-> 0, head |-> NoSha, step |-> "none",
         job |-> NoJob, claim |-> NoClaim]
PollIdle == [at |-> "idle", job |-> NoJob, claim |-> NoClaim]
Unclaimed == [status |-> "none", id |-> NoClaim, job |-> NoJob, old |-> FALSE]

Live == flow.state \in {"APPROVED", "RUNNING"}

At(step) == pass.at = step
Goes(step) == pass' = [pass EXCEPT !.at = step]
Ends == pass' = Idle

-----------------------------------------------------------------------------
(* People and publications *)

NextAsk(a) == asks[a].status = "none" /\ \A b \in AskIds : b < a => asks[b].status # "none"

\* A request that a decision holds is not closed: SKIP LOCKED.
Closings(a) ==
  IF a # NoAsk /\ asks[a].status = "pending"
  THEN {asks, [asks EXCEPT ![a].status = "closed"]}
  ELSE {asks}

\* reaskLocked: a new request, and the old approval is gone.
Reask(sha) ==
  \E a \in AskIds, closed \in Closings(flow.ask) :
    /\ NextAsk(a)
    /\ asks' = [closed EXCEPT ![a] = [sha |-> sha, status |-> "pending"]]
    /\ flow' = [flow EXCEPT !.state = "PENDING", !.sha = sha, !.ask = a, !.step = "none"]

Stopped == [flow EXCEPT !.state = "STOPPED"]
CanStop == "STOPPED" \in Transitions[flow.state]

Stop ==
  /\ CanStop
  /\ flow' = Stopped
  /\ asks' \in Closings(flow.ask)
  /\ UNCHANGED <<outside, jobs, claim, pass, poll, faults, approved>>

\* The decision and the command are transactions of their own.
Approve(a) ==
  /\ asks[a].status = "pending"
  /\ asks' = [asks EXCEPT ![a].status = "approved"]
  /\ UNCHANGED <<outside, flow, jobs, claim, pass, poll, faults, approved>>

\* mutant: any request will do that was asked for the flow.
CurrentPendingOfAny(a) == flow.state = "PENDING"

CurrentPending(a) == flow.state = "PENDING" /\ flow.ask = a /\ flow.sha = asks[a].sha

Start(a) ==
  /\ asks[a].status = "approved"
  /\ asks' = [asks EXCEPT ![a].status = "closed"]
  /\ IF CurrentPending(a)
     THEN /\ flow' = [flow EXCEPT !.state = "APPROVED", !.generation = @ + 1]
          /\ approved' = content[asks[a].sha]
     ELSE UNCHANGED <<flow, approved>>
  /\ UNCHANGED <<outside, jobs, claim, pass, poll, faults>>

Reject(a) ==
  /\ asks[a].status = "pending"
  /\ asks' = [asks EXCEPT ![a].status = "closed"]
  /\ flow' = IF CurrentPending(a) THEN Stopped ELSE flow
  /\ UNCHANGED <<outside, jobs, claim, pass, poll, faults, approved>>

\* A publication of the thread tells of its paths; a push to a branch of nothing.
Publish(touches) ==
  /\ head < MaxShas
  /\ head' = head + 1
  /\ content' = [content EXCEPT ![head + 1] = IF touches THEN head + 1 ELSE content[head]]
  /\ events' = IF flow.entry = "THREAD"
               THEN events \cup {[sha |-> head + 1, previous |-> head, touches |-> touches]}
               ELSE events
  /\ flow.entry = "NAX" => touches
  /\ UNCHANGED <<flow, asks, jobs, claim, pass, poll, faults, approved>>

\* Carrying an approval on is safe only from the publication just before.
AsksAgain(e) == flow.state = "PENDING" \/ e.previous # flow.sha \/ e.touches

Respec(e) ==
  /\ e \in events /\ events' = events \ {e}
  /\ IF e.sha # head \/ e.sha = flow.sha \/ flow.state \notin {"PENDING", "APPROVED"}
     THEN UNCHANGED <<flow, asks>>
     ELSE IF AsksAgain(e) THEN Reask(e.sha)
     ELSE flow' = [flow EXCEPT !.sha = e.sha] /\ UNCHANGED asks
  /\ UNCHANGED <<head, content, jobs, claim, pass, poll, faults, approved>>

-----------------------------------------------------------------------------
(* Jobs, as the flow sees them *)

\* The runner resolves a PLAN's ref when it starts: the branch as its clone has it, of
\* its own, maybe old, or the remote's; a thread's clone is where it was published.
CheckOut(i) ==
  /\ jobs[i].step = "PLAN" /\ jobs[i].state = "active" /\ jobs[i].reads = NoSha
  /\ \E sha \in IF flow.entry = "THREAD" THEN {head} ELSE 1..head :
       jobs' = [jobs EXCEPT ![i].reads = sha]
  /\ UNCHANGED <<outside, flow, asks, claim, pass, poll, faults, approved>>

JobEnds(i) ==
  /\ jobs[i].state = "active"
  /\ \E s \in IF jobs[i].step = "RUN" THEN {"ended", "bad"} ELSE {"good", "bad"} :
       /\ s = "good" /\ jobs[i].step = "PLAN" => jobs[i].reads # NoSha
       /\ jobs' = [jobs EXCEPT ![i].state = s]
  /\ UNCHANGED <<outside, flow, asks, claim, pass, poll, faults, approved>>

\* The RUN's bundle is ingested: its pull request is known, or there is none.
Ingest(i) ==
  /\ jobs[i].state = "ended"
  /\ \E s \in {"good", "bad"} : jobs' = [jobs EXCEPT ![i].state = s]
  /\ UNCHANGED <<outside, flow, asks, claim, pass, poll, faults, approved>>

Insert(step, linked) ==
  jobs' = Append(jobs, [step |-> step, sha |-> IF linked THEN pass.sha ELSE flow.sha,
                        reads |-> NoSha, since |-> flow.generation, of |-> IF linked THEN pass.generation ELSE 0,
                        linked |-> linked, state |-> "active"])

-----------------------------------------------------------------------------
(* decide *)

LastLinked ==
  LET mine == {i \in DOMAIN jobs : jobs[i].linked} IN
  IF mine = {} THEN NoJob ELSE CHOOSE i \in mine : \A k \in mine : k <= i

\* A review of another spec, from before the last approval, does not count.
Latest ==
  IF LastLinked # NoJob /\ jobs[LastLinked].step = "SPEC_REVIEW" /\ jobs[LastLinked].sha # flow.sha
  THEN NoJob ELSE LastLinked

\* mutant: queued after the approval, to the strict.
SinceApprovalStrictly(i) == jobs[i].step = "SPEC_REVIEW" /\ jobs[i].since > flow.generation

SinceApproval(i) == jobs[i].step = "SPEC_REVIEW" /\ jobs[i].since >= flow.generation

\* mutant: a job under way is not waited for.
DecisionsHasty(i) ==
  IF i = NoJob THEN {"SPEC_REVIEW"}
  ELSE IF jobs[i].state = "bad" THEN {"stop"}
  ELSE IF jobs[i].step = "FIX" THEN {"complete"}
  ELSE {StepAfter[jobs[i].step]}

\* decideFlowStep; the time to wait for a RUN's pull request is up at any time.
Decisions(i) ==
  IF i = NoJob \/ (flow.state = "APPROVED" /\ ~SinceApproval(i)) THEN {"SPEC_REVIEW"}
  ELSE IF jobs[i].state = "bad" THEN {"stop"}
  ELSE IF flow.state = "APPROVED" \/ jobs[i].state = "active" THEN {"wait"}
  ELSE IF jobs[i].state = "ended" THEN {"wait", "stop"}
  ELSE IF jobs[i].step = "FIX" THEN {"complete"}
  ELSE {StepAfter[jobs[i].step]}

\* mutant: of a running flow only.
UnrecordedRunning ==
  Latest # NoJob /\ flow.state = "RUNNING" /\ flow.step # jobs[Latest].step

\* A job whose record was lost is recorded first.
Unrecorded ==
  LET i == Latest IN
  /\ i # NoJob
  /\ flow.state = "RUNNING" \/ SinceApproval(i)
  /\ flow.state = "APPROVED" \/ flow.step # jobs[i].step

Records(step) == flow' = [flow EXCEPT !.state = "RUNNING", !.step = step]

\* The branch is read before the locks, when the flow may need it.
MayNeedHead ==
  \/ flow.state = "APPROVED" \/ LastLinked = NoJob
  \/ jobs[LastLinked].step = "SPEC_REVIEW" /\ jobs[LastLinked].state # "active"

Look ==
  /\ At("idle") /\ Live
  /\ pass' = [Idle EXCEPT !.at = "decide", !.sha = flow.sha, !.generation = flow.generation,
              !.head = IF flow.entry = "NAX" /\ MayNeedHead THEN head ELSE NoSha]
  /\ UNCHANGED <<outside, flow, asks, jobs, claim, poll, faults, approved>>

Recover ==
  /\ At("decide") /\ Live /\ Unrecorded
  /\ Records(jobs[Latest].step) /\ Ends
  /\ UNCHANGED <<outside, asks, jobs, claim, poll, faults, approved>>

Deciding(action) == At("decide") /\ Live /\ ~Unrecorded /\ action \in Decisions(Latest)

\* Nothing to do, or the forge did not answer.
Wait ==
  /\ (At("decide") /\ ~Live) \/ Deciding("wait")
  /\ Ends
  /\ UNCHANGED <<outside, flow, asks, jobs, claim, poll, faults, approved>>

\* The cap, the creator's access and the repo's connection may end it too.
StopDecided ==
  /\ \E action \in FlowSteps \cup {"stop"} : Deciding(action)
  /\ flow' = Stopped /\ Ends
  /\ UNCHANGED <<outside, asks, jobs, claim, poll, faults, approved>>

Complete ==
  /\ Deciding("complete")
  /\ flow' = [flow EXCEPT !.state = "COMPLETED"] /\ Ends
  /\ UNCHANGED <<outside, asks, jobs, claim, poll, faults, approved>>

\* The spec's head, for the two steps that read the spec.
SameTarget == pass.sha = flow.sha /\ pass.generation = flow.generation

HeadMissing == flow.entry = "NAX" /\ (pass.head = NoSha \/ ~SameTarget)
HeadSeen == IF flow.entry = "THREAD" THEN head ELSE pass.head

DecideSpec(step) ==
  /\ step \in {"SPEC_REVIEW", "PLAN"} /\ Deciding(step)
  /\ IF HeadMissing
     THEN Ends /\ UNCHANGED <<flow, asks>>
     ELSE IF HeadSeen # flow.sha THEN Reask(HeadSeen) /\ Ends
     ELSE /\ pass' = [pass EXCEPT !.at = "dispatch", !.sha = flow.sha,
                                  !.generation = flow.generation, !.step = step]
          /\ UNCHANGED <<flow, asks>>
  /\ UNCHANGED <<outside, jobs, claim, poll, faults, approved>>

DecideStep(step) ==
  /\ step \in FlowSteps \ {"SPEC_REVIEW", "PLAN"} /\ Deciding(step)
  /\ pass' = [pass EXCEPT !.at = IF step = "REVIEW" THEN "claim" ELSE "dispatch",
                          !.sha = flow.sha, !.generation = flow.generation, !.step = step]
  /\ UNCHANGED <<outside, flow, asks, jobs, claim, poll, faults, approved>>

-----------------------------------------------------------------------------
(* The head claim of a review: FleetReviewClaimService and ReviewHeadDispatcher *)

\* An id nobody remembers.
FreshClaim == CHOOSE i \in 1..4 : i \notin {claim.id, pass.claim, poll.claim}
Pending(id) == [Unclaimed EXCEPT !.status = "pending", !.id = id]
IsStill(id) == claim.status # "none" /\ claim.id = id

\* insertPending: one wins by the unique index.
ClaimHead ==
  /\ At("claim")
  /\ IF claim.status = "none"
     THEN /\ claim' = Pending(FreshClaim)
          /\ pass' = [pass EXCEPT !.at = "dispatch", !.claim = FreshClaim]
     ELSE Goes("find") /\ UNCHANGED claim
  /\ UNCHANGED <<outside, flow, asks, jobs, poll, faults, approved>>

\* mutant: a pending claim is taken over at once.
IsStaleAlways == claim.status = "pending"

IsStale == claim.status = "pending" /\ claim.old

\* What became of the head's claim: owned, failed, busy, or its owner is dead.
Found ==
  IF claim.job # NoJob THEN pass' = [pass EXCEPT !.at = "adopt", !.job = claim.job]
  ELSE IF claim.status = "failed" THEN Goes("refused")
  ELSE IF At("find") /\ IsStale THEN pass' = [pass EXCEPT !.at = "retake", !.claim = claim.id]
  ELSE Ends

FindHead ==
  /\ At("find") \/ At("findAgain")
  /\ Found
  /\ UNCHANGED <<outside, flow, asks, jobs, claim, poll, faults, approved>>

\* removeStalePending.
Retake ==
  /\ At("retake")
  /\ IF IsStill(pass.claim) /\ IsStale
     THEN claim' = Unclaimed /\ Goes("reclaim")
     ELSE Goes("findAgain") /\ UNCHANGED claim
  /\ UNCHANGED <<outside, flow, asks, jobs, poll, faults, approved>>

Reclaim ==
  /\ At("reclaim")
  /\ IF claim.status = "none"
     THEN /\ claim' = Pending(FreshClaim)
          /\ pass' = [pass EXCEPT !.at = "dispatch", !.claim = FreshClaim]
     ELSE Ends /\ UNCHANGED claim
  /\ UNCHANGED <<outside, flow, asks, jobs, poll, faults, approved>>

-----------------------------------------------------------------------------
(* dispatch and record *)

AfterDispatch(i) ==
  pass' = [pass EXCEPT !.at = IF pass.step = "REVIEW" THEN "link" ELSE "record", !.job = i]

Dispatch ==
  /\ At("dispatch") /\ ~Busy(pass.step)
  /\ Insert(pass.step, TRUE) /\ AfterDispatch(Len(jobs) + 1)
  /\ UNCHANGED <<outside, flow, asks, claim, poll, faults, approved>>

\* An active job of the same feature, a paused budget, a bad input; or an error
\* of another kind, which only ends the pass.
DispatchFails ==
  /\ At("dispatch")
  /\ claim' = IF pass.step = "REVIEW" /\ IsStill(pass.claim) THEN Unclaimed ELSE claim
  /\ \/ Goes("refused") /\ UNCHANGED faults
     \/ Ends /\ faults < MaxFaults /\ faults' = faults + 1
  /\ UNCHANGED <<outside, flow, asks, jobs, poll, approved>>

\* mutant: the state is looked at, the approval is not.
LockLiveByState == Live

\* mutant: the approval is looked at, the state is not.
LockLiveByApproval == SameTarget

\* lockLive: the flow is as it was when this pass decided.
LockLive == Live /\ SameTarget

Refused ==
  /\ At("refused")
  /\ flow' = IF LockLive THEN Stopped ELSE flow
  /\ Ends
  /\ UNCHANGED <<outside, asks, jobs, claim, poll, faults, approved>>

\* markDispatched throws when the claim is gone: the job is found again later.
Link ==
  /\ At("link")
  /\ IF IsStill(pass.claim)
     THEN /\ claim' = [claim EXCEPT !.status = "dispatched", !.job = pass.job]
          /\ Goes("record")
     ELSE Ends /\ UNCHANGED claim
  /\ UNCHANGED <<outside, flow, asks, jobs, poll, faults, approved>>

Record ==
  /\ At("record")
  /\ IF LockLive THEN Records(pass.step) ELSE UNCHANGED flow
  /\ Ends
  /\ UNCHANGED <<outside, asks, jobs, claim, poll, faults, approved>>

\* The auto-reviewer's job becomes the flow's, unless it is a flow's already.
Adopt ==
  /\ At("adopt")
  /\ IF ~LockLive THEN UNCHANGED <<flow, jobs>>
     ELSE IF jobs[pass.job].linked THEN flow' = Stopped /\ UNCHANGED jobs
     ELSE /\ jobs' = [jobs EXCEPT ![pass.job].linked = TRUE, ![pass.job].of = pass.generation,
                                  ![pass.job].sha = pass.sha]
          /\ Records("REVIEW")
  /\ Ends
  /\ UNCHANGED <<outside, asks, claim, poll, faults, approved>>

-----------------------------------------------------------------------------
(* The auto-reviewer, on the pull request of the RUN *)

Polling(step) == poll.at = step
PollGoes(step) == poll' = [poll EXCEPT !.at = step]
PrIsOpen == \E i \in DOMAIN jobs : jobs[i].step = "RUN" /\ jobs[i].state = "good"

\* headIsOpen: a claim that settled closes the head for good.
PollReads ==
  /\ Polling("idle") /\ PrIsOpen
  /\ \/ claim.status = "none" /\ PollGoes("insert")
     \/ IsStale /\ poll' = [poll EXCEPT !.at = "reopen", !.claim = claim.id]
  /\ UNCHANGED <<outside, flow, asks, jobs, claim, pass, faults, approved>>

\* Removed by its id, whatever became of it since it was read.
PollReopens ==
  /\ Polling("reopen")
  /\ claim' = IF IsStill(poll.claim) THEN Unclaimed ELSE claim
  /\ poll' = [PollIdle EXCEPT !.at = "insert"]
  /\ UNCHANGED <<outside, flow, asks, jobs, pass, faults, approved>>

PollInserts ==
  /\ Polling("insert")
  /\ IF claim.status = "none"
     THEN /\ claim' = Pending(FreshClaim)
          /\ poll' = [poll EXCEPT !.at = "dispatch", !.claim = FreshClaim]
     ELSE poll' = PollIdle /\ UNCHANGED claim
  /\ UNCHANGED <<outside, flow, asks, jobs, pass, faults, approved>>

\* Dispatched, or refused for good.
PollDispatches ==
  /\ Polling("dispatch") /\ ~Busy("REVIEW")
  /\ \/ /\ Insert("REVIEW", FALSE)
        /\ poll' = [poll EXCEPT !.at = "mark", !.job = Len(jobs) + 1]
     \/ PollGoes("fail") /\ UNCHANGED jobs
  /\ UNCHANGED <<outside, flow, asks, claim, pass, faults, approved>>

\* An active review, a paused budget or an unknown error: to be tried again.
PollGivesUp ==
  /\ Polling("dispatch") /\ PollGoes("release")
  /\ UNCHANGED <<outside, flow, asks, jobs, claim, pass, faults, approved>>

\* remove, markFailed and markDispatched.
PollMarks ==
  /\ \E step \in {"release", "fail", "mark"} : Polling(step)
  /\ claim' = IF ~IsStill(poll.claim) THEN claim
              ELSE IF Polling("release") THEN Unclaimed
              ELSE IF Polling("fail") THEN [claim EXCEPT !.status = "failed"]
              ELSE [claim EXCEPT !.status = "dispatched", !.job = poll.job]
  /\ poll' = PollIdle
  /\ UNCHANGED <<outside, flow, asks, jobs, pass, faults, approved>>

-----------------------------------------------------------------------------
\* One poll interval passes over a pending claim: its owner is dead, or slow.
Ages ==
  /\ claim.status = "pending" /\ ~claim.old
  /\ claim' = [claim EXCEPT !.old = TRUE]
  /\ IF claim.id \in {pass.claim, poll.claim}
     THEN faults < MaxFaults /\ faults' = faults + 1
     ELSE UNCHANGED faults
  /\ UNCHANGED <<outside, flow, asks, jobs, pass, poll, approved>>

\* The API process dies, publications it has not told of included.
Crash ==
  /\ faults < MaxFaults /\ faults' = faults + 1
  /\ pass' = Idle /\ poll' = PollIdle /\ events' = {}
  /\ UNCHANGED <<head, content, flow, asks, jobs, claim, approved>>

NewFlow(entry) ==
  [entry |-> entry, state |-> "PENDING", sha |-> 1, generation |-> 0, ask |-> 1, step |-> "none"]

\* create: a start request is opened, or the thread's tick covers the flow.
FlowInit ==
  /\ head = 1 /\ content = [sha \in Shas |-> sha] /\ events = {}
  /\ \/ /\ \E entry \in Entries : flow = NewFlow(entry)
        /\ asks = [a \in AskIds |-> [sha |-> IF a = 1 THEN 1 ELSE NoSha,
                                     status |-> IF a = 1 THEN "pending" ELSE "none"]]
     \/ /\ "THREAD" \in Entries
        /\ flow = [NewFlow("THREAD") EXCEPT !.state = "APPROVED", !.generation = 1, !.ask = NoAsk]
        /\ asks = [a \in AskIds |-> [sha |-> NoSha, status |-> "none"]]
  /\ approved = 1
  /\ jobs = <<>> /\ claim = Unclaimed
  /\ pass = Idle /\ poll = PollIdle /\ faults = 0

People ==
  \/ Stop
  \/ \E a \in AskIds : Approve(a) \/ Reject(a)
  \/ \E touches \in BOOLEAN : Publish(touches)
Commands == \E a \in AskIds : Start(a)
Listener == \E e \in events : Respec(e)
Work == \E i \in DOMAIN jobs : CheckOut(i) \/ JobEnds(i) \/ Ingest(i)
Decided ==
  \/ Recover \/ Wait \/ StopDecided \/ Complete
  \/ \E step \in FlowSteps : DecideSpec(step) \/ DecideStep(step)
Ticker ==
  \/ Look \/ Decided
  \/ ClaimHead \/ FindHead \/ Retake \/ Reclaim
  \/ Dispatch \/ DispatchFails \/ Refused \/ Link \/ Record \/ Adopt
Poller ==
  PollReads \/ PollReopens \/ PollInserts \/ PollDispatches \/ PollGivesUp \/ PollMarks

FlowNext ==
  People \/ Commands \/ Listener \/ Work \/ Ticker \/ Poller \/ Ages \/ Crash

FlowSpec == FlowInit /\ [][FlowNext]_flowVars

\* The ticker and the poller tick, jobs and ingests end, claims grow old.  What
\* keeps the poller from its review does not last for ever.
FairFlowSpec ==
  /\ FlowSpec
  /\ WF_flowVars(Ticker) /\ WF_flowVars(Work) /\ WF_flowVars(Poller) /\ WF_flowVars(Ages)
  /\ SF_flowVars(PollDispatches)

-----------------------------------------------------------------------------
FlowTypeOK ==
  /\ head \in Shas /\ content \in [Shas -> Shas]
  /\ \A e \in events : e.sha \in Shas /\ e.previous \in Shas
  /\ flow \in FlowRow
  /\ asks \in [AskIds -> AskRow]
  /\ jobs \in Seq(JobRow)
  /\ claim.status \in {"none", "pending", "dispatched", "failed"}
  /\ claim.job \in DOMAIN jobs \cup {NoJob} /\ claim.id \in 0..4
  /\ pass.job \in DOMAIN jobs \cup {NoJob} /\ poll.job \in DOMAIN jobs \cup {NoJob}
  /\ faults \in 0..MaxFaults

\* What a live flow records as its spec is what somebody approved last, and so is
\* what each of its jobs under that approval was dispatched for, though the spec is
\* published anew at any time, events are lost or come late, and an old request may
\* still be decided (respec, currentPending, buildStepDispatch).
Mine(i) == jobs[i].linked /\ jobs[i].of = flow.generation
SpecApproved ==
  Live => /\ content[flow.sha] = approved
          /\ \A i \in DOMAIN jobs : Mine(i) => content[jobs[i].sha] = approved

\* The same of what a PLAN checked out.  The code does not see to it: the branch may
\* have moved on since the decision, or be an old one of the clone's (prepareCheckout).
PlansApproved ==
  Live => \A i \in DOMAIN jobs :
            Mine(i) /\ jobs[i].reads # NoSha => content[jobs[i].reads] = approved

\* Every step is built on the good end of the step before, dispatched under one
\* approval and for one spec (decideFlowStep, lockLive).
StepsFollow ==
  \A i \in DOMAIN jobs : jobs[i].linked /\ jobs[i].step # "SPEC_REVIEW" =>
    \E k \in 1..(i - 1) :
      /\ jobs[k].linked /\ jobs[k].state = "good" /\ StepAfter[jobs[k].step] = jobs[i].step
      /\ jobs[k].of = jobs[i].of /\ jobs[k].sha = jobs[i].sha

\* No step is dispatched twice under one approval and for one spec, the process dying
\* between a dispatch and its record included (decide, recordStep).
StepOnce ==
  \A i, k \in DOMAIN jobs :
    /\ jobs[i].linked /\ jobs[k].linked /\ jobs[i].step = jobs[k].step
    /\ jobs[i].of = jobs[k].of /\ jobs[i].sha = jobs[k].sha
    => i = k

\* The flow and the auto-reviewer review a head once between them, but for a
\* process that died or a pass that outlived its claim (claimHead, insertPending).
ReviewedOnce ==
  Cardinality({i \in DOMAIN jobs : jobs[i].step = "REVIEW"}) <= 1 + faults

\* The step a running flow shows is one it has a job for, of its present approval.
StepShown ==
  flow.state = "RUNNING" =>
    \E i \in DOMAIN jobs : /\ jobs[i].linked /\ jobs[i].step = flow.step
                           /\ jobs[i].sha = flow.sha

\* Not every write asks the table of states, and none goes against it.
StatesFollowTable ==
  [][flow'.state # flow.state => flow'.state \in Transitions[flow.state]]_flowVars

\* An approved flow is completed, stopped, or asks again.
FlowEnds == Live ~> ~Live
=============================================================================
