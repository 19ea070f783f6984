---------------------------- MODULE FleetSchedules ----------------------------
(***************************************************************************)
(* Recurring jobs: a ticker claims the fires that are due, and absorbs each *)
(* into the schedule's queued job, skips it, or dispatches a new job; the  *)
(* end of a scheduled job is counted, and a schedule that is done, stalls  *)
(* or cannot dispatch is switched off.  Users edit schedules and requeue   *)
(* jobs in between, and the API process may die between any two steps.     *)
(*                                                                         *)
(* One action is one statement or transaction of the ticker: it holds none *)
(* across them.  Of a job's life only queued, held by a runner and over are *)
(* told apart; FleetJob has the rest.                                      *)
(***************************************************************************)
EXTENDS Integers, Sequences, FiniteSets, FleetJobState

CONSTANTS
  Schedules, NoSchedule,
  FeatureOf,   \* [Schedules -> (repository, feature)]
  Tickers,     \* callers of tick: the timer, and the test hook beside it
  MaxDue,      \* MAX_DUE_PER_TICK
  MaxRounds,   \* MAX_COALESCE_ROUNDS
  Limits,      \* the values of noProgressLimit
  Stories,     \* stories in the plan of a feature
  MaxTime, MaxJobs, MaxRestarts  \* bounds of the model

ASSUME ScheduleAssumption == NoSchedule \notin Schedules
ASSUME FireAssumption == MaxDue \in Nat \ {0} /\ MaxRounds \in Nat \ {0}
ASSUME LimitAssumption == Limits \subseteq Nat \ {0} /\ Limits # {} /\ Stories \in Nat \ {0}

VARIABLES
  sched,    \* JobSchedule rows
  jobs,     \* FleetJob rows in order of creation
  tick,     \* where each ticker is
  clock, restarts

scheduleVars == <<sched, jobs, tick, clock, restarts>>

-----------------------------------------------------------------------------
NoFire == [sched |-> NoSchedule, at |-> 0]
NoCount == -1   \* the runner reported no number

Steps == {"idle", "next", "fire", "absorb", "access", "dispatch", "recover", "link", "disable"}

Fire     == [sched: Schedules, at: Nat]   \* a schedule and the nextFireAt that was read
Features == {FeatureOf[s] : s \in Schedules}

\* off: "no" while enabled, "manual" or "auto" for the reasons of the system.
\* A row that was deleted has live FALSE.
ScheduleRow == [live: BOOLEAN, off: {"no", "manual", "auto"}, next: Nat,
                limit: Limits, ticks: Nat, passed: Nat]

\* fire and absorbed say which fires a job answers (the code keeps their number).
JobRow == [sched: Schedules \cup {NoSchedule}, feature: Features,
           state: {"QUEUED", "ASSIGNED"} \cup TerminalStates, counted: BOOLEAN,
           fire: Fire \cup {NoFire}, absorbed: SUBSET Fire]

Ticker == [at: Steps, now: Nat, due: SUBSET Fire, cur: Fire \cup {NoFire},
           round: Nat]

Enabled(s)    == sched[s].live /\ sched[s].off = "no"
IsActive(i)   == jobs[i].state \in ActiveStates
ActiveOf(s)   == {i \in DOMAIN jobs : IsActive(i) /\ jobs[i].sched = s}
QueuedOf(s)   == {i \in ActiveOf(s) : jobs[i].state = "QUEUED"}
FeatureBusy(f) == \E i \in DOMAIN jobs : IsActive(i) /\ jobs[i].feature = f
FireTimes(now) == (now + 1)..(MaxTime + 1)   \* what a cron may say comes next

\* The rows and the tickers keep their types, and a schedule that is on has not
\* stalled as often as it may.
ScheduleTypeOK ==
  /\ sched \in [Schedules -> ScheduleRow]
  /\ \A i \in DOMAIN jobs : jobs[i] \in JobRow
  /\ \A t \in Tickers : tick[t] \in Ticker
  /\ clock \in Nat /\ restarts \in Nat
  /\ \A s \in Schedules : Enabled(s) => \E l \in Limits : sched[s].ticks < l

-----------------------------------------------------------------------------
(* The ticker *)

Idle == [at |-> "idle", now |-> 0, due |-> {}, cur |-> NoFire, round |-> 0]
To(t, at)  == tick' = [tick EXCEPT ![t].at = at]
DoneStuck(t) ==   \* mutant: a fire that ends in a disable leaves the re-entry guard set
  IF tick[t].at = "disable" THEN UNCHANGED tick
  ELSE tick' = [tick EXCEPT ![t] = [Idle EXCEPT !.at = "next", !.now = tick[t].now, !.due = tick[t].due]]
\* The next due schedule, or the end of the tick.
Done(t) ==
  tick' = [tick EXCEPT ![t] = IF @.due = {} THEN Idle
                              ELSE [Idle EXCEPT !.at = "next", !.now = tick[t].now, !.due = tick[t].due]]

Due(now) == {[sched |-> s, at |-> sched[s].next] :
               s \in {u \in Schedules : Enabled(u) /\ sched[u].next <= now}}
\* findDue: the oldest MaxDue of them.
Oldest(D) == {B \in SUBSET D :
                /\ Cardinality(B) = IF Cardinality(D) < MaxDue THEN Cardinality(D) ELSE MaxDue
                /\ \A b \in B, d \in D \ B : b.at <= d.at}

\* A ticker that still runs is not started again (runOnce: ticking).
Begin(t) ==
  /\ tick[t].at = "idle" /\ Due(clock) # {}
  /\ \E B \in Oldest(Due(clock)) :
       tick' = [tick EXCEPT ![t] = [Idle EXCEPT !.at = "next", !.now = clock, !.due = B]]
  /\ UNCHANGED <<sched, jobs, clock, restarts>>

ClaimableStale(d) ==   \* mutant: claims whatever the schedule's next fire is by now
  Enabled(d.sched)
\* claimFire: a compare-and-set on nextFireAt.
Claimable(d) == Enabled(d.sched) /\ sched[d.sched].next = d.at

\* fireDue, one schedule after the other; its cron may no longer parse.
NextDue(t) ==
  /\ tick[t].at = "next"
  /\ \E d \in {e \in tick[t].due : \A o \in tick[t].due : e.at <= o.at} :
       LET left == tick[t].due \ {d}
           took(at) == tick' = [tick EXCEPT ![t] = [Idle EXCEPT !.at = at, !.now = tick[t].now,
                                                                !.due = left, !.cur = d]]
       IN \/ /\ Claimable(d) /\ took("fire")
             /\ \E n \in FireTimes(tick[t].now) : sched' = [sched EXCEPT ![d.sched].next = n]
          \/ /\ ~Claimable(d) /\ UNCHANGED sched
             /\ tick' = [tick EXCEPT ![t] = IF left = {} THEN Idle ELSE [@ EXCEPT !.due = left]]
          \/ took("disable") /\ UNCHANGED sched
  /\ UNCHANGED <<jobs, clock, restarts>>

\* fire: look for the schedule's active job, at most MaxRounds times.
LookForActive(t) ==
  /\ tick[t].at = "fire"
  /\ LET s == tick[t].cur.sched IN
     \/ ActiveOf(s) = {} /\ To(t, "access")
     \/ QueuedOf(s) # {} /\ To(t, "absorb")
     \/ ActiveOf(s) \ QueuedOf(s) # {} /\ Done(t)
  /\ UNCHANGED <<sched, jobs, clock, restarts>>

AbsorbInto(i, f) == jobs' = [jobs EXCEPT ![i].absorbed = @ \cup {f}]

\* coalesceIntoQueued: one UPDATE that finds the queued job again.
Absorb(t) ==
  /\ tick[t].at = "absorb"
  /\ LET s == tick[t].cur.sched IN
     \/ (\E i \in QueuedOf(s) : AbsorbInto(i, tick[t].cur)) /\ Done(t)
     \/ /\ QueuedOf(s) = {}
        /\ IF tick[t].round + 1 < MaxRounds
           THEN tick' = [tick EXCEPT ![t].at = "fire", ![t].round = @ + 1]
           ELSE Done(t)
        /\ UNCHANGED jobs
  /\ UNCHANGED <<sched, clock, restarts>>

\* The owner's access and keys are read now and not again.
CheckOwner(t) ==
  /\ tick[t].at = "access"
  /\ To(t, "dispatch") \/ To(t, "disable")
  /\ UNCHANGED <<sched, jobs, clock, restarts>>

NewJob(s, f, fire) ==
  /\ Len(jobs) < MaxJobs /\ ~FeatureBusy(f)
  /\ jobs' = Append(jobs, [sched |-> s, feature |-> f, state |-> "QUEUED", counted |-> FALSE,
                           fire |-> fire, absorbed |-> {}])

\* FleetJobsService.dispatch and onDispatchError.  The job is created in a
\* transaction of its own; what follows it may fail.
DispatchFresh(t) ==
  /\ tick[t].at = "dispatch"
  /\ LET s == tick[t].cur.sched IN
     \/ /\ sched[s].live /\ NewJob(s, FeatureOf[s], tick[t].cur)
        /\ To(t, "link") \/ To(t, "recover")
     \/ Done(t) /\ UNCHANGED jobs                                \* 409: paused, or another active job
     \/ To(t, "disable") /\ UNCHANGED jobs                       \* 404, 422, 400
     \/ To(t, "recover") /\ UNCHANGED jobs                       \* any other error
  /\ UNCHANGED <<sched, clock, restarts>>

\* After an unknown error: is there a job now that this fire may have created?
Recover(t) ==
  /\ tick[t].at = "recover"
  /\ \/ ActiveOf(tick[t].cur.sched) # {} /\ To(t, "link")
     \/ ActiveOf(tick[t].cur.sched) = {} /\ Done(t)
  /\ UNCHANGED <<sched, jobs, clock, restarts>>

\* linkDispatched writes lastJobId, which nothing here reads; a schedule deleted
\* meanwhile makes it throw, to the same end.
Link(t) ==
  /\ tick[t].at = "link"
  /\ Done(t)
  /\ UNCHANGED <<sched, jobs, clock, restarts>>

DisableBlind(t) ==   \* mutant: does not look at the row again under its lock
  sched' = [sched EXCEPT ![tick[t].cur.sched].off = "auto"]
\* ScheduleProgressService.disable, under the row lock.
DisableRow(t) ==
  sched' = IF Enabled(tick[t].cur.sched)
           THEN [sched EXCEPT ![tick[t].cur.sched].off = "auto"] ELSE sched
Disable(t) ==
  /\ tick[t].at = "disable"
  /\ DisableRow(t) /\ Done(t)
  /\ UNCHANGED <<jobs, clock, restarts>>

\* fireDue: a statement that throws ends the fire, and the rest still run.
Throws(t) ==
  /\ tick[t].at \in {"fire", "absorb", "access", "recover"}
  /\ Done(t)
  /\ UNCHANGED <<sched, jobs, clock, restarts>>

TickStep(t) ==
  \/ Throws(t) \/ Begin(t) \/ NextDue(t) \/ LookForActive(t) \/ Absorb(t) \/ CheckOwner(t)
  \/ DispatchFresh(t) \/ Recover(t) \/ Link(t) \/ Disable(t)

-----------------------------------------------------------------------------
(* Jobs *)

\* judgeEndedJob: "done" is COMPLETED, or every story passed and no finish.
Judge(to, passed, total, before) ==
  CASE to = "COMPLETED" \/ (passed # NoCount /\ passed = total) -> "done"
    [] to # "COMPLETED" /\ passed # total /\ passed > before    -> "progress"
    [] OTHER                                                    -> "stalled"

\* onJobEnded: what the end of a job does to its schedule's row.
Judged(row, verdict, passed) ==
  IF verdict = "progress" THEN [row EXCEPT !.ticks = 0, !.passed = passed]
  ELSE IF row.off # "no" THEN row
  ELSE IF verdict = "done" THEN [row EXCEPT !.off = "auto"]
  ELSE [row EXCEPT !.ticks = @ + 1,
                   !.off = IF row.ticks + 1 >= row.limit THEN "auto" ELSE @]

CountsAgain(i, to) ==   \* mutant: scheduleCountedAt is not looked at
  jobs[i].sched # NoSchedule /\ to # "CANCELLED"
Counts(i, to) ==
  jobs[i].sched # NoSchedule /\ to # "CANCELLED" /\ ~jobs[i].counted

\* The end of a job, with what its runner last reported.  A requeue clears what
\* was reported before.
End(i, to, passed, total) ==
  /\ \/ jobs[i].state \in HeldStates
     \/ jobs[i].state = "QUEUED" /\ to = "CANCELLED"
  /\ jobs' = [jobs EXCEPT ![i].state = to, ![i].counted = @ \/ Counts(i, to)]
  /\ LET s == jobs[i].sched IN
     sched' = IF Counts(i, to)
              THEN [sched EXCEPT ![s] = Judged(@, Judge(to, passed, total, sched[s].passed), passed)]
              ELSE sched
  /\ UNCHANGED <<tick, clock, restarts>>

\* Placement.
Take(i) ==
  /\ jobs[i].state = "QUEUED"
  /\ jobs' = [jobs EXCEPT ![i].state = "ASSIGNED"]
  /\ UNCHANGED <<sched, tick, clock, restarts>>

Requeue(i) ==
  /\ CanTransition(jobs[i].state, "QUEUED", "server") /\ ~FeatureBusy(jobs[i].feature)
  /\ jobs' = [jobs EXCEPT ![i].state = "QUEUED"]
  /\ UNCHANGED <<sched, tick, clock, restarts>>

\* A user's own job of the same feature.
DispatchByUser(f) ==
  /\ NewJob(NoSchedule, f, NoFire)
  /\ UNCHANGED <<sched, tick, clock, restarts>>

Reports == {<<NoCount, NoCount>>} \cup ((0..Stories) \X {NoCount, Stories})

JobStep ==
  \/ \E i \in DOMAIN jobs :
       \/ Take(i) \/ Requeue(i)
       \/ \E to \in TerminalStates, p \in Reports : End(i, to, p[1], p[2])
  \/ \E f \in Features : DispatchByUser(f)

-----------------------------------------------------------------------------
(* Users and the world *)

Write(s, row) == sched' = [sched EXCEPT ![s] = row] /\ UNCHANGED <<jobs, tick, clock, restarts>>

\* SchedulesService.update: another cron or another limit.
Update(s) ==
  /\ sched[s].live
  /\ \/ Enabled(s) /\ \E n \in FireTimes(clock) : Write(s, [sched[s] EXCEPT !.next = n])
     \/ \E l \in Limits : Write(s, [sched[s] EXCEPT !.limit = l])

EnableByUser(s) ==
  /\ sched[s].live /\ ~Enabled(s)
  /\ \E n \in FireTimes(clock) :
       Write(s, [sched[s] EXCEPT !.off = "no", !.ticks = 0, !.next = n])

DisableByUser(s) == Enabled(s) /\ Write(s, [sched[s] EXCEPT !.off = "manual"])

\* The jobs are detached, then the row is deleted.
Remove(s) ==
  /\ sched[s].live
  /\ sched' = [sched EXCEPT ![s].live = FALSE]
  /\ jobs' = [i \in DOMAIN jobs |-> IF jobs[i].sched = s THEN [jobs[i] EXCEPT !.sched = NoSchedule]
                                    ELSE jobs[i]]
  /\ UNCHANGED <<tick, clock, restarts>>

TimePasses ==
  /\ clock < MaxTime /\ clock' = clock + 1
  /\ UNCHANGED <<sched, jobs, tick, restarts>>

\* The API process dies: nothing remembers a fire that was claimed.
ApiRestart ==
  /\ restarts < MaxRestarts /\ restarts' = restarts + 1
  /\ tick' = [t \in Tickers |-> Idle]
  /\ UNCHANGED <<sched, jobs, clock>>

UserStep ==
  \E s \in Schedules : Update(s) \/ EnableByUser(s) \/ DisableByUser(s) \/ Remove(s)

-----------------------------------------------------------------------------
ScheduleInit ==
  /\ sched \in [Schedules -> [live: {TRUE}, off: {"no"}, next: {1}, limit: Limits,
                              ticks: {0}, passed: {0}]]
  /\ jobs = << >>
  /\ tick = [t \in Tickers |-> Idle]
  /\ clock = 0 /\ restarts = 0

ScheduleNext == (\E t \in Tickers : TickStep(t)) \/ JobStep \/ UserStep \/ TimePasses \/ ApiRestart

ScheduleSpec == ScheduleInit /\ [][ScheduleNext]_scheduleVars

\* setInterval keeps ticking, and the awaits of a tick end.
FairScheduleSpec == ScheduleSpec /\ \A t \in Tickers : WF_scheduleVars(TickStep(t))

-----------------------------------------------------------------------------
(* Properties *)

\* A fire starts or joins one job, though two ticks overlap, users move the
\* next fire, and the process dies between a claim and its dispatch.
FireOnce ==
  \A i, k \in DOMAIN jobs :
    /\ i # k => /\ jobs[i].fire # jobs[k].fire \/ jobs[i].fire = NoFire
                /\ jobs[i].absorbed \cap jobs[k].absorbed = {}
    /\ jobs[i].fire \notin jobs[k].absorbed

\* The stall counter never exceeds the jobs that ended: a job that is requeued
\* and ends again is counted once (scheduleCountedAt).
EachJobCountsOnce ==
  \A s \in Schedules : sched[s].live =>
    sched[s].ticks <= Cardinality({i \in DOMAIN jobs : jobs[i].sched = s /\ jobs[i].counted})

\* A schedule that a user switched off stays "manual" until a user enables it,
\* whatever its last fire or its running job comes to.
ManualOffStays ==
  [][\A s \in Schedules : sched[s].live /\ sched[s].off = "manual" =>
       \/ sched'[s].off = "manual"
       \/ sched'[s].off = "no" /\ sched'[s].ticks = 0 /\ sched'[s].next > clock]_scheduleVars

\* A due schedule is claimed, switched off or moved: one that cannot fire does
\* not keep the others waiting.
DueFires ==
  \A s \in Schedules : (Enabled(s) /\ sched[s].next <= clock) ~> ~(Enabled(s) /\ sched[s].next <= clock)
=============================================================================
