------------------------------ MODULE FleetJob ------------------------------
(***************************************************************************)
(* The server's side of exclusive execution: dispatch, placement, leases   *)
(* and their fencing, commands and their acknowledgements, cancel,         *)
(* requeue, the silent-runner sweep and the boot reconciliation.           *)
(*                                                                         *)
(* One action is one committed database transaction (or one statement of   *)
(* the only handler that reads without a lock, reconcileBoot).  The        *)
(* runners are an open environment: any runner may at any time sync with   *)
(* any boot id, answer any command it was sent and report on any lease it  *)
(* was ever given, so lost, repeated, late and overlapping syncs are all   *)
(* behaviours of this module.                                              *)
(***************************************************************************)
EXTENDS Integers, Sequences, FiniteSets, FleetJobState

CONSTANTS
  Jobs, Runners, Boots,
  NoRunner, NoBoot,
  RepoOf, FeatureOf, ProjectOf,   \* functions on Jobs
  PinOf,                          \* [Jobs -> Runners \cup {NoRunner}]
  Threads, Configs, RawAgents,    \* kinds of job, subsets of Jobs
  CapableOf,                      \* [Jobs -> SUBSET Runners]: labels, executor, protocol, tools
  Capacity, ThreadCapacity,       \* [Runners -> Nat]
  PauseScopes,                    \* the budget scopes that may pause
  Switchable,                     \* the runners an operator may disable and enable
  Fallible,                       \* the runners that may fall silent
  MaxEpoch, MaxCommands, MaxRecon \* bounds of the model

ASSUME RunnerAssumption == NoRunner \notin Runners /\ NoBoot \notin Boots
ASSUME JobAssumption ==
  /\ PinOf \in [Jobs -> Runners \cup {NoRunner}]
  /\ CapableOf \in [Jobs -> SUBSET Runners]
  /\ Threads \subseteq Jobs /\ Configs \subseteq Jobs /\ RawAgents \subseteq Jobs
  /\ Threads \cap Configs = {} /\ RawAgents \cap Configs = {}
ASSUME CapacityAssumption ==
  /\ Capacity \in [Runners -> Nat] /\ ThreadCapacity \in [Runners -> Nat]
ASSUME BoundAssumption == MaxEpoch \in Nat /\ MaxCommands \in Nat /\ MaxRecon \in Nat

VARIABLES
  job,      \* FleetJob rows
  cmds,     \* FleetCommand rows in creation order; a command's id is its index
  rn,       \* Runner rows
  paused,   \* budget scopes whose pause is in force
  placing,  \* placeJob calls that a committed dispatch or requeue still owes
  recon     \* jobs a reconcileBoot transaction has read and not yet written

vars == <<job, cmds, rn, paused, placing, recon>>

-----------------------------------------------------------------------------
CommandTypes == {"ASSIGN", "CANCEL", "READOPT", "ABANDON"}
AckResults   == {"none", "ok", "rejected", "STALE", "WITHDRAWN"}

JobRecord == [state: JobStates, runner: Runners \cup {NoRunner},
              boot: Boots \cup {NoBoot}, epoch: Nat, cancelReq: BOOLEAN]
Command   == [type: CommandTypes, runner: Runners, job: Jobs, epoch: Nat, ack: AckResults]
RunnerRow == [boot: Boots \cup {NoBoot}, enabled: BOOLEAN, seen: {"online", "offline", "silent"}]
ReconRow  == [runner: Runners, boot: Boots, job: Jobs, epoch: Nat,
              assigned: BOOLEAN, step: {"check", "touch", "readopt"}]

TypeOK ==
  /\ job \in [Jobs -> JobRecord]
  /\ cmds \in Seq(Command)
  /\ rn \in [Runners -> RunnerRow]
  /\ paused \subseteq PauseScopes
  /\ placing \subseteq Jobs
  /\ recon \subseteq ReconRow

-----------------------------------------------------------------------------
(* Reading the rows *)

Held(j)       == job[j].state \in HeldStates
Holds(j, r, e) == job[j].runner = r /\ job[j].epoch = e
HeldBy(r)     == {j \in Jobs : Held(j) /\ job[j].runner = r}

Pending(c)              == cmds[c].ack = "none"
PendingFor(type, j, e)  == {c \in DOMAIN cmds : /\ Pending(c) /\ cmds[c].type = type
                                                /\ cmds[c].job = j /\ cmds[c].epoch = e}
Unacked(j) == /\ job[j].state = "ASSIGNED"
              /\ PendingFor("ASSIGN", j, job[j].epoch) # {}

\* The leases the server ever granted: what a runner can name in a sync.
Leases == {[job |-> cmds[c].job, runner |-> cmds[c].runner, epoch |-> cmds[c].epoch] :
              c \in {d \in DOMAIN cmds : cmds[d].type = "ASSIGN"}}

-----------------------------------------------------------------------------
(* Writing the rows *)

Room == Len(cmds) < MaxCommands

Issue(cs, type, r, j, e) ==
  Append(cs, [type |-> type, runner |-> r, job |-> j, epoch |-> e, ack |-> "none"])
Answer(cs, c, result) == [cs EXCEPT ![c].ack = result]
WithdrawAssigns(cs, j) ==   \* mutant: a pending CANCEL survives
  [c \in DOMAIN cs |->
     IF cs[c].job = j /\ cs[c].ack = "none" /\ cs[c].type = "ASSIGN"
     THEN [cs[c] EXCEPT !.ack = "WITHDRAWN"] ELSE cs[c]]
Withdraw(cs, j) ==
  [c \in DOMAIN cs |->
     IF cs[c].job = j /\ cs[c].ack = "none" /\ cs[c].type # "ABANDON"
     THEN [cs[c] EXCEPT !.ack = "WITHDRAWN"] ELSE cs[c]]

MovedKeepsEpoch(row, to, by) ==   \* mutant: the end of a job is no new epoch
  [state |-> to, runner |-> row.runner, boot |-> row.boot,
   epoch |-> row.epoch, cancelReq |-> row.cancelReq]
\* A server-owned end of a job that had a runner is a new epoch.
Moved(row, to, by) ==
  LET bump == by = "server" /\ to \in TerminalStates /\ row.runner # NoRunner
  IN [state |-> to, runner |-> row.runner, boot |-> row.boot,
      epoch |-> IF bump THEN row.epoch + 1 ELSE row.epoch, cancelReq |-> row.cancelReq]

\* What JobTransitionsService.apply writes, the command table being cs before it.
Move(j, to, by, cs) ==
  /\ job' = [job EXCEPT ![j] = Moved(job[j], to, by)]
  /\ cmds' = IF to \in TerminalStates THEN Withdraw(cs, j) ELSE cs

Apply(j, to, by, cs) == CanTransition(job[j].state, to, by) /\ Move(j, to, by, cs)

AbandonOnce(cs, r, j, e) ==   \* mutant: only a runner without any command is told
  IF \E c \in DOMAIN cs : cs[c].runner = r /\ cs[c].job = j /\ cs[c].epoch = e
  THEN cs ELSE Issue(cs, "ABANDON", r, j, e)
\* FenceService.abandon: one pending ABANDON per runner and lease.
Abandon(cs, r, j, e) ==
  IF \E c \in DOMAIN cs : /\ cs[c].type = "ABANDON" /\ cs[c].ack = "none"
                          /\ cs[c].runner = r /\ cs[c].job = j /\ cs[c].epoch = e
  THEN cs ELSE Issue(cs, "ABANDON", r, j, e)

-----------------------------------------------------------------------------
(* Placement rules *)

JobScopes(j) == {ProjectOf[j], RepoOf[j], PinOf[j]}
Paused(j)    == j \notin Configs /\ JobScopes(j) \cap paused # {}

ActiveOn(r)  == Cardinality(HeldBy(r) \ Threads)
ThreadsOn(r) == Cardinality(HeldBy(r) \cap Threads)

TrustClash(j, k) == ProjectOf[j] # ProjectOf[k] /\ (j \in RawAgents \/ k \in RawAgents)

TrustedNewcomer(j, r) ==   \* mutant: looks at the newcomer's shell only
  \A k \in HeldBy(r) : j \in RawAgents => ProjectOf[j] = ProjectOf[k]
CheckoutIdle(j, r) ==   \* mutant: an assigned job does not use its checkout yet
  \A k \in HeldBy(r) \ Threads : job[k].state # "ASSIGNED" => RepoOf[k] # RepoOf[j]
Trusted(j, r) == \A k \in HeldBy(r) : ~TrustClash(j, k)
CheckoutFree(j, r) == \A k \in HeldBy(r) \ Threads : RepoOf[k] # RepoOf[j]

\* firstMisfit returns null: no placement rule refuses j on r.
Fits(j, r) ==
  /\ rn[r].enabled
  /\ rn[r].seen = "online"
  /\ r \in paused => j \in Configs
  /\ PinOf[j] \in {NoRunner, r}
  /\ r \in CapableOf[j]
  /\ Trusted(j, r)
  /\ IF j \in Threads
     THEN ThreadsOn(r) < ThreadCapacity[r]
     ELSE CheckoutFree(j, r) /\ ActiveOn(r) < Capacity[r]

\* orderCandidates: fewest active jobs, then a runner that has booted.
Better(r, s) == \/ ActiveOn(r) < ActiveOn(s)
                \/ ActiveOn(r) = ActiveOn(s) /\ rn[r].boot # NoBoot /\ rn[s].boot = NoBoot
Best(j) == {r \in Runners : Fits(j, r) /\ \A s \in Runners : Fits(j, s) => ~Better(s, r)}

PlacedSameEpoch(row, r) ==   \* mutant: casAssign without its increment
  [state |-> "ASSIGNED", runner |-> r, boot |-> rn[r].boot,
   epoch |-> row.epoch, cancelReq |-> row.cancelReq]
Placed(row, r) == [state |-> "ASSIGNED", runner |-> r, boot |-> rn[r].boot,
                   epoch |-> row.epoch + 1, cancelReq |-> row.cancelReq]

\* casAssign and the ASSIGN command, in one transaction.
Assign(j, r) ==
  /\ job[j].epoch < MaxEpoch /\ Room
  /\ job' = [job EXCEPT ![j] = Placed(job[j], r)]
  /\ cmds' = Issue(cmds, "ASSIGN", r, j, job[j].epoch + 1)

-----------------------------------------------------------------------------
(* Jobs API *)

ActiveTwin(j) == \E k \in Jobs \ {j} : /\ job[k].state \in ActiveStates
                                       /\ RepoOf[k] = RepoOf[j] /\ FeatureOf[k] = FeatureOf[j]

\* dispatch: the insert.  Its budget gate is read before the transaction, so a
\* scope may pause in between and the gate is no guard here.
Dispatch(j) ==
  /\ job[j].state = NotCreated
  /\ ~ActiveTwin(j)
  /\ job' = [job EXCEPT ![j].state = "QUEUED"]
  /\ placing' = placing \cup {j}
  /\ UNCHANGED <<cmds, rn, paused, recon>>

PlaceJob(j) ==
  /\ j \in placing
  /\ placing' = placing \ {j}
  /\ \/ /\ job[j].state = "QUEUED" /\ Paused(j)
        /\ Apply(j, "CANCELLED", "server", cmds)
     \/ /\ job[j].state = "QUEUED" /\ ~Paused(j)
        /\ \E r \in Best(j) : Assign(j, r)
     \/ /\ job[j].state = "QUEUED" => ~Paused(j) /\ Best(j) = {}
        /\ UNCHANGED <<job, cmds>>
  /\ UNCHANGED <<rn, paused, recon>>

\* One job of a fillRunner or fillRunnerThreads pass on a syncing runner.
FillOne(r, j) ==
  /\ job[j].state = "QUEUED" /\ PinOf[j] \in {NoRunner, r} /\ rn[r].enabled
  /\ \/ Paused(j) /\ Apply(j, "CANCELLED", "server", cmds)
     \/ ~Paused(j) /\ Fits(j, r) /\ Assign(j, r)
  /\ UNCHANGED <<rn, paused, placing, recon>>

RequestCancelUnmarked(j) ==   \* mutant: cancelRequestedAt is not set
  /\ Room
  /\ cmds' = Issue(cmds, "CANCEL", job[j].runner, j, job[j].epoch)
  /\ UNCHANGED job
RequestCancel(j) ==
  /\ Room
  /\ job' = [job EXCEPT ![j].cancelReq = TRUE]
  /\ cmds' = Issue(cmds, "CANCEL", job[j].runner, j, job[j].epoch)

CancelAgain(j) ==   \* mutant: does not look at cancelRequestedAt
  /\ job[j].state \in ActiveStates
  /\ \/ /\ job[j].state = "QUEUED" \/ Unacked(j)
        /\ Apply(j, "CANCELLED", "server", cmds)
     \/ /\ Held(j) /\ ~Unacked(j)
        /\ RequestCancel(j)
  /\ UNCHANGED <<rn, paused, placing, recon>>
Cancel(j) ==
  /\ job[j].state \in ActiveStates
  /\ \/ /\ job[j].state = "QUEUED" \/ Unacked(j)
        /\ Apply(j, "CANCELLED", "server", cmds)
     \/ /\ Held(j) /\ ~Unacked(j) /\ ~job[j].cancelReq
        /\ RequestCancel(j)
  /\ UNCHANGED <<rn, paused, placing, recon>>

\* One job of a hard stop, which locks the jobs of the scope in turn.
CancelForBudget(j) ==
  /\ j \notin Configs /\ ~job[j].cancelReq
  /\ \/ /\ job[j].state = "QUEUED" \/ Unacked(j)
        /\ Apply(j, "CANCELLED", "server", cmds)
     \/ /\ job[j].state \in {"ASSIGNED", "RUNNING"} /\ ~Unacked(j)
        /\ RequestCancel(j)
  /\ UNCHANGED <<rn, paused, placing, recon>>

\* One job of a deleted project, its jobs being locked in turn.
CancelForProjectDelete(j) ==
  /\ ~job[j].cancelReq
  /\ job[j].state = "QUEUED" \/ Unacked(j)
  /\ Apply(j, "CANCELLED", "server", cmds)
  /\ UNCHANGED <<rn, paused, placing, recon>>

RequeueFromZero(j) ==   \* mutant: a requeued job starts its epochs over
  /\ CanTransition(job[j].state, "QUEUED", "server")
  /\ j \notin Threads /\ ~Paused(j) /\ ~ActiveTwin(j) /\ job[j].epoch < MaxEpoch
  /\ job' = [job EXCEPT ![j] = [state |-> "QUEUED", runner |-> NoRunner, boot |-> NoBoot,
                                epoch |-> 0, cancelReq |-> FALSE]]
  /\ cmds' = Withdraw(cmds, j)
  /\ placing' = placing \cup {j}
  /\ UNCHANGED <<rn, paused, recon>>
Requeue(j) ==
  /\ CanTransition(job[j].state, "QUEUED", "server")
  /\ j \notin Threads
  /\ ~Paused(j)
  /\ ~ActiveTwin(j)
  /\ job[j].epoch < MaxEpoch
  /\ job' = [job EXCEPT ![j] = [state |-> "QUEUED", runner |-> NoRunner, boot |-> NoBoot,
                                epoch |-> @.epoch + 1, cancelReq |-> FALSE]]
  /\ cmds' = Withdraw(cmds, j)
  /\ placing' = placing \cup {j}
  /\ UNCHANGED <<rn, paused, recon>>

-----------------------------------------------------------------------------
(* The sync endpoint *)

SyncSeen(r, b) ==
  /\ rn' = [rn EXCEPT ![r].boot = b, ![r].seen = "online"]
  /\ UNCHANGED <<job, cmds, paused, placing, recon>>

\* An ack on a lease the runner no longer holds: STALE, and an ABANDON.
AckStale(c) ==
  LET j == cmds[c].job  r == cmds[c].runner  e == cmds[c].epoch IN
  /\ cmds[c].type # "ABANDON" /\ ~Holds(j, r, e) /\ Room
  /\ cmds' = Abandon(Answer(cmds, c, "STALE"), r, j, e)
  /\ UNCHANGED job

AckAbandon(c, result) ==
  /\ cmds[c].type = "ABANDON"
  /\ cmds' = Answer(cmds, c, result)
  /\ UNCHANGED job

\* An ack on the lease in force, from the sync that carries boot id b.
AckHeld(c, result, b) ==
  LET j == cmds[c].job  type == cmds[c].type  acked == Answer(cmds, c, result) IN
  /\ type # "ABANDON" /\ Holds(j, cmds[c].runner, cmds[c].epoch)
  /\ \/ /\ type = "READOPT" /\ result = "ok"
        /\ job' = [job EXCEPT ![j].boot = b]
        /\ cmds' = acked
     \/ \* On a job that is over, the transition throws and the ack rolls back.
        /\ type = "READOPT" /\ result = "rejected"
        /\ Apply(j, "CRASHED", "server", acked)
     \/ /\ type = "ASSIGN" /\ result = "rejected"
        /\ Apply(j, "FAILED", "runner", acked)
     \/ /\ type = "CANCEL" /\ result = "rejected"
        /\ Apply(j, "CANCELLED", "runner", acked)
     \/ /\ \/ type # "READOPT" /\ result = "ok"
           \/ type = "ASSIGN" /\ ~CanTransition(job[j].state, "FAILED", "runner")
           \/ type = "CANCEL" /\ ~CanTransition(job[j].state, "CANCELLED", "runner")
        /\ cmds' = acked
        /\ UNCHANGED job

Ack(c, result, b) ==
  /\ c \in DOMAIN cmds /\ Pending(c)
  /\ AckStale(c) \/ AckAbandon(c, result) \/ AckHeld(c, result, b)
  /\ UNCHANGED <<rn, paused, placing, recon>>

\* A job report on lease l whose events, in order, end in state to.
Report(l, to) ==
  /\ Holds(l.job, l.runner, l.epoch)
  /\ <<job[l.job].state, to>> \in ReportMoves
  /\ Move(l.job, to, "runner", cmds)
  /\ UNCHANGED <<rn, paused, placing, recon>>

FencedToHolder(l) ==   \* mutant: the ABANDON goes to the job's runner of today
  /\ ~Holds(l.job, l.runner, l.epoch)
  /\ Room
  /\ cmds' = Abandon(cmds, job[l.job].runner, l.job, l.epoch)
  /\ UNCHANGED <<job, rn, paused, placing, recon>>
\* A report, token request or provider-key request on a lease that ended.
Fenced(l) ==
  /\ ~Holds(l.job, l.runner, l.epoch)
  /\ Room
  /\ cmds' = Abandon(cmds, l.runner, l.job, l.epoch)
  /\ UNCHANGED <<job, rn, paused, placing, recon>>

\* reconcileBoot: the unlocked list read, the pending-command reads, the write.
ReconRead(r, b) ==
  /\ Cardinality(recon) < MaxRecon
  /\ recon' = recon \cup
       {[runner |-> r, boot |-> b, job |-> j, epoch |-> job[j].epoch,
         assigned |-> job[j].state = "ASSIGNED", step |-> "check"] :
          j \in {k \in HeldBy(r) : job[k].boot # b}}
  /\ UNCHANGED <<job, cmds, rn, paused, placing>>

ReconCheck(x) ==
  /\ x.step = "check"
  /\ LET resent == x.assigned /\ PendingFor("ASSIGN", x.job, x.epoch) # {}
         asked  == PendingFor("READOPT", x.job, x.epoch) # {}
     IN recon' = (recon \ {x}) \cup
                 IF resent THEN {[x EXCEPT !.step = "touch"]}
                 ELSE IF asked THEN {} ELSE {[x EXCEPT !.step = "readopt"]}
  /\ UNCHANGED <<job, cmds, rn, paused, placing>>

ReconWrite(x) ==
  /\ \/ /\ x.step = "touch"
        /\ job' = [job EXCEPT ![x.job].boot = x.boot]
        /\ UNCHANGED cmds
     \/ /\ x.step = "readopt" /\ Room
        /\ cmds' = Issue(cmds, "READOPT", x.runner, x.job, x.epoch)
        /\ UNCHANGED job
  /\ recon' = recon \ {x}
  /\ UNCHANGED <<rn, paused, placing>>

-----------------------------------------------------------------------------
(* Timers, operators and faults *)

SweepOffline(j) ==   \* mutant: runnerOfflineSec instead of jobCrashSec
  /\ Held(j)
  /\ rn[job[j].runner].seen # "online"
  /\ Apply(j, "CRASHED", "server", cmds)
  /\ UNCHANGED <<rn, paused, placing, recon>>
\* FleetSweeper.crashSilent on one job.
Sweep(j) ==
  /\ Held(j)
  /\ rn[job[j].runner].seen = "silent"
  /\ Apply(j, "CRASHED", "server", cmds)
  /\ UNCHANGED <<rn, paused, placing, recon>>

\* No sync for runnerOfflineSec, then for jobCrashSec.
TimePasses(r) ==
  /\ r \in Fallible
  /\ rn[r].seen # "silent"
  /\ rn' = [rn EXCEPT ![r].seen = IF @ = "online" THEN "offline" ELSE "silent"]
  /\ UNCHANGED <<job, cmds, paused, placing, recon>>

SetEnabled(r) ==
  /\ r \in Switchable
  /\ rn' = [rn EXCEPT ![r].enabled = ~@]
  /\ UNCHANGED <<job, cmds, paused, placing, recon>>

TogglePause(s) ==
  /\ paused' = IF s \in paused THEN paused \ {s} ELSE paused \cup {s}
  /\ UNCHANGED <<job, cmds, rn, placing, recon>>

\* The API process dies: calls after a commit and open transactions are lost.
ApiRestart ==
  /\ placing # {} \/ recon # {}
  /\ placing' = {} /\ recon' = {}
  /\ UNCHANGED <<job, cmds, rn, paused>>

-----------------------------------------------------------------------------
Init ==
  /\ job = [j \in Jobs |-> [state |-> NotCreated, runner |-> NoRunner, boot |-> NoBoot,
                            epoch |-> 0, cancelReq |-> FALSE]]
  /\ cmds = << >>
  /\ rn = [r \in Runners |-> [boot |-> NoBoot, enabled |-> TRUE, seen |-> "online"]]
  /\ paused = {} /\ placing = {} /\ recon = {}

JobsApi == \E j \in Jobs : \/ Dispatch(j) \/ PlaceJob(j) \/ Requeue(j)
                           \/ Cancel(j) \/ CancelForBudget(j) \/ CancelForProjectDelete(j)

SyncApi ==
  \/ \E r \in Runners : \/ \E b \in Boots : SyncSeen(r, b) \/ ReconRead(r, b)
                        \/ \E j \in Jobs : FillOne(r, j)
  \/ \E c \in DOMAIN cmds, result \in {"ok", "rejected"}, b \in Boots : Ack(c, result, b)
  \/ \E l \in Leases : Fenced(l) \/ \E to \in ReportStates : Report(l, to)
  \/ \E x \in recon : ReconCheck(x) \/ ReconWrite(x)

Background ==
  \/ \E j \in Jobs : Sweep(j)
  \/ \E r \in Runners : TimePasses(r) \/ SetEnabled(r)
  \/ \E s \in PauseScopes : TogglePause(s)
  \/ ApiRestart

Next == JobsApi \/ SyncApi \/ Background

Spec == Init /\ [][Next]_vars

-----------------------------------------------------------------------------
(* Properties *)

\* One lease is granted once: no two ASSIGN commands carry the same job and
\* epoch (casAssign under its WHERE state = 'QUEUED', and every later bump).
LeaseUnique ==
  \A c, d \in DOMAIN cmds :
    /\ cmds[c].type = "ASSIGN" /\ cmds[d].type = "ASSIGN"
    /\ cmds[c].job = cmds[d].job /\ cmds[c].epoch = cmds[d].epoch
    => c = d

\* Whoever holds a job was sent an ASSIGN for exactly that lease.
HolderWasAssigned ==
  \A j \in Jobs : Held(j) =>
    [job |-> j, runner |-> job[j].runner, epoch |-> job[j].epoch] \in Leases

\* A job that the server took away (CRASHED) or put back (QUEUED) matches no
\* lease ever granted: whatever its old runners still send is fenced.
TakenAwayIsFenced ==
  \A j \in Jobs : job[j].state \in {"CRASHED", "QUEUED"} =>
    \A l \in Leases : l.job = j => l.epoch < job[j].epoch

\* No ASSIGN or CANCEL outlives its lease: a pending one names a held job and
\* its current holder, so a runner is never told to start or stop for a lease
\* that is over (withdrawal in every terminal transition and in requeue).
NoOrphanCommand ==
  \A c \in DOMAIN cmds :
    Pending(c) /\ cmds[c].type \in {"ASSIGN", "CANCEL"} =>
      Held(cmds[c].job) /\ Holds(cmds[c].job, cmds[c].runner, cmds[c].epoch)

\* A lease is asked to stop at most once, by whichever of the user and the
\* budget stop comes first (cancelRequestedAt).
CancelOnce ==
  \A c, d \in DOMAIN cmds :
    /\ cmds[c].type = "CANCEL" /\ cmds[d].type = "CANCEL"
    /\ cmds[c].job = cmds[d].job /\ cmds[c].epoch = cmds[d].epoch
    => c = d

-----------------------------------------------------------------------------
(* The inductive invariant behind the lease properties *)

\* Every command names a lease that was granted and is no newer than the job.
IssuedEpochs ==
  \A c \in DOMAIN cmds : cmds[c].epoch <= job[cmds[c].job].epoch

\* In a state without a holder no ASSIGN or CANCEL names the current epoch.
UnheldIsFenced ==
  \A c \in DOMAIN cmds :
    /\ cmds[c].type \in {"ASSIGN", "CANCEL"}
    /\ job[cmds[c].job].state \in {NotCreated, "QUEUED", "CRASHED"}
    => cmds[c].epoch < job[cmds[c].job].epoch

\* A holder that was told to stop is marked so (cancelRequestedAt).
CancelMarked ==
  \A c \in DOMAIN cmds :
    LET j == cmds[c].job IN
    cmds[c].type = "CANCEL" /\ Held(j) /\ cmds[c].epoch = job[j].epoch => job[j].cancelReq

\* An epoch a reconciliation or a runner still remembers is not in the future.
KnownEpochs == \A x \in recon : x.epoch <= job[x.job].epoch

\* The lease protocol of FleetJob, strengthened until every step preserves it.
LeaseInv ==
  /\ TypeOK
  /\ IssuedEpochs /\ KnownEpochs
  /\ UnheldIsFenced /\ HolderWasAssigned
  /\ LeaseUnique /\ NoOrphanCommand
  /\ CancelMarked /\ CancelOnce

-----------------------------------------------------------------------------
(* Placement *)

\* Two jobs on one runner never share its checkout of a repository.
OneJobPerCheckout ==
  \A r \in Runners : \A j, k \in HeldBy(r) \ Threads : RepoOf[j] = RepoOf[k] => j = k

\* A job that runs an unrestricted shell shares its machine with no other
\* project's job, whichever of the two came first.
TrustDomains ==
  \A r \in Runners : \A j, k \in HeldBy(r) : ~TrustClash(j, k)

\* The lease epoch never goes down.
EpochMonotone == [][\A j \in Jobs : job'[j].epoch >= job[j].epoch]_vars

\* A held job is declared CRASHED only when its runner has been silent for
\* jobCrashSec or has rejected the READOPT of this very lease: a rejection that
\* belongs to an earlier lease never kills a later one.
CrashWarranted ==
  [][\A j \in Jobs : Held(j) /\ job'[j].state = "CRASHED" =>
       \/ rn[job[j].runner].seen = "silent"
       \/ \E c \in DOMAIN cmds :
            /\ cmds[c].type = "READOPT" /\ Pending(c) /\ cmds'[c].ack = "rejected"
            /\ cmds[c].job = j /\ Holds(j, cmds[c].runner, cmds[c].epoch)]_vars

-----------------------------------------------------------------------------
(* What the server promises: see ExclusiveLease *)

InForce == {[job |-> j, runner |-> job[j].runner, epoch |-> job[j].epoch] :
              j \in {k \in Jobs : Held(k)}}

Exclusive == INSTANCE ExclusiveLease
  WITH Epochs <- 1..MaxEpoch, granted <- Leases, inForce <- InForce

\* Every step of the server grants one new lease, ends one, or leaves them all
\* as they are.
ImplementsExclusiveLease == Exclusive!LeaseSpec
=============================================================================
