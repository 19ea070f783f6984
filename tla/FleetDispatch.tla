---------------------------- MODULE FleetDispatch ----------------------------
(***************************************************************************)
(* The server of FleetJob and the daemons of FleetRunner, joined by the    *)
(* sync exchange: a request with acks and events, the server's handling of *)
(* it one transaction at a time, a reply with acked sequence numbers and   *)
(* pending commands.  Requests, replies, daemons and the API process can   *)
(* be lost at every point.                                                 *)
(*                                                                         *)
(* A runner has one exchange at a time: what a second, overlapping request *)
(* adds on the server is left to FleetJob, where every report and ack may  *)
(* come at any time.                                                       *)
(***************************************************************************)
EXTENDS FleetJob, FiniteSetsExt

CONSTANTS
  Verdicts,  \* as in FleetRunner
  Patient,   \* TRUE: uploadAckWaitMs never runs out
  MaxBoot,   \* bound: boots of a machine
  MaxLoss    \* bound: lost requests, lost replies and API restarts

ASSUME VerdictAssumption == Verdicts \subseteq {"COMPLETED", "FAILED", "ESCALATED"}
ASSUME BootAssumption ==
  MaxBoot \in Nat /\ MaxLoss \in Nat /\ Boots = 1..MaxBoot /\ NoBoot = 0

VARIABLES
  up, boot, rows, applied, acks, runs, procs,  \* the machines, see FleetRunner
  ackedSeq,  \* ackedRunnerSeq of the job rows
  sync,      \* the exchange of each runner
  lost       \* faults so far

R == INSTANCE FleetRunner

machines  == <<up, boot, rows, applied, acks, runs, procs>>
dispatchVars == <<vars, machines, ackedSeq, sync, lost>>

-----------------------------------------------------------------------------
(* The exchange *)

\* at: sent (request under way), acks, jobs, boot, fill (the server's loops, in
\* this order), answered (reply under way), handling (CommandHandler.handle).
NoSync == [at |-> "idle", boot |-> NoBoot, sent |-> {}, acks |-> {}, reports |-> {},
           slots |-> 0, seqs |-> {}, ids |-> {}, done |-> {}]
AtServer == {"acks", "jobs", "boot", "fill"}

Put(r, x) == [sync EXCEPT ![r] = x]
At(r, phase) == sync[r].at = phase

\* One report per job, at its highest epoch with unsent events.
Reports(r) ==
  {[job |-> w.job, epoch |-> w.epoch, from |-> w.acked,
    events |-> SubSeq(w.events, w.acked + 1, Len(w.events))] :
     w \in {v \in rows[r] : /\ R!Unsent(v)
                            /\ \A u \in rows[r] : u.job = v.job /\ R!Unsent(u) => u.epoch <= v.epoch}}

Slots(r) ==
  LET active == Cardinality({w \in rows[r] : ~w.done})
  IN IF active < Capacity[r] THEN Capacity[r] - active ELSE 0

RenumberedNever ==   \* mutant: a new lease goes on from the old acked event
  ackedSeq
\* A new lease or a requeued job starts its event log over.
Renumbered == [j \in Jobs |-> IF job'[j].epoch # job[j].epoch /\ job'[j].state \in {"ASSIGNED", "QUEUED"}
                              THEN 0 ELSE ackedSeq[j]]

SendSync(r) ==
  /\ r \in up /\ At(r, "idle")
  /\ sync' = Put(r, [NoSync EXCEPT !.at = "sent", !.boot = boot[r], !.sent = acks[r],
                                   !.acks = acks[r], !.reports = Reports(r), !.slots = Slots(r)])
  /\ UNCHANGED <<vars, machines, ackedSeq, lost>>

SyncArrives(r) ==
  /\ At(r, "sent")
  /\ SyncSeen(r, sync[r].boot)
  /\ sync' = Put(r, [sync[r] EXCEPT !.at = "acks"])
  /\ UNCHANGED <<machines, ackedSeq, lost>>

\* An ack whose transaction rejects an illegal transition rolls back.
AckThrows(c, result) ==
  /\ cmds[c].type = "READOPT" /\ result = "rejected"
  /\ Holds(cmds[c].job, cmds[c].runner, cmds[c].epoch)
  /\ ~CanTransition(job[cmds[c].job].state, "CRASHED", "server")

ServerAck(r) ==
  /\ At(r, "acks") /\ sync[r].acks # {}
  /\ LET c == Min(sync[r].acks)  result == applied[r][c] IN
     /\ sync' = Put(r, [sync[r] EXCEPT !.acks = @ \ {c}])
     /\ \/ Ack(c, result, sync[r].boot)
        \/ (~Pending(c) \/ AckThrows(c, result)) /\ UNCHANGED vars
  /\ UNCHANGED <<machines, ackedSeq, lost>>

\* applyContiguous: the events after the last acked one, in order, those the
\* job's state refuses being stored and skipped.
After(state, events) ==
  LET at[n \in 0..Len(events)] ==
        IF n = 0 THEN state
        ELSE IF CanTransition(at[n - 1], events[n], "runner") THEN events[n] ELSE at[n - 1]
  IN at[Len(events)]
NewEvents(p) ==
  IF p.from > ackedSeq[p.job] THEN << >>
  ELSE SubSeq(p.events, ackedSeq[p.job] - p.from + 1, Len(p.events))

ReportTaken(r, p) ==
  LET to  == After(job[p.job].state, NewEvents(p))
      seq == ackedSeq[p.job] + Len(NewEvents(p))
  IN /\ Holds(p.job, r, p.epoch)
     /\ IF to = job[p.job].state THEN UNCHANGED vars
        ELSE Report([job |-> p.job, runner |-> r, epoch |-> p.epoch], to)
     /\ ackedSeq' = [ackedSeq EXCEPT ![p.job] = seq]
     /\ sync' = Put(r, [sync[r] EXCEPT !.at = "jobs", !.reports = @ \ {p},
                          !.seqs = @ \cup {[job |-> p.job, epoch |-> p.epoch, seq |-> seq]}])

ReportFenced(r, p) ==
  /\ Fenced([job |-> p.job, runner |-> r, epoch |-> p.epoch])
  /\ sync' = Put(r, [sync[r] EXCEPT !.at = "jobs", !.reports = @ \ {p}])
  /\ UNCHANGED ackedSeq

ServerReport(r) ==
  /\ At(r, "acks") \/ At(r, "jobs")
  /\ sync[r].acks = {}
  /\ \E p \in sync[r].reports : ReportTaken(r, p) \/ ReportFenced(r, p)
  /\ UNCHANGED <<machines, lost>>

ServerReconcile(r) ==
  /\ At(r, "acks") \/ At(r, "jobs")
  /\ sync[r].acks = {} /\ sync[r].reports = {}
  /\ ReconRead(r, sync[r].boot)
  /\ sync' = Put(r, [sync[r] EXCEPT !.at = "boot"])
  /\ UNCHANGED <<machines, ackedSeq, lost>>

ServerReconciles(r) ==
  /\ At(r, "boot")
  /\ \E x \in recon : x.runner = r /\ (ReconCheck(x) \/ ReconWrite(x))
  /\ UNCHANGED <<machines, ackedSeq, sync, lost>>

\* fillRunner; the pass may end early, its candidates being read once and a
\* failing placement only logged.
ServerFill(r) ==
  /\ At(r, "boot") \/ At(r, "fill")
  /\ \A x \in recon : x.runner # r
  /\ sync[r].slots > 0
  /\ \E j \in Jobs : FillOne(r, j)
  /\ ackedSeq' = Renumbered
  /\ sync' = Put(r, [sync[r] EXCEPT !.at = "fill",
                       !.slots = IF HeldBy(r)' = HeldBy(r) THEN @ ELSE @ - 1])
  /\ UNCHANGED <<machines, lost>>

\* deliver: every pending command of the runner, the already delivered too.
ServerReplies(r) ==
  /\ At(r, "boot") \/ At(r, "fill")
  /\ \A x \in recon : x.runner # r
  /\ sync' = Put(r, [sync[r] EXCEPT !.at = "answered", !.slots = 0,
                       !.ids = {c \in DOMAIN cmds : Pending(c) /\ cmds[c].runner = r}])
  /\ UNCHANGED <<vars, machines, ackedSeq, lost>>

\* SyncLoop.apply, up to the commands.
AckedThrough(r, w) ==
  LET seqs == {s.seq : s \in {q \in sync[r].seqs : q.job = w.job /\ q.epoch = w.epoch}}
  IN [w EXCEPT !.acked = Max(seqs \cup {w.acked})]

ReceiveReply(r) ==
  /\ At(r, "answered") /\ r \in up /\ sync[r].boot = boot[r]
  /\ rows' = [rows EXCEPT ![r] = {AckedThrough(r, w) : w \in @}]
  /\ acks' = [acks EXCEPT ![r] = @ \ sync[r].sent]
  /\ sync' = Put(r, [NoSync EXCEPT !.at = "handling", !.boot = boot[r], !.ids = sync[r].ids])
  /\ UNCHANGED <<vars, up, boot, applied, runs, procs, ackedSeq, lost>>

Settled(r) == \A x \in runs[r] : x.phase # "accepted"

HandleCommand(r) ==
  /\ At(r, "handling") /\ sync[r].ids # {} /\ Settled(r)
  /\ LET c == Min(sync[r].ids) IN
     /\ R!Handle(r, c, cmds[c].type, cmds[c].job, cmds[c].epoch)
     /\ sync' = Put(r, [sync[r] EXCEPT !.ids = @ \ {c}, !.done = @ \cup {c}])
  /\ UNCHANGED <<vars, acks, ackedSeq, lost>>

BeginAssigned(r) ==
  R!BeginAssigned(r) /\ UNCHANGED <<vars, ackedSeq, sync, lost>>

\* Only the whole batch's acks join the pending ones.
EndSync(r) ==
  /\ At(r, "handling") /\ sync[r].ids = {} /\ Settled(r)
  /\ acks' = [acks EXCEPT ![r] = @ \cup sync[r].done]
  /\ sync' = Put(r, NoSync)
  /\ UNCHANGED <<vars, up, boot, rows, applied, runs, procs, ackedSeq, lost>>

\* A reply nobody waits for any more.
Discard(r) ==
  /\ At(r, "answered") /\ (r \notin up \/ sync[r].boot # boot[r])
  /\ sync' = Put(r, NoSync)
  /\ UNCHANGED <<vars, machines, ackedSeq, lost>>

-----------------------------------------------------------------------------
(* Runs and their machines *)

RunStep(r) == R!RunStep(r) /\ UNCHANGED <<vars, ackedSeq, sync, lost>>

\* The bundle's own transaction (assertHolder) gives the answer; an upload that
\* fails for another reason ends the run as one that was taken.
UploadBundle(r) ==
  /\ \E x \in runs[r] : \E w \in R!RowsFor(r, x.job, x.epoch) :
       LET holds == Holds(w.job, r, w.epoch) IN
       /\ R!MayUpload(w, Patient)
       /\ \/ R!RunUploads(r, x, w, "done") /\ UNCHANGED vars
          \/ ~holds /\ R!RunUploads(r, x, w, "stale")
                    /\ Fenced([job |-> w.job, runner |-> r, epoch |-> w.epoch])
          \/ /\ holds /\ job[w.job].state \notin {"RUNNING", "UPLOADING"}
             /\ R!RunUploads(r, x, w, "conflict") /\ UNCHANGED vars
  /\ UNCHANGED <<ackedSeq, sync, lost>>

ProcExits(r) == R!ProcExits(r) /\ UNCHANGED <<vars, ackedSeq, sync, lost>>

\* An exchange that the server has in hand goes on without its runner.
Crash(r) ==
  /\ boot[r] < MaxBoot
  /\ R!Crash(r)
  /\ sync' = IF At(r, "handling") THEN Put(r, NoSync) ELSE sync
  /\ UNCHANGED <<vars, ackedSeq, lost>>

Start(r) == boot[r] < MaxBoot /\ R!Start(r) /\ UNCHANGED <<vars, ackedSeq, sync, lost>>

-----------------------------------------------------------------------------
(* The server's other callers, and faults *)

ServerApi ==
  /\ \/ JobsApi
     \/ \E j \in Jobs : Sweep(j)
     \/ \E r \in Runners : TimePasses(r)
  /\ ackedSeq' = Renumbered
  /\ UNCHANGED <<machines, sync, lost>>

LoseMessage(r) ==
  /\ At(r, "sent") \/ At(r, "answered")
  /\ lost < MaxLoss /\ lost' = lost + 1
  /\ sync' = Put(r, NoSync)
  /\ UNCHANGED <<vars, machines, ackedSeq>>

ApiCrash ==
  /\ lost < MaxLoss /\ lost' = lost + 1
  /\ placing # {} \/ recon # {} \/ \E r \in Runners : sync[r].at \in AtServer
  /\ placing' = {} /\ recon' = {}
  /\ sync' = [r \in Runners |-> IF sync[r].at \in AtServer THEN NoSync ELSE sync[r]]
  /\ UNCHANGED <<job, cmds, rn, paused, machines, ackedSeq>>

-----------------------------------------------------------------------------
DispatchInit ==
  /\ Init /\ R!RunnerInit
  /\ ackedSeq = [j \in Jobs |-> 0]
  /\ sync = [r \in Runners |-> NoSync]
  /\ lost = 0

Exchange(r) ==
  \/ SendSync(r) \/ SyncArrives(r) \/ ServerAck(r) \/ ServerReport(r)
  \/ ServerReconcile(r) \/ ServerReconciles(r) \/ ServerReplies(r)
  \/ ReceiveReply(r) \/ HandleCommand(r) \/ BeginAssigned(r) \/ EndSync(r) \/ Discard(r)

Machine(r) == RunStep(r) \/ UploadBundle(r) \/ ProcExits(r) \/ Start(r)

Faults(r) == Crash(r) \/ LoseMessage(r)

DispatchNext ==
  \/ \E r \in Runners : Exchange(r) \/ ServerFill(r) \/ Machine(r) \/ Faults(r)
  \/ ServerApi \/ ApiCrash

DispatchSpec == DispatchInit /\ [][DispatchNext]_dispatchVars

\* The sync loop runs forever, every run, upload and process ends, and a
\* machine's service manager starts its daemon again.  Nothing is assumed of
\* users, timers or faults.
Fairness ==
  \A r \in Runners : /\ WF_dispatchVars(Exchange(r))
                     /\ WF_dispatchVars(RunStep(r)) /\ WF_dispatchVars(UploadBundle(r))
                     /\ WF_dispatchVars(ProcExits(r)) /\ WF_dispatchVars(Start(r))

FairSpec == DispatchSpec /\ Fairness

-----------------------------------------------------------------------------
(* Properties *)

\* What the server believes of a held lease is what the runner journaled, up to
\* the acked event: no event is applied twice, skipped, or applied to the next
\* lease of the job, and the runner never thinks more was taken than was.
HeldStateIsReported ==
  \A r \in Runners : \A w \in rows[r] :
    Held(w.job) /\ Holds(w.job, r, w.epoch) =>
      /\ w.acked <= ackedSeq[w.job] /\ ackedSeq[w.job] <= Len(w.events)
      /\ job[w.job].state = After("ASSIGNED", SubSeq(w.events, 1, ackedSeq[w.job]))

\* A machine runs one nax process of a job at a time, whatever leases of the
\* job it was given (CommandHandler.assign drops the older attempt first).
OneProcess ==
  \A r \in Runners : \A p, q \in procs[r] : p.job = q.job => p = q

\* When a runner's own report ended a job, nothing of that lease runs any more
\* (JobRun.failSafe, reap before a resumed prepare).
ReportedIsStopped ==
  \A r \in Runners : \A p \in procs[r] :
    job[p.job].state \in TerminalStates => ~Holds(p.job, r, p.epoch)

\* Every held job is let go of: it ends, or the server takes it away.
HeldEnds == \A j \in Jobs : Held(j) ~> ~Held(j)

\* A lease that is over on the server does not stay on its machine for ever: the
\* row is done, or its run goes on, or the next exchange brings an event that the
\* fence turns down or a command, though an earlier one was lost.  A row that
\* nothing is told about takes a slot, and its process runs, for good.
Lingers(r, j, e) ==
  /\ ~(Held(j) /\ Holds(j, r, e))
  /\ \E w \in R!RowsFor(r, j, e) : ~w.done
LateLeaseIsTold ==
  \A r \in Runners, j \in Jobs, e \in 1..MaxEpoch :
    Lingers(r, j, e) /\ At(r, "idle") =>
      \/ R!RunsFor(r, j, e) # {}
      \/ \E w \in R!RowsFor(r, j, e) : R!Unsent(w)
      \/ \E c \in DOMAIN cmds : /\ Pending(c) /\ cmds[c].runner = r
                                /\ cmds[c].job = j /\ cmds[c].epoch = e
=============================================================================
