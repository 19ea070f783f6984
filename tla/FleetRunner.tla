---------------------------- MODULE FleetRunner ----------------------------
(***************************************************************************)
(* The daemon on a runner machine: the journal it persists before it says  *)
(* anything, the command handler, and one job run per lease.  The module   *)
(* has no next-state relation of its own: FleetDispatch composes its       *)
(* actions with the server's.                                              *)
(*                                                                         *)
(* rows and applied are the journal, and procs are nax processes: all      *)
(* three outlive the daemon.  acks and runs are its memory.  An event is a *)
(* state event, and the n-th event of a row has sequence number n.  The    *)
(* git, checkout and bundle work of a run is the choice of an outcome.     *)
(***************************************************************************)
EXTENDS Integers, Sequences, FiniteSets, FleetJobState

CONSTANTS
  Runners, Jobs,
  Verdicts        \* how a nax run that was not cancelled can end

VARIABLES
  up,       \* daemons that run
  boot,     \* boot id of a machine's latest daemon, 0 before the first
  rows,     \* jobs and events tables: one row per lease
  applied,  \* applied_commands table: command id -> recorded result
  acks,     \* SyncLoop.pendingAcks, results in applied
  runs,     \* Supervisor.runs: leases with a run, and where the run is
  procs     \* live nax processes; known: the pid is in the journal

runnerVars == <<up, boot, rows, applied, acks, runs, procs>>

-----------------------------------------------------------------------------
Lease(j, e) == [job |-> j, epoch |-> e]
LeaseOf(x)  == Lease(x.job, x.epoch)

NewRow(j, e) == [job |-> j, epoch |-> e, events |-> << >>, acked |-> 0,
                 pid |-> FALSE, cancel |-> FALSE, done |-> FALSE]

RowsFor(r, j, e) == {w \in rows[r] : w.job = j /\ w.epoch = e}
RunsFor(r, j, e) == {x \in runs[r] : x.job = j /\ x.epoch = e}
Unsent(w)        == w.acked < Len(w.events)
LocalState(w)    == IF w.events = << >> THEN "ASSIGNED" ELSE w.events[Len(w.events)]
Over(w)          == LocalState(w) \in TerminalStates
Live(r, w)       == {p \in procs[r] : LeaseOf(p) = LeaseOf(w)}

Emit(w, to)      == [w EXCEPT !.events = Append(@, to)]
Changed(r, w, v) == [rows EXCEPT ![r] = (@ \ {w}) \cup {v}]
Ended(r, x)      == [runs EXCEPT ![r] = @ \ {x}]
Step(r, x, to)   == [runs EXCEPT ![r] = (@ \ {x}) \cup {[x EXCEPT !.phase = to]}]
Recorded(r, id, result) ==
  [applied EXCEPT ![r] = [c \in {id} \cup DOMAIN applied[r] |->
                            IF c = id THEN result ELSE applied[r][c]]]

\* Supervisor.begin: a no-op while a run of the lease exists; a run that finds
\* its row done lets go at once.
Begun(r, w, phase) ==
  IF RunsFor(r, w.job, w.epoch) # {} \/ w.done THEN runs[r]
  ELSE runs[r] \cup {[job |-> w.job, epoch |-> w.epoch, phase |-> phase]}

Fresh(w) == LocalState(w) = "ASSIGNED" /\ ~w.pid

\* resumeStranded: an assigned row that never started gets a run again.
Resumed(r, j, e) ==
  runs[r] \cup UNION {Begun(r, w, "reprepare") : w \in {v \in RowsFor(r, j, e) : Fresh(v)}}

KilledJournaled(r, w) ==   \* mutant: does not wait for a run that is spawning
  {p \in Live(r, w) : p.known}
\* killIfOurs: only a process whose pid is in the journal; a run that is still
\* in memory journals it before it lets go of the repository.
Killed(r, w) == {p \in Live(r, w) : p.known \/ RunsFor(r, w.job, w.epoch) # {}}
\* reap: every registered nax of the job started since the row was created.
Reaped(r, w) == {p \in procs[r] : p.job = w.job /\ p.epoch >= w.epoch}

HigherEpochLive(r, w) == \E v \in rows[r] : v.job = w.job /\ v.epoch > w.epoch /\ ~v.done

-----------------------------------------------------------------------------
(* CommandHandler: one command, applied and recorded *)

Replayed(r, id) == id \in DOMAIN applied[r]

ReplayOnly(r, id, type, j, e) ==   \* mutant: resumes no run
  Replayed(r, id) /\ UNCHANGED <<rows, runs, applied, procs>>

\* A recorded command is answered from the record; only an ASSIGN that was
\* applied looks for a run that a restart lost.
Replay(r, id, type, j, e) ==
  /\ Replayed(r, id)
  /\ runs' = IF type = "ASSIGN" /\ applied[r][id] = "ok"
             THEN [runs EXCEPT ![r] = Resumed(r, j, e)] ELSE runs
  /\ UNCHANGED <<rows, applied, procs>>

RejectAssign(r, id) ==
  /\ applied' = Recorded(r, id, "rejected")
  /\ UNCHANGED <<rows, runs, procs>>

\* The row and the record are one journal transaction; what follows is not.
AcceptAssign(r, id, j, e) ==
  /\ applied' = Recorded(r, id, "ok")
  /\ \/ /\ RowsFor(r, j, e) # {}
        /\ runs' = [runs EXCEPT ![r] = Resumed(r, j, e)]
        /\ UNCHANGED rows
     \/ /\ RowsFor(r, j, e) = {}
        /\ rows' = [rows EXCEPT ![r] = @ \cup {NewRow(j, e)}]
        /\ runs' = [runs EXCEPT ![r] = @ \cup {[job |-> j, epoch |-> e, phase |-> "accepted"]}]
  /\ UNCHANGED procs

HandleAssign(r, id, j, e) ==
  ~Replayed(r, id) /\ (AcceptAssign(r, id, j, e) \/ RejectAssign(r, id))

\* Older attempts go first, leaving reap and cleanup to the live higher epoch.
BeginAssigned(r) ==
  /\ \E x \in runs[r] :
       LET older == {w \in rows[r] : w.job = x.job /\ w.epoch < x.epoch} IN
       /\ x.phase = "accepted"
       /\ rows' = [rows EXCEPT ![r] = @ \ older]
       /\ procs' = [procs EXCEPT ![r] = @ \ UNION {Killed(r, w) : w \in older}]
       /\ runs' = [runs EXCEPT ![r] =
                     {y \in @ \ {x} : y.job = x.job => y.epoch > x.epoch}
                     \cup {[x EXCEPT !.phase = "prepare"]}]
  /\ UNCHANGED <<up, boot, applied, acks>>

\* A run that has not started ends at once; any other is marked and signalled.
\* Without a run the row is marked for a later READOPT.
HandleCancel(r, id, j, e) ==
  /\ ~Replayed(r, id)
  /\ applied' = Recorded(r, id, IF RowsFor(r, j, e) = {} THEN "rejected" ELSE "ok")
  /\ \/ RowsFor(r, j, e) = {} /\ UNCHANGED <<rows, runs>>
     \/ \E w \in RowsFor(r, j, e), x \in RunsFor(r, j, e) :   \* endWhileQueued
          /\ x.phase \in {"prepare", "reprepare"} /\ LocalState(w) = "ASSIGNED"
          /\ rows' = Changed(r, w, [Emit(w, "CANCELLED") EXCEPT !.cancel = TRUE, !.done = TRUE])
          /\ runs' = Ended(r, x)
     \/ \E w \in RowsFor(r, j, e) :
          /\ rows' = IF Over(w) THEN rows ELSE Changed(r, w, [w EXCEPT !.cancel = TRUE])
          /\ UNCHANGED runs
  /\ UNCHANGED procs

HandleAbandon(r, id, j, e) ==
  /\ ~Replayed(r, id)
  /\ applied' = Recorded(r, id, "ok")
  /\ rows' = [rows EXCEPT ![r] = @ \ RowsFor(r, j, e)]
  /\ runs' = [runs EXCEPT ![r] = @ \ RunsFor(r, j, e)]
  /\ procs' = [procs EXCEPT ![r] = @ \ UNION {Killed(r, w) \cup
                 (IF HigherEpochLive(r, w) THEN {} ELSE Reaped(r, w)) : w \in RowsFor(r, j, e)}]

\* readopt: what happens to the row w.
ReadoptOk(r, w) ==
  \/ /\ RunsFor(r, w.job, w.epoch) # {}
     /\ UNCHANGED <<rows, runs>>
  \/ /\ RunsFor(r, w.job, w.epoch) = {} /\ Over(w)
     /\ rows' = Changed(r, w, [w EXCEPT !.done = TRUE])
     /\ UNCHANGED runs
  \/ /\ Fresh(w)
     /\ runs' = [runs EXCEPT ![r] = Begun(r, w, "reprepare")]
     /\ UNCHANGED rows
  \/ \* A live process that is ours is watched, a final status is finished.
     /\ w.pid /\ ~Over(w)
     /\ runs' = [runs EXCEPT ![r] = Begun(r, w, IF Live(r, w) # {} THEN "watch" ELSE "finish")]
     /\ UNCHANGED rows

\* Run id mismatch, stale heartbeat, or a process gone without a final status.
ReadoptRejects(r, w) ==
  /\ RunsFor(r, w.job, w.epoch) = {} /\ w.pid /\ ~Over(w)
  /\ rows' = Changed(r, w, [w EXCEPT !.done = TRUE])
  /\ procs' = [procs EXCEPT ![r] = @ \ (Killed(r, w) \cup Reaped(r, w))]
  /\ UNCHANGED runs

HandleReadopt(r, id, j, e) ==
  /\ ~Replayed(r, id)
  /\ \/ /\ RowsFor(r, j, e) = {}
        /\ applied' = Recorded(r, id, "rejected")
        /\ UNCHANGED <<rows, runs, procs>>
     \/ \E w \in RowsFor(r, j, e) :
          \/ /\ ReadoptOk(r, w)
             /\ applied' = Recorded(r, id, "ok")
             /\ UNCHANGED procs
          \/ /\ ReadoptRejects(r, w)
             /\ applied' = Recorded(r, id, "rejected")

Handle(r, id, type, j, e) ==
  /\ \/ Replay(r, id, type, j, e)
     \/ type = "ASSIGN"  /\ HandleAssign(r, id, j, e)
     \/ type = "CANCEL"  /\ HandleCancel(r, id, j, e)
     \/ type = "ABANDON" /\ HandleAbandon(r, id, j, e)
     \/ type = "READOPT" /\ HandleReadopt(r, id, j, e)
  /\ UNCHANGED <<up, boot>>

-----------------------------------------------------------------------------
(* JobRun: one step of the run x of row w *)

\* A cancel seen before the spawn, or a prepare that failed.  A resumed prepare
\* reaps what was spawned before the crash, but looks for a cancel first.
RunEndsEarly(r, x, w) ==
  /\ x.phase \in {"prepare", "reprepare"}
  /\ \E to \in {"CANCELLED", "FAILED"}, reaped \in BOOLEAN :
       /\ to = "CANCELLED" => w.cancel
       /\ to = "FAILED" => reaped = (x.phase = "reprepare")
       /\ reaped => x.phase = "reprepare"
       /\ rows' = Changed(r, w, [Emit(w, to) EXCEPT !.done = TRUE])
       /\ procs' = IF reaped THEN [procs EXCEPT ![r] = @ \ Reaped(r, w)] ELSE procs
  /\ runs' = Ended(r, x)
  /\ UNCHANGED <<up, boot, applied, acks>>

\* A resumed prepare reaps first; then nax runs, its pid not yet journaled.
RunSpawn(r, x, w) ==
  /\ x.phase \in {"prepare", "reprepare"} /\ ~w.cancel
  /\ procs' = [procs EXCEPT ![r] = (@ \ IF x.phase = "reprepare" THEN Reaped(r, w) ELSE {})
                                   \cup {[job |-> w.job, epoch |-> w.epoch, known |-> FALSE]}]
  /\ runs' = Step(r, x, "spawned")
  /\ UNCHANGED <<up, boot, rows, applied, acks>>

RunRecords(r, x, w) ==
  /\ x.phase = "spawned"
  /\ rows' = Changed(r, w, [Emit(w, "RUNNING") EXCEPT !.pid = TRUE])
  /\ procs' = [procs EXCEPT ![r] = {IF LeaseOf(p) = LeaseOf(w) THEN [p EXCEPT !.known = TRUE]
                                    ELSE p : p \in @}]
  /\ runs' = Step(r, x, "watch")
  /\ UNCHANGED <<up, boot, applied, acks>>

RunFinishesEarly(r, x, w) ==   \* mutant: does not wait for the process
  /\ x.phase \in {"watch", "finish"}
  /\ rows' = IF LocalState(w) = "RUNNING" THEN Changed(r, w, Emit(w, "UPLOADING")) ELSE rows
  /\ runs' = Step(r, x, "upload")
  /\ UNCHANGED <<up, boot, applied, acks, procs>>

\* The process is gone: reap what it left, and report UPLOADING.
RunFinishes(r, x, w) ==
  /\ x.phase \in {"watch", "finish"}
  /\ x.phase = "watch" => Live(r, w) = {}
  /\ rows' = IF LocalState(w) = "RUNNING" THEN Changed(r, w, Emit(w, "UPLOADING")) ELSE rows
  /\ procs' = IF x.phase = "watch" THEN [procs EXCEPT ![r] = @ \ Reaped(r, w)] ELSE procs
  /\ runs' = Step(r, x, "upload")
  /\ UNCHANGED <<up, boot, applied, acks>>

\* failSafe: an error ends the run by a legal path, and its processes first.
RunFails(r, x, w) ==
  /\ x.phase \in {"watch", "finish", "upload"} /\ ~Over(w)
  /\ LET v == IF LocalState(w) = "RUNNING" THEN Emit(w, "UPLOADING") ELSE w
     IN rows' = Changed(r, w, [Emit(v, "FAILED") EXCEPT !.done = TRUE])
  /\ procs' = [procs EXCEPT ![r] = @ \ (Killed(r, w) \cup Reaped(r, w))]
  /\ runs' = Ended(r, x)
  /\ UNCHANGED <<up, boot, applied, acks>>

\* UPLOADING is acked (uploadingPending), or the wait for it timed out.
MayUpload(w, patient) == patient => ~Unsent(w)

\* The upload's answer: taken (or given up on), fenced, or refused twice.
RunUploads(r, x, w, answer) ==
  /\ x.phase = "upload"
  /\ \/ /\ answer = "done"
        /\ \E to \in Verdicts \cup {"CANCELLED"} :   \* judged before a late cancel
             /\ to = "CANCELLED" => w.cancel
             /\ rows' = Changed(r, w, [Emit(w, to) EXCEPT !.done = TRUE])
     \/ answer = "stale" /\ UNCHANGED rows   \* parked until ABANDON
     \/ answer = "conflict" /\ rows' = Changed(r, w, [w EXCEPT !.done = TRUE])
  /\ runs' = Ended(r, x)
  /\ UNCHANGED <<up, boot, applied, acks, procs>>

RunStep(r) ==
  \E x \in runs[r] : \E w \in RowsFor(r, x.job, x.epoch) :
    \/ RunEndsEarly(r, x, w) \/ RunSpawn(r, x, w) \/ RunRecords(r, x, w)
    \/ RunFinishes(r, x, w) \/ RunFails(r, x, w)

-----------------------------------------------------------------------------
(* Processes, crashes and restarts *)

ProcExits(r) ==
  /\ \E p \in procs[r] : procs' = [procs EXCEPT ![r] = @ \ {p}]
  /\ UNCHANGED <<up, boot, rows, applied, acks, runs>>

\* kill -9 of the daemon: nax lives on, everything in memory is gone.
Crash(r) ==
  /\ r \in up
  /\ up' = up \ {r}
  /\ acks' = [acks EXCEPT ![r] = {}]
  /\ runs' = [runs EXCEPT ![r] = {}]
  /\ UNCHANGED <<boot, rows, applied, procs>>

\* A start makes a new boot id and resumes nothing by itself.
Start(r) ==
  /\ r \notin up
  /\ up' = up \cup {r}
  /\ boot' = [boot EXCEPT ![r] = @ + 1]
  /\ UNCHANGED <<rows, applied, acks, runs, procs>>

-----------------------------------------------------------------------------
RunnerInit ==
  /\ up = {} /\ boot = [r \in Runners |-> 0]
  /\ rows = [r \in Runners |-> {}]
  /\ applied = [r \in Runners |-> << >>]
  /\ acks = [r \in Runners |-> {}]
  /\ runs = [r \in Runners |-> {}]
  /\ procs = [r \in Runners |-> {}]
=============================================================================
