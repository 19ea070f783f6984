--------------------------- MODULE FleetJobProofs ---------------------------
(***************************************************************************)
(* Proofs about FleetJob for every value of its constants.                 *)
(*                                                                         *)
(* LeaseInv is the inductive invariant.  The steps that touch job and cmds *)
(* fall into five kinds (a transition, a placement, a request to cancel, a *)
(* command or an answer that leaves the job's lease alone, a requeue), and *)
(* there is one lemma for each; an action only has to be recognised as one *)
(* of them.                                                                *)
(***************************************************************************)
EXTENDS FleetJob, TLAPS

\* cs lists the commands of cmds, some answered since.
Answered(cs) ==
  /\ cs \in Seq(Command) /\ Len(cs) = Len(cmds) /\ DOMAIN cs = DOMAIN cmds
  /\ \A c \in DOMAIN cmds :
       /\ cs[c].type = cmds[c].type /\ cs[c].runner = cmds[c].runner
       /\ cs[c].job = cmds[c].job /\ cs[c].epoch = cmds[c].epoch
       /\ cs[c].ack = "none" => cmds[c].ack = "none"

\* LeaseInv without the rows no lease depends on.
RowInv ==
  /\ job \in [Jobs -> JobRecord] /\ cmds \in Seq(Command)
  /\ IssuedEpochs /\ UnheldIsFenced /\ HolderWasAssigned
  /\ LeaseUnique /\ NoOrphanCommand /\ CancelMarked /\ CancelOnce

-----------------------------------------------------------------------------
(* Facts about the command table *)

\* A command id is a position in the table, and what stands there is a command.
LEMMA CmdDomain ==
  ASSUME NEW cs \in Seq(Command)
  PROVE  DOMAIN cs = 1..Len(cs) /\ Len(cs) \in Nat /\ \A c \in DOMAIN cs : cs[c] \in Command
  OBVIOUS

\* Withdraw answers every pending command of j but ABANDON and changes nothing else.
LEMMA WithdrawFacts ==
  ASSUME NEW cs \in Seq(Command), NEW j
  PROVE  /\ Withdraw(cs, j) \in Seq(Command)
         /\ Len(Withdraw(cs, j)) = Len(cs) /\ DOMAIN Withdraw(cs, j) = DOMAIN cs
         /\ \A c \in DOMAIN cs :
              /\ Withdraw(cs, j)[c].type = cs[c].type
              /\ Withdraw(cs, j)[c].runner = cs[c].runner
              /\ Withdraw(cs, j)[c].job = cs[c].job
              /\ Withdraw(cs, j)[c].epoch = cs[c].epoch
              /\ Withdraw(cs, j)[c].ack = "none" =>
                   cs[c].ack = "none" /\ (cs[c].job # j \/ cs[c].type = "ABANDON")
<1>1. cs \in [1..Len(cs) -> Command] /\ DOMAIN cs = 1..Len(cs) /\ Len(cs) \in Nat
  OBVIOUS
<1>2. Withdraw(cs, j) \in [1..Len(cs) -> Command]
  BY <1>1 DEF Withdraw, Command, AckResults
<1>3. Withdraw(cs, j) \in Seq(Command) /\ Len(Withdraw(cs, j)) = Len(cs)
  BY <1>1, <1>2
<1>4. ASSUME NEW c \in DOMAIN cs
      PROVE  /\ Withdraw(cs, j)[c].type = cs[c].type
             /\ Withdraw(cs, j)[c].runner = cs[c].runner
             /\ Withdraw(cs, j)[c].job = cs[c].job
             /\ Withdraw(cs, j)[c].epoch = cs[c].epoch
             /\ Withdraw(cs, j)[c].ack = "none" =>
                  cs[c].ack = "none" /\ (cs[c].job # j \/ cs[c].type = "ABANDON")
  BY <1>1, <1>4 DEF Withdraw, Command
<1> QED BY <1>1, <1>2, <1>3, <1>4

\* Answering one command changes only its ack.
LEMMA AnswerFacts ==
  ASSUME NEW cs \in Seq(Command), NEW c \in DOMAIN cs, NEW result \in AckResults \ {"none"}
  PROVE  /\ Answer(cs, c, result) \in Seq(Command)
         /\ Len(Answer(cs, c, result)) = Len(cs) /\ DOMAIN Answer(cs, c, result) = DOMAIN cs
         /\ \A d \in DOMAIN cs :
              /\ Answer(cs, c, result)[d].type = cs[d].type
              /\ Answer(cs, c, result)[d].runner = cs[d].runner
              /\ Answer(cs, c, result)[d].job = cs[d].job
              /\ Answer(cs, c, result)[d].epoch = cs[d].epoch
              /\ Answer(cs, c, result)[d].ack = "none" => cs[d].ack = "none"
<1>1. cs \in [1..Len(cs) -> Command] /\ DOMAIN cs = 1..Len(cs) /\ Len(cs) \in Nat
  OBVIOUS
<1>2. Answer(cs, c, result) \in [1..Len(cs) -> Command]
  BY <1>1 DEF Answer, Command
<1>3. Answer(cs, c, result) \in Seq(Command) /\ Len(Answer(cs, c, result)) = Len(cs)
  BY <1>1, <1>2
<1>4. ASSUME NEW d \in DOMAIN cs
      PROVE  /\ Answer(cs, c, result)[d].type = cs[d].type
             /\ Answer(cs, c, result)[d].runner = cs[d].runner
             /\ Answer(cs, c, result)[d].job = cs[d].job
             /\ Answer(cs, c, result)[d].epoch = cs[d].epoch
             /\ Answer(cs, c, result)[d].ack = "none" => cs[d].ack = "none"
  BY <1>1, <1>4 DEF Answer, Command, AckResults
<1> QED BY <1>1, <1>2, <1>3, <1>4

\* A new command keeps the table well typed.
LEMMA IssueTyped ==
  ASSUME NEW cs, cs \in Seq(Command), NEW t, t \in CommandTypes, NEW r, r \in Runners,
         NEW j, j \in Jobs, NEW e, e \in Nat
  PROVE  Issue(cs, t, r, j, e) \in Seq(Command)
<1>1. [type |-> t, runner |-> r, job |-> j, epoch |-> e, ack |-> "none"] \in Command
  BY DEF Command, AckResults
<1> QED BY <1>1 DEF Issue

-----------------------------------------------------------------------------
(* The kinds of step *)

\* No epoch goes down in this step.
EpochsGrow == \A k \in Jobs : job'[k].epoch >= job[k].epoch

\* A command table that was answered and then withdrawn is still answered.
LEMMA WithdrawAnswered ==
  ASSUME NEW cs, Answered(cs), cmds \in Seq(Command), NEW j
  PROVE  Answered(Withdraw(cs, j))
  BY WithdrawFacts DEF Answered

\* Writing one row leaves the others alone.
LEMMA RowWritten ==
  ASSUME job \in [Jobs -> JobRecord], NEW j \in Jobs, NEW row \in JobRecord,
         job' = [job EXCEPT ![j] = row]
  PROVE  /\ job' \in [Jobs -> JobRecord]
         /\ job'[j] = row
         /\ \A k \in Jobs \ {j} : job'[k] = job[k]
  OBVIOUS

\* A transition keeps the runner and the mark; only a server's end bumps.
LEMMA MovedFacts ==
  ASSUME NEW row \in JobRecord, NEW to \in JobStates, NEW by
  PROVE  /\ Moved(row, to, by) \in JobRecord
         /\ Moved(row, to, by).state = to
         /\ Moved(row, to, by).runner = row.runner
         /\ Moved(row, to, by).cancelReq = row.cancelReq
         /\ Moved(row, to, by).epoch >= row.epoch
         /\ Moved(row, to, by).epoch # row.epoch => to \in TerminalStates
         /\ by = "server" /\ to \in TerminalStates /\ row.runner # NoRunner =>
              Moved(row, to, by).epoch = row.epoch + 1
<1>1. row.epoch \in Nat
  BY DEF JobRecord
<1>2. CASE by = "server" /\ to \in TerminalStates /\ row.runner # NoRunner
  BY <1>1, <1>2 DEF Moved, JobRecord
<1>3. CASE ~(by = "server" /\ to \in TerminalStates /\ row.runner # NoRunner)
  BY <1>1, <1>3 DEF Moved, JobRecord
<1> QED BY <1>2, <1>3

\* HolderWasAssigned, as a command.
LEMMA HolderCommand ==
  ASSUME RowInv, NEW j \in Jobs, Held(j)
  PROVE  /\ \E c \in DOMAIN cmds : /\ cmds[c].type = "ASSIGN" /\ cmds[c].job = j
                                   /\ cmds[c].runner = job[j].runner
                                   /\ cmds[c].epoch = job[j].epoch
         /\ job[j].runner \in Runners
<1>1. [job |-> j, runner |-> job[j].runner, epoch |-> job[j].epoch] \in Leases
  BY DEF RowInv, HolderWasAssigned
<1>2. PICK c \in DOMAIN cmds :
        /\ cmds[c].type = "ASSIGN"
        /\ [job |-> j, runner |-> job[j].runner, epoch |-> job[j].epoch]
             = [job |-> cmds[c].job, runner |-> cmds[c].runner, epoch |-> cmds[c].epoch]
  BY <1>1 DEF Leases
<1>3. cmds[c].job = j /\ cmds[c].runner = job[j].runner /\ cmds[c].epoch = job[j].epoch
  BY <1>2
<1>4. cmds[c].runner \in Runners
  BY <1>2, CmdDomain DEF RowInv, Command
<1> QED BY <1>2, <1>3, <1>4

\* A transition to a state other than QUEUED and ASSIGNED.
LEMMA MovePreserves ==
  ASSUME RowInv, NEW j \in Jobs, NEW to \in JobStates, NEW by \in {"server", "runner"},
         to \notin {NotCreated, "QUEUED", "ASSIGNED"},
         NEW cs, Answered(cs), Move(j, to, by, cs),
         \/ by = "server" /\ <<job[j].state, to>> \in ServerMoves
         \/ by = "runner" /\ <<job[j].state, to>> \in ReportMoves
  PROVE  RowInv' /\ EpochsGrow
<1> DEFINE over == to \in TerminalStates
<1>1. /\ job' \in [Jobs -> JobRecord]
      /\ \A k \in Jobs \ {j} : job'[k] = job[k]
      /\ job'[j].state = to /\ job'[j].runner = job[j].runner
      /\ job'[j].cancelReq = job[j].cancelReq
      /\ job'[j].epoch >= job[j].epoch
      /\ job'[j].epoch # job[j].epoch => over
  <2> DEFINE row == Moved(job[j], to, by)
  <2>1. job[j] \in JobRecord
    BY DEF RowInv
  <2>2. /\ row \in JobRecord
        /\ row.state = to /\ row.runner = job[j].runner /\ row.cancelReq = job[j].cancelReq
        /\ row.epoch >= job[j].epoch /\ (row.epoch # job[j].epoch => over)
    BY <2>1, MovedFacts
  <2>3. job' = [job EXCEPT ![j] = row]
    BY DEF Move
  <2> HIDE DEF row
  <2> QED BY <2>2, <2>3, RowWritten DEF RowInv
<1>2. EpochsGrow
  <2>1. \A k \in Jobs : job[k].epoch \in Nat
    BY DEF RowInv, JobRecord
  <2> QED BY <1>1, <2>1 DEF EpochsGrow
<1>3. Answered(cmds')
  BY WithdrawAnswered DEF Move, RowInv
<1>4. over => \A c \in DOMAIN cmds' :
        cmds'[c].ack = "none" => cmds'[c].job # j \/ cmds'[c].type = "ABANDON"
  BY WithdrawFacts DEF Move, Answered
<1>5. cmds \in Seq(Command) /\ \A c \in DOMAIN cmds : cmds[c] \in Command
  BY CmdDomain DEF RowInv
<1>6. to = "CRASHED" => job'[j].epoch > job[j].epoch
  <2>1. SUFFICES ASSUME to = "CRASHED" PROVE job'[j].epoch > job[j].epoch
    OBVIOUS
  <2>2. by = "server" /\ Held(j)
    BY <2>1 DEF ServerMoves, ReportMoves, RunnerMoves, Held, HeldStates
  <2>3. job[j].runner # NoRunner
    BY <2>2, HolderCommand, RunnerAssumption
  <2>4. job[j] \in JobRecord /\ job[j].epoch \in Nat /\ to \in TerminalStates
    BY <2>1 DEF RowInv, JobRecord, TerminalStates
  <2>5. job'[j] = Moved(job[j], to, by)
    BY DEF Move, RowInv
  <2>6. Moved(job[j], to, by).epoch = job[j].epoch + 1
    BY <2>2, <2>3, <2>4, MovedFacts
  <2> QED BY <2>4, <2>5, <2>6
<1>7. ~over => Held(j) /\ to \in HeldStates
  BY DEF ServerMoves, ReportMoves, RunnerMoves, Held, HeldStates, TerminalStates,
         JobStates, ActiveStates
<1>8. IssuedEpochs'
  <2>1. SUFFICES ASSUME NEW c \in DOMAIN cmds
                 PROVE  cmds[c].epoch <= job'[cmds[c].job].epoch
    BY <1>3 DEF IssuedEpochs, Answered
  <2>2. cmds[c].job \in Jobs /\ cmds[c].epoch \in Nat
    BY <1>5 DEF Command
  <2>3. cmds[c].epoch <= job[cmds[c].job].epoch
    BY DEF RowInv, IssuedEpochs
  <2>4. job[cmds[c].job].epoch \in Nat /\ job'[cmds[c].job].epoch \in Nat
    BY <1>1, <2>2 DEF RowInv, JobRecord
  <2> QED BY <1>2, <2>2, <2>3, <2>4 DEF EpochsGrow
<1>9. UnheldIsFenced'
  <2>1. SUFFICES ASSUME NEW c \in DOMAIN cmds, cmds[c].type \in {"ASSIGN", "CANCEL"},
                        job'[cmds[c].job].state \in {NotCreated, "QUEUED", "CRASHED"}
                 PROVE  cmds[c].epoch < job'[cmds[c].job].epoch
    BY <1>3 DEF UnheldIsFenced, Answered
  <2>2. cmds[c] \in Command /\ cmds[c].epoch <= job[cmds[c].job].epoch
    BY <1>5 DEF RowInv, IssuedEpochs
  <2>3. CASE cmds[c].job = j
    <3>1. to = "CRASHED"
      BY <1>1, <2>1, <2>3
    <3> QED BY <1>1, <1>6, <2>2, <2>3, <3>1 DEF RowInv, JobRecord, Command
  <2>4. CASE cmds[c].job # j
    BY <1>1, <2>1, <2>2, <2>4 DEF RowInv, UnheldIsFenced, Command
  <2> QED BY <2>3, <2>4
<1>10. HolderWasAssigned'
  <2>1. Leases' = Leases
    <3>1. /\ DOMAIN cmds' = DOMAIN cmds
          /\ \A c \in DOMAIN cmds : /\ cmds'[c].type = cmds[c].type
                                    /\ cmds'[c].runner = cmds[c].runner
                                    /\ cmds'[c].job = cmds[c].job
                                    /\ cmds'[c].epoch = cmds[c].epoch
      BY <1>3 DEF Answered
    <3> QED BY <3>1, Zenon DEF Leases
  <2>2. \A k \in Jobs : Held(k)' => Held(k) /\ job'[k].epoch = job[k].epoch
                                     /\ job'[k].runner = job[k].runner
    BY <1>1, <1>7 DEF Held, HeldStates, TerminalStates
  <2> QED BY <2>1, <2>2 DEF RowInv, HolderWasAssigned
<1>11. LeaseUnique'
  BY <1>3 DEF RowInv, LeaseUnique, Answered
<1>12. NoOrphanCommand'
  <2>1. SUFFICES ASSUME NEW c \in DOMAIN cmds, cmds'[c].ack = "none",
                        cmds[c].type \in {"ASSIGN", "CANCEL"}
                 PROVE  /\ job'[cmds[c].job].state \in HeldStates
                        /\ job'[cmds[c].job].runner = cmds[c].runner
                        /\ job'[cmds[c].job].epoch = cmds[c].epoch
    BY <1>3 DEF NoOrphanCommand, Pending, Held, Holds, Answered
  <2>2. /\ cmds[c] \in Command
        /\ job[cmds[c].job].state \in HeldStates
        /\ job[cmds[c].job].runner = cmds[c].runner
        /\ job[cmds[c].job].epoch = cmds[c].epoch
    BY <1>3, <1>5, <2>1 DEF RowInv, NoOrphanCommand, Pending, Held, Holds, Answered
  <2>3. CASE cmds[c].job = j
    BY <1>1, <1>3, <1>4, <1>7, <2>1, <2>2, <2>3 DEF Answered
  <2>4. CASE cmds[c].job # j
    BY <1>1, <2>2, <2>4 DEF Command
  <2> QED BY <2>3, <2>4
<1>13. CancelMarked'
  <2>1. \A k \in Jobs : Held(k)' => Held(k) /\ job'[k].epoch = job[k].epoch
                                     /\ job'[k].cancelReq = job[k].cancelReq
    <3>1. \A k \in Jobs \ {j} : Held(k)' => Held(k)
      BY <1>1 DEF Held
    <3>2. Held(j)' => Held(j) /\ ~over
      BY <1>1, <1>7 DEF Held, HeldStates, TerminalStates
    <3> QED BY <1>1, <3>1, <3>2
  <2>2. \A c \in DOMAIN cmds : cmds[c].job \in Jobs
    BY <1>5 DEF Command
  <2>3. /\ DOMAIN cmds' = DOMAIN cmds
        /\ \A c \in DOMAIN cmds : /\ cmds'[c].type = cmds[c].type
                                  /\ cmds'[c].job = cmds[c].job
                                  /\ cmds'[c].epoch = cmds[c].epoch
    BY <1>3 DEF Answered
  <2>4. CancelMarked
    BY DEF RowInv
  <2> QED BY <2>1, <2>2, <2>3, <2>4 DEF CancelMarked
<1>14. CancelOnce'
  BY <1>3 DEF RowInv, CancelOnce, Answered
<1> QED BY <1>1, <1>2, <1>3, <1>8, <1>9, <1>10, <1>11, <1>12, <1>13, <1>14 DEF RowInv, Answered

\* One transition, as every handler but the report makes it.
LEMMA ApplyPreserves ==
  ASSUME RowInv, NEW j \in Jobs, NEW to \in JobStates, NEW by \in {"server", "runner"},
         to \notin {NotCreated, "QUEUED", "ASSIGNED"},
         NEW cs, Answered(cs), Apply(j, to, by, cs)
  PROVE  RowInv' /\ EpochsGrow
<1>1. Move(j, to, by, cs)
  BY DEF Apply
<1>2. \/ by = "server" /\ <<job[j].state, to>> \in ServerMoves
      \/ by = "runner" /\ <<job[j].state, to>> \in ReportMoves
  BY DEF Apply, CanTransition, ReportMoves
<1> QED BY <1>1, <1>2, MovePreserves

\* A placement: the next epoch is granted and was never used before.
LEMMA AssignPreserves ==
  ASSUME RowInv, NEW j \in Jobs, NEW r \in Runners, rn[r].boot \in Boots \cup {NoBoot},
         job[j].state = "QUEUED", Assign(j, r)
  PROVE  RowInv' /\ EpochsGrow
<1> DEFINE n == Len(cmds) + 1
           e == job[j].epoch + 1
<1>1. /\ job \in [Jobs -> JobRecord] /\ cmds \in Seq(Command) /\ e \in Nat
      /\ \A c \in DOMAIN cmds : cmds[c] \in Command
  BY CmdDomain DEF RowInv, JobRecord
<1>2. /\ job' \in [Jobs -> JobRecord]
      /\ \A k \in Jobs \ {j} : job'[k] = job[k]
      /\ job'[j].state = "ASSIGNED" /\ job'[j].runner = r /\ job'[j].epoch = e
  <2> DEFINE row == Placed(job[j], r)
  <2>1. job[j] \in JobRecord
    BY DEF RowInv
  <2>2. row \in JobRecord /\ row.state = "ASSIGNED" /\ row.runner = r /\ row.epoch = e
    BY <2>1 DEF JobRecord, JobStates, ActiveStates, Placed
  <2>3. job' = [job EXCEPT ![j] = row]
    BY DEF Assign
  <2> HIDE DEF row
  <2> QED BY <1>1, <2>2, <2>3, RowWritten
<1>3. /\ cmds' \in Seq(Command) /\ DOMAIN cmds' = DOMAIN cmds \cup {n} /\ n \notin DOMAIN cmds
      /\ \A c \in DOMAIN cmds : cmds'[c] = cmds[c]
      /\ cmds'[n].type = "ASSIGN" /\ cmds'[n].runner = r /\ cmds'[n].job = j /\ cmds'[n].epoch = e
  <2>1. cmds' = Issue(cmds, "ASSIGN", r, j, e) /\ "ASSIGN" \in CommandTypes
    BY DEF Assign, CommandTypes
  <2>2. Issue(cmds, "ASSIGN", r, j, e) \in Seq(Command)
    BY <1>1, <2>1, IssueTyped
  <2> HIDE DEF e
  <2>3. DOMAIN cmds = 1..Len(cmds) /\ Len(cmds) \in Nat
    BY <1>1
  <2>4. DOMAIN cmds' = DOMAIN cmds \cup {n} /\ n \notin DOMAIN cmds
    BY <1>1, <2>1, <2>3 DEF Issue
  <2> QED BY <1>1, <2>1, <2>2, <2>3, <2>4 DEF Issue
<1>4. EpochsGrow
  <2>1. \A k \in Jobs : job[k].epoch \in Nat
    BY <1>1 DEF JobRecord
  <2> QED BY <1>2, <2>1 DEF EpochsGrow
<1>5. \A c \in DOMAIN cmds : cmds[c].epoch <= job[cmds[c].job].epoch
  BY DEF RowInv, IssuedEpochs
<1>6. \A c \in DOMAIN cmds : cmds[c].job = j => cmds[c].epoch < e /\ cmds[c].epoch # e
  BY <1>1, <1>5 DEF Command, JobRecord
<1>7. \A c \in DOMAIN cmds : cmds[c].job # j => job'[cmds[c].job] = job[cmds[c].job]
  BY <1>1, <1>2 DEF Command
<1>8. IssuedEpochs'
  <2>1. ASSUME NEW c \in DOMAIN cmds PROVE cmds'[c].epoch <= job'[cmds'[c].job].epoch
    <3>1. cmds[c] \in Command /\ cmds'[c] = cmds[c] /\ cmds[c].epoch \in Nat
      BY <1>1, <1>3 DEF Command
    <3>2. CASE cmds[c].job = j
      BY <1>1, <1>2, <1>6, <3>1, <3>2
    <3>3. CASE cmds[c].job # j
      BY <1>5, <1>7, <3>1, <3>3
    <3> QED BY <3>2, <3>3
  <2>2. cmds'[n].epoch <= job'[cmds'[n].job].epoch
    BY <1>1, <1>2, <1>3
  <2> QED BY <1>3, <2>1, <2>2 DEF IssuedEpochs
<1>9. UnheldIsFenced'
  <2>1. ASSUME NEW c \in DOMAIN cmds, cmds[c].job # j, cmds[c].type \in {"ASSIGN", "CANCEL"},
               job[cmds[c].job].state \in {NotCreated, "QUEUED", "CRASHED"}
        PROVE  cmds[c].epoch < job[cmds[c].job].epoch
    BY <2>1 DEF RowInv, UnheldIsFenced
  <2> QED BY <1>2, <1>3, <1>7, <2>1 DEF UnheldIsFenced, NotCreated
<1>10. HolderWasAssigned'
  <2>1. SUFFICES ASSUME NEW k \in Jobs, Held(k)'
                 PROVE  \E c \in DOMAIN cmds' : /\ cmds'[c].type = "ASSIGN" /\ cmds'[c].job = k
                          /\ cmds'[c].runner = job'[k].runner /\ cmds'[c].epoch = job'[k].epoch
    BY DEF HolderWasAssigned, Leases
  <2>2. CASE k = j
    BY <1>2, <1>3, <2>2
  <2>3. CASE k # j
    <3>1. Held(k) /\ job'[k] = job[k]
      BY <1>2, <2>1, <2>3 DEF Held
    <3> QED BY <1>3, <3>1, HolderCommand
  <2> QED BY <2>2, <2>3
<1>11. LeaseUnique'
  <2>1. \A c, d \in DOMAIN cmds :
          /\ cmds[c].type = "ASSIGN" /\ cmds[d].type = "ASSIGN"
          /\ cmds[c].job = cmds[d].job /\ cmds[c].epoch = cmds[d].epoch
          => c = d
    BY DEF RowInv, LeaseUnique
  <2> QED BY <1>3, <1>6, <2>1 DEF LeaseUnique
<1>12. NoOrphanCommand'
  <2>1. ASSUME NEW c \in DOMAIN cmds, cmds[c].ack = "none", cmds[c].type \in {"ASSIGN", "CANCEL"}
        PROVE  /\ cmds[c].job # j
               /\ job[cmds[c].job].state \in HeldStates
               /\ job[cmds[c].job].runner = cmds[c].runner
               /\ job[cmds[c].job].epoch = cmds[c].epoch
    BY <2>1 DEF RowInv, NoOrphanCommand, Pending, Held, Holds, HeldStates
  <2> QED BY <1>2, <1>3, <1>7, <2>1 DEF NoOrphanCommand, Pending, Held, Holds, HeldStates
<1>13. CancelMarked'
  <2>1. ASSUME NEW c \in DOMAIN cmds', cmds'[c].type = "CANCEL",
               job'[cmds'[c].job].state \in HeldStates,
               cmds'[c].epoch = job'[cmds'[c].job].epoch
        PROVE  job'[cmds'[c].job].cancelReq
    <3>1. c \in DOMAIN cmds
      BY <1>3, <2>1
    <3>2. cmds'[c] = cmds[c] /\ cmds[c].job # j
      BY <1>2, <1>3, <1>6, <2>1, <3>1
    <3>3. job'[cmds[c].job] = job[cmds[c].job]
      BY <1>7, <3>1, <3>2
    <3>4. Held(cmds[c].job) /\ cmds[c].type = "CANCEL"
            /\ cmds[c].epoch = job[cmds[c].job].epoch
      BY <2>1, <3>2, <3>3 DEF Held
    <3> QED BY <3>1, <3>2, <3>3, <3>4 DEF RowInv, CancelMarked
  <2> QED BY <2>1 DEF CancelMarked, Held
<1>14. CancelOnce'
  BY <1>3 DEF RowInv, CancelOnce
<1> QED BY <1>2, <1>3, <1>4, <1>8, <1>9, <1>10, <1>11, <1>12, <1>13, <1>14 DEF RowInv

\* A request to cancel: the holder is marked and gets the lease's only CANCEL.
LEMMA CancelPreserves ==
  ASSUME RowInv, NEW j \in Jobs, Held(j), ~job[j].cancelReq, RequestCancel(j)
  PROVE  RowInv' /\ EpochsGrow
<1> DEFINE n == Len(cmds) + 1
<1>1. /\ job \in [Jobs -> JobRecord] /\ cmds \in Seq(Command)
      /\ \A c \in DOMAIN cmds : cmds[c] \in Command
      /\ \A k \in Jobs : job[k].epoch \in Nat
  BY CmdDomain DEF RowInv, JobRecord
<1>2. /\ job' \in [Jobs -> JobRecord] /\ job'[j].cancelReq
      /\ \A k \in Jobs : /\ job'[k].state = job[k].state /\ job'[k].runner = job[k].runner
                         /\ job'[k].epoch = job[k].epoch
                         /\ job[k].cancelReq => job'[k].cancelReq
  BY <1>1 DEF RequestCancel, JobRecord
<1>3. job[j].runner \in Runners
  BY HolderCommand
<1>4. /\ cmds' \in Seq(Command) /\ DOMAIN cmds' = DOMAIN cmds \cup {n} /\ n \notin DOMAIN cmds
      /\ \A c \in DOMAIN cmds : cmds'[c] = cmds[c]
      /\ cmds'[n].type = "CANCEL" /\ cmds'[n].runner = job[j].runner
      /\ cmds'[n].job = j /\ cmds'[n].epoch = job[j].epoch
  <2>1. cmds' = Issue(cmds, "CANCEL", job[j].runner, j, job[j].epoch) /\ "CANCEL" \in CommandTypes
    BY DEF RequestCancel, CommandTypes
  <2>2. Issue(cmds, "CANCEL", job[j].runner, j, job[j].epoch) \in Seq(Command)
    BY <1>1, <1>3, <2>1, IssueTyped
  <2>3. DOMAIN cmds = 1..Len(cmds) /\ Len(cmds) \in Nat
    BY <1>1
  <2>4. DOMAIN cmds' = DOMAIN cmds \cup {n} /\ n \notin DOMAIN cmds
    BY <1>1, <2>1, <2>3 DEF Issue
  <2> QED BY <1>1, <2>1, <2>2, <2>3, <2>4 DEF Issue
<1>5. EpochsGrow
  BY <1>1, <1>2 DEF EpochsGrow
<1>6. \A c \in DOMAIN cmds : cmds'[c] = cmds[c] /\ cmds[c].job \in Jobs
  BY <1>1, <1>4 DEF Command
<1>7. IssuedEpochs'
  <2>1. ASSUME NEW c \in DOMAIN cmds'
        PROVE  cmds'[c].epoch <= job'[cmds'[c].job].epoch
    <3>1. CASE c \in DOMAIN cmds
      <4>1. cmds[c].epoch <= job[cmds[c].job].epoch
        BY <3>1 DEF RowInv, IssuedEpochs
      <4> QED BY <1>2, <1>6, <3>1, <4>1
    <3>2. CASE c = n
      BY <1>1, <1>2, <1>4, <3>2
    <3> QED BY <1>4, <3>1, <3>2
  <2> QED BY <2>1 DEF IssuedEpochs
<1>8. UnheldIsFenced'
  <2>1. ASSUME NEW c \in DOMAIN cmds', cmds'[c].type \in {"ASSIGN", "CANCEL"},
               job'[cmds'[c].job].state \in {NotCreated, "QUEUED", "CRASHED"}
        PROVE  cmds'[c].epoch < job'[cmds'[c].job].epoch
    <3>1. CASE c \in DOMAIN cmds
      <4>1. /\ cmds[c].type \in {"ASSIGN", "CANCEL"}
            /\ job[cmds[c].job].state \in {NotCreated, "QUEUED", "CRASHED"}
        BY <1>2, <1>6, <2>1, <3>1
      <4>2. cmds[c].epoch < job[cmds[c].job].epoch
        BY <3>1, <4>1 DEF RowInv, UnheldIsFenced
      <4> QED BY <1>2, <1>6, <3>1, <4>2
    <3>2. CASE c = n
      BY <1>2, <1>4, <2>1, <3>2 DEF Held, HeldStates, NotCreated
    <3> QED BY <1>4, <3>1, <3>2
  <2> QED BY <2>1 DEF UnheldIsFenced
<1>9. HolderWasAssigned'
  <2>1. SUFFICES ASSUME NEW k \in Jobs, Held(k)
                 PROVE  \E c \in DOMAIN cmds' : /\ cmds'[c].type = "ASSIGN" /\ cmds'[c].job = k
                          /\ cmds'[c].runner = job'[k].runner /\ cmds'[c].epoch = job'[k].epoch
    BY <1>2 DEF HolderWasAssigned, Leases, Held
  <2> QED BY <1>2, <1>4, <2>1, HolderCommand
<1>10. LeaseUnique'
  BY <1>4 DEF RowInv, LeaseUnique
<1>11. NoOrphanCommand'
  <2>1. ASSUME NEW c \in DOMAIN cmds, cmds'[c].ack = "none", cmds'[c].type \in {"ASSIGN", "CANCEL"}
        PROVE  /\ job'[cmds'[c].job].state \in HeldStates
               /\ job'[cmds'[c].job].runner = cmds'[c].runner
               /\ job'[cmds'[c].job].epoch = cmds'[c].epoch
    <3>1. cmds'[c] = cmds[c] /\ cmds[c].job \in Jobs
      BY <1>1, <1>4 DEF Command
    <3> QED BY <1>2, <2>1, <3>1 DEF RowInv, NoOrphanCommand, Pending, Held, Holds
  <2>2. /\ job'[cmds'[n].job].state \in HeldStates
        /\ job'[cmds'[n].job].runner = cmds'[n].runner
        /\ job'[cmds'[n].job].epoch = cmds'[n].epoch
    BY <1>2, <1>4 DEF Held
  <2> QED BY <1>4, <2>1, <2>2 DEF NoOrphanCommand, Pending, Held, Holds
<1>12. CancelMarked'
  <2>1. ASSUME NEW c \in DOMAIN cmds', cmds'[c].type = "CANCEL",
               job'[cmds'[c].job].state \in HeldStates,
               cmds'[c].epoch = job'[cmds'[c].job].epoch
        PROVE  job'[cmds'[c].job].cancelReq
    <3>1. CASE c = n
      BY <1>2, <1>4, <3>1
    <3>2. CASE c # n
      <4>1. c \in DOMAIN cmds /\ cmds'[c] = cmds[c] /\ cmds[c].job \in Jobs
        BY <1>1, <1>4, <2>1, <3>2 DEF Command
      <4>2. Held(cmds[c].job) /\ cmds[c].type = "CANCEL"
              /\ cmds[c].epoch = job[cmds[c].job].epoch
        BY <1>2, <2>1, <4>1 DEF Held
      <4>3. job[cmds[c].job].cancelReq
        BY <4>1, <4>2 DEF RowInv, CancelMarked
      <4> QED BY <1>2, <4>1, <4>3
    <3> QED BY <3>1, <3>2
  <2> QED BY <2>1 DEF CancelMarked, Held
<1>13. CancelOnce'
  <2>1. \A c \in DOMAIN cmds : cmds[c].type = "CANCEL" /\ cmds[c].job = j => cmds[c].epoch # job[j].epoch
    BY DEF RowInv, CancelMarked
  <2>2. \A c, d \in DOMAIN cmds :
          /\ cmds[c].type = "CANCEL" /\ cmds[d].type = "CANCEL"
          /\ cmds[c].job = cmds[d].job /\ cmds[c].epoch = cmds[d].epoch
          => c = d
    BY DEF RowInv, CancelOnce
  <2> QED BY <1>4, <2>1, <2>2 DEF CancelOnce
<1> QED BY <1>2, <1>4, <1>5, <1>7, <1>8, <1>9, <1>10, <1>11, <1>12, <1>13 DEF RowInv

\* No job moves (at most a boot id is written) and commands are only answered.
LEMMA AnswerPreserves ==
  ASSUME RowInv, Answered(cmds'), job' \in [Jobs -> JobRecord],
         \A k \in Jobs : /\ job'[k].state = job[k].state /\ job'[k].runner = job[k].runner
                        /\ job'[k].epoch = job[k].epoch /\ job'[k].cancelReq = job[k].cancelReq
  PROVE  RowInv' /\ EpochsGrow
<1>1. /\ job \in [Jobs -> JobRecord] /\ cmds \in Seq(Command) /\ cmds' \in Seq(Command)
      /\ \A c \in DOMAIN cmds : cmds[c] \in Command
      /\ \A k \in Jobs : job[k].epoch \in Nat
  BY CmdDomain DEF RowInv, JobRecord, Answered
<1>2. EpochsGrow
  BY <1>1 DEF EpochsGrow
<1>3. IssuedEpochs'
  BY <1>1 DEF RowInv, IssuedEpochs, Answered, Command
<1>4. UnheldIsFenced'
  BY <1>1 DEF RowInv, UnheldIsFenced, Answered, Command
<1>5. HolderWasAssigned'
  <2>1. Leases' = Leases
    BY DEF Leases, Answered
  <2> QED BY <2>1 DEF RowInv, HolderWasAssigned, Held
<1>6. LeaseUnique'
  BY DEF RowInv, LeaseUnique, Answered
<1>7. NoOrphanCommand'
  BY <1>1 DEF RowInv, NoOrphanCommand, Answered, Pending, Held, Holds, Command
<1>8. CancelMarked'
  BY <1>1 DEF RowInv, CancelMarked, Answered, Held, Command
<1>9. CancelOnce'
  BY DEF RowInv, CancelOnce, Answered
<1> QED BY <1>1, <1>2, <1>3, <1>4, <1>5, <1>6, <1>7, <1>8, <1>9 DEF RowInv

\* A READOPT or an ABANDON binds no lease.
LEMMA NoticePreserves ==
  ASSUME RowInv, NEW cs, Answered(cs), UNCHANGED job,
         NEW type \in {"READOPT", "ABANDON"}, NEW r \in Runners, NEW j \in Jobs, NEW e \in Nat,
         e <= job[j].epoch, cmds' = Issue(cs, type, r, j, e)
  PROVE  RowInv' /\ EpochsGrow
<1> DEFINE n == Len(cmds) + 1
<1>1. /\ job \in [Jobs -> JobRecord] /\ cmds \in Seq(Command) /\ cs \in Seq(Command)
      /\ \A c \in DOMAIN cmds : cmds[c] \in Command
      /\ \A k \in Jobs : job[k].epoch \in Nat
  BY CmdDomain DEF RowInv, JobRecord, Answered
<1>2. /\ cmds' \in Seq(Command) /\ DOMAIN cmds' = DOMAIN cmds \cup {n} /\ n \notin DOMAIN cmds
      /\ \A c \in DOMAIN cmds : cmds'[c] = cs[c]
      /\ cmds'[n].type = type /\ cmds'[n].job = j /\ cmds'[n].epoch = e
  <2>1. type \in CommandTypes
    BY DEF CommandTypes
  <2>2. Issue(cs, type, r, j, e) \in Seq(Command)
    BY <1>1, <2>1, IssueTyped
  <2>3. DOMAIN cs = 1..Len(cs) /\ Len(cs) \in Nat
    BY <1>1
  <2>4. DOMAIN cmds' = DOMAIN cs \cup {Len(cs) + 1} /\ Len(cs) + 1 \notin DOMAIN cs
    BY <1>1, <2>3 DEF Issue
  <2>5. /\ \A c \in DOMAIN cs : cmds'[c] = cs[c]
        /\ cmds'[Len(cs) + 1].type = type /\ cmds'[Len(cs) + 1].job = j
        /\ cmds'[Len(cs) + 1].epoch = e
    BY <1>1, <2>3 DEF Issue
  <2> QED BY <2>2, <2>4, <2>5 DEF Answered
<1>3. EpochsGrow
  BY <1>1 DEF EpochsGrow
<1>4. IssuedEpochs'
  BY <1>2 DEF RowInv, IssuedEpochs, Answered
<1>5. UnheldIsFenced'
  <2>1. ASSUME NEW c \in DOMAIN cmds', cmds'[c].type \in {"ASSIGN", "CANCEL"},
               job[cmds'[c].job].state \in {NotCreated, "QUEUED", "CRASHED"}
        PROVE  cmds'[c].epoch < job[cmds'[c].job].epoch
    <3>1. c \in DOMAIN cmds
      BY <1>2, <2>1
    <3> QED BY <1>2, <2>1, <3>1 DEF RowInv, UnheldIsFenced, Answered
  <2> QED BY <2>1 DEF UnheldIsFenced
<1>6. HolderWasAssigned'
  <2>1. SUFFICES ASSUME NEW k \in Jobs, Held(k)
                 PROVE  \E c \in DOMAIN cmds' : /\ cmds'[c].type = "ASSIGN" /\ cmds'[c].job = k
                          /\ cmds'[c].runner = job[k].runner /\ cmds'[c].epoch = job[k].epoch
    BY DEF HolderWasAssigned, Leases, Held
  <2> QED BY <1>2, <2>1, HolderCommand DEF Answered
<1>7. LeaseUnique'
  <2>1. ASSUME NEW c \in DOMAIN cmds', NEW d \in DOMAIN cmds',
               cmds'[c].type = "ASSIGN", cmds'[d].type = "ASSIGN",
               cmds'[c].job = cmds'[d].job, cmds'[c].epoch = cmds'[d].epoch
        PROVE  c = d
    <3>1. c \in DOMAIN cmds /\ d \in DOMAIN cmds
      BY <1>2, <2>1
    <3> QED BY <1>2, <2>1, <3>1 DEF RowInv, LeaseUnique, Answered
  <2> QED BY <2>1 DEF LeaseUnique
<1>8. NoOrphanCommand'
  <2>1. ASSUME NEW c \in DOMAIN cmds', cmds'[c].ack = "none", cmds'[c].type \in {"ASSIGN", "CANCEL"}
        PROVE  LET k == cmds'[c].job IN /\ job[k].state \in HeldStates
                                        /\ job[k].runner = cmds'[c].runner
                                        /\ job[k].epoch = cmds'[c].epoch
    <3>1. c \in DOMAIN cmds /\ cmds'[c] = cs[c]
      BY <1>2, <2>1
    <3>2. /\ cs[c].type = cmds[c].type /\ cs[c].runner = cmds[c].runner
          /\ cs[c].job = cmds[c].job /\ cs[c].epoch = cmds[c].epoch
          /\ cs[c].ack = "none" => cmds[c].ack = "none"
      BY <3>1 DEF Answered
    <3>3. cmds[c].ack = "none" /\ cmds[c].type \in {"ASSIGN", "CANCEL"}
      BY <2>1, <3>1, <3>2
    <3>4. LET k == cmds[c].job IN /\ job[k].state \in HeldStates
                                  /\ job[k].runner = cmds[c].runner
                                  /\ job[k].epoch = cmds[c].epoch
      BY <3>1, <3>3 DEF RowInv, NoOrphanCommand, Pending, Held, Holds
    <3> QED BY <3>1, <3>2, <3>4
  <2> QED BY <2>1 DEF NoOrphanCommand, Pending, Held, Holds
<1>9. CancelMarked'
  <2>1. ASSUME NEW c \in DOMAIN cmds', cmds'[c].type = "CANCEL",
               job[cmds'[c].job].state \in HeldStates, cmds'[c].epoch = job[cmds'[c].job].epoch
        PROVE  job[cmds'[c].job].cancelReq
    <3>1. c \in DOMAIN cmds /\ cmds'[c] = cs[c]
      BY <1>2, <2>1
    <3>2. cs[c].type = cmds[c].type /\ cs[c].job = cmds[c].job /\ cs[c].epoch = cmds[c].epoch
      BY <3>1 DEF Answered
    <3> QED BY <2>1, <3>1, <3>2 DEF RowInv, CancelMarked, Held
  <2> QED BY <2>1 DEF CancelMarked, Held
<1>10. CancelOnce'
  <2>1. ASSUME NEW c \in DOMAIN cmds', NEW d \in DOMAIN cmds',
               cmds'[c].type = "CANCEL", cmds'[d].type = "CANCEL",
               cmds'[c].job = cmds'[d].job, cmds'[c].epoch = cmds'[d].epoch
        PROVE  c = d
    <3>1. c \in DOMAIN cmds /\ d \in DOMAIN cmds
      BY <1>2, <2>1
    <3> QED BY <1>2, <2>1, <3>1 DEF RowInv, CancelOnce, Answered
  <2> QED BY <2>1 DEF CancelOnce
<1> QED BY <1>1, <1>2, <1>3, <1>4, <1>5, <1>6, <1>7, <1>8, <1>9, <1>10 DEF RowInv

\* A requeue: no holder, an epoch nobody was granted, no command left but ABANDONs.
LEMMA RequeuePreserves ==
  ASSUME RowInv, NEW j \in Jobs, Requeue(j)
  PROVE  RowInv' /\ EpochsGrow
<1>1. /\ job \in [Jobs -> JobRecord] /\ cmds \in Seq(Command)
      /\ \A c \in DOMAIN cmds : cmds[c] \in Command /\ cmds[c].epoch \in Nat
      /\ \A k \in Jobs : job[k].epoch \in Nat
  BY CmdDomain DEF RowInv, JobRecord, Command
<1>2. /\ job' \in [Jobs -> JobRecord]
      /\ \A k \in Jobs \ {j} : job'[k] = job[k]
      /\ job'[j].state = "QUEUED" /\ job'[j].epoch = job[j].epoch + 1
  BY <1>1, RowWritten DEF Requeue, JobRecord, JobStates, ActiveStates
<1>3. Answered(cmds')
  BY WithdrawFacts, <1>1 DEF Requeue, Answered
<1>4. \A c \in DOMAIN cmds : cmds'[c].ack = "none" => cmds[c].job # j \/ cmds[c].type = "ABANDON"
  BY WithdrawFacts, <1>1 DEF Requeue
<1>5. EpochsGrow
  BY <1>1, <1>2 DEF EpochsGrow
<1>6. \A c \in DOMAIN cmds : cmds[c].job = j => cmds[c].epoch < job'[j].epoch
  BY <1>1, <1>2 DEF RowInv, IssuedEpochs
<1>7. \A c \in DOMAIN cmds : cmds[c].job # j => job'[cmds[c].job] = job[cmds[c].job]
  BY <1>1, <1>2 DEF Command
<1>8. IssuedEpochs'
  <2>1. ASSUME NEW c \in DOMAIN cmds PROVE cmds[c].epoch <= job'[cmds[c].job].epoch
    <3>1. CASE cmds[c].job = j
      <4>1. cmds[c].epoch < job'[j].epoch /\ job'[j].epoch \in Nat /\ cmds[c].epoch \in Nat
        BY <1>1, <1>2, <1>6, <3>1
      <4> QED BY <3>1, <4>1
    <3>2. CASE cmds[c].job # j
      BY <1>7, <3>2 DEF RowInv, IssuedEpochs
    <3> QED BY <3>1, <3>2
  <2> QED BY <1>3, <2>1 DEF IssuedEpochs, Answered
<1>9. UnheldIsFenced'
  <2>1. ASSUME NEW c \in DOMAIN cmds, cmds[c].type \in {"ASSIGN", "CANCEL"},
               job'[cmds[c].job].state \in {NotCreated, "QUEUED", "CRASHED"}
        PROVE  cmds[c].epoch < job'[cmds[c].job].epoch
    BY <1>6, <1>7, <2>1 DEF RowInv, UnheldIsFenced
  <2> QED BY <1>3, <2>1 DEF UnheldIsFenced, Answered
<1>10. HolderWasAssigned'
  <2>1. Leases' = Leases
    BY <1>3 DEF Leases, Answered
  <2>2. \A k \in Jobs : job'[k].state \in HeldStates => Held(k) /\ job'[k] = job[k]
    BY <1>2 DEF Held, HeldStates
  <2> QED BY <2>1, <2>2 DEF RowInv, HolderWasAssigned, Held
<1>11. LeaseUnique'
  BY <1>3 DEF RowInv, LeaseUnique, Answered
<1>12. NoOrphanCommand'
  <2>1. ASSUME NEW c \in DOMAIN cmds, cmds'[c].ack = "none", cmds[c].type \in {"ASSIGN", "CANCEL"}
        PROVE  /\ job'[cmds[c].job].state \in HeldStates
               /\ job'[cmds[c].job].runner = cmds[c].runner
               /\ job'[cmds[c].job].epoch = cmds[c].epoch
    <3>1. cmds[c].job # j /\ cmds[c].ack = "none"
      BY <1>3, <1>4, <2>1 DEF Answered
    <3> QED BY <1>7, <2>1, <3>1 DEF RowInv, NoOrphanCommand, Pending, Held, Holds
  <2> QED BY <1>3, <2>1 DEF NoOrphanCommand, Pending, Held, Holds, Answered
<1>13. CancelMarked'
  <2>1. ASSUME NEW c \in DOMAIN cmds, cmds[c].type = "CANCEL",
               job'[cmds[c].job].state \in HeldStates,
               cmds[c].epoch = job'[cmds[c].job].epoch
        PROVE  job'[cmds[c].job].cancelReq
    <3>1. cmds[c].job # j
      BY <1>2, <2>1 DEF HeldStates
    <3> QED BY <1>7, <2>1, <3>1 DEF RowInv, CancelMarked, Held
  <2> QED BY <1>3, <2>1 DEF CancelMarked, Held, Answered
<1>14. CancelOnce'
  BY <1>3 DEF RowInv, CancelOnce, Answered
<1> QED BY <1>2, <1>3, <1>5, <1>8, <1>9, <1>10, <1>11, <1>12, <1>13, <1>14 DEF RowInv, Answered

\* A dispatch: the row appears, queued and without a lease.
LEMMA DispatchPreserves ==
  ASSUME RowInv, NEW j \in Jobs, Dispatch(j)
  PROVE  RowInv' /\ EpochsGrow
<1>1. /\ job \in [Jobs -> JobRecord] /\ cmds' = cmds /\ job[j].state = NotCreated
      /\ \A c \in DOMAIN cmds : cmds[c] \in Command
      /\ \A k \in Jobs : job[k].epoch \in Nat
  BY CmdDomain DEF RowInv, JobRecord, Dispatch
<1>2. /\ job' \in [Jobs -> JobRecord]
      /\ \A k \in Jobs \ {j} : job'[k] = job[k]
      /\ job'[j].state = "QUEUED" /\ job'[j].epoch = job[j].epoch
  BY <1>1 DEF Dispatch, JobRecord, JobStates, ActiveStates
<1>3. \A k \in Jobs : job'[k].epoch = job[k].epoch
  BY <1>2
<1>4. \A k \in Jobs : job'[k].state \in HeldStates => Held(k) /\ job'[k] = job[k]
  BY <1>2 DEF Held, HeldStates
<1>5. \A k \in Jobs : Held(k) => job'[k] = job[k]
  BY <1>1, <1>2 DEF Held, HeldStates, NotCreated
<1>6. \A k \in Jobs : job'[k].state \in {NotCreated, "QUEUED", "CRASHED"} =>
        job[k].state \in {NotCreated, "QUEUED", "CRASHED"}
  BY <1>1, <1>2
<1>7. EpochsGrow
  BY <1>1, <1>3 DEF EpochsGrow
<1>8. IssuedEpochs' /\ UnheldIsFenced'
  BY <1>1, <1>3, <1>6 DEF RowInv, IssuedEpochs, UnheldIsFenced, Command
<1>9. HolderWasAssigned'
  BY <1>1, <1>4 DEF RowInv, HolderWasAssigned, Leases, Held
<1>10. LeaseUnique' /\ CancelOnce'
  BY <1>1 DEF RowInv, LeaseUnique, CancelOnce
<1>11. NoOrphanCommand'
  <2>1. ASSUME NEW c \in DOMAIN cmds, cmds[c].ack = "none", cmds[c].type \in {"ASSIGN", "CANCEL"}
        PROVE  /\ job'[cmds[c].job].state \in HeldStates
               /\ job'[cmds[c].job].runner = cmds[c].runner
               /\ job'[cmds[c].job].epoch = cmds[c].epoch
    BY <1>1, <1>5, <2>1 DEF RowInv, NoOrphanCommand, Pending, Held, Holds, Command
  <2> QED BY <1>1, <2>1 DEF NoOrphanCommand, Pending, Held, Holds
<1>12. CancelMarked'
  <2>1. ASSUME NEW c \in DOMAIN cmds, cmds[c].type = "CANCEL",
               job'[cmds[c].job].state \in HeldStates,
               cmds[c].epoch = job'[cmds[c].job].epoch
        PROVE  job'[cmds[c].job].cancelReq
    BY <1>1, <1>4, <2>1 DEF RowInv, CancelMarked, Command
  <2> QED BY <1>1, <2>1 DEF CancelMarked, Held
<1> QED BY <1>1, <1>2, <1>7, <1>8, <1>9, <1>10, <1>11, <1>12 DEF RowInv

\* A step that writes neither table.
LEMMA IdlePreserves ==
  ASSUME RowInv, UNCHANGED <<job, cmds>>
  PROVE  RowInv' /\ EpochsGrow
<1>1. \A k \in Jobs : job[k].epoch \in Nat
  BY DEF RowInv, JobRecord
<1>2. job' = job /\ cmds' = cmds
  OBVIOUS
<1> QED BY <1>1, <1>2 DEF RowInv, EpochsGrow, IssuedEpochs, UnheldIsFenced, HolderWasAssigned,
                         Leases, LeaseUnique, NoOrphanCommand, Pending, Held, Holds,
                         CancelMarked, CancelOnce

-----------------------------------------------------------------------------
(* Every action is one of these kinds *)

\* What the users' requests (dispatch, cancel, requeue) preserve.
LEMMA JobsApiRows ==
  ASSUME LeaseInv, RowInv, JobsApi
  PROVE  RowInv' /\ EpochsGrow
<1>1. Answered(cmds)
  BY DEF RowInv, Answered
<1>2. /\ "CANCELLED" \in JobStates /\ "CANCELLED" \notin {NotCreated, "QUEUED", "ASSIGNED"}
      /\ \A r \in Runners : rn[r].boot \in Boots \cup {NoBoot}
  BY DEF JobStates, TerminalStates, NotCreated, LeaseInv, TypeOK, RunnerRow
<1>3. PICK j \in Jobs : \/ Dispatch(j) \/ PlaceJob(j) \/ Requeue(j)
                        \/ Cancel(j) \/ CancelForBudget(j) \/ CancelForProjectDelete(j)
  BY DEF JobsApi
<1>4. CASE Apply(j, "CANCELLED", "server", cmds)
  BY <1>1, <1>2, <1>4, ApplyPreserves
<1>5. CASE Dispatch(j)
  BY <1>5, DispatchPreserves
<1>6. CASE PlaceJob(j)
  <2>1. CASE job[j].state = "QUEUED" /\ \E r \in Best(j) : Assign(j, r)
    BY <1>2, <2>1, AssignPreserves DEF Best
  <2>2. CASE UNCHANGED <<job, cmds>>
    BY <2>2, IdlePreserves
  <2> QED BY <1>4, <1>6, <2>1, <2>2 DEF PlaceJob
<1>7. CASE Requeue(j)
  BY <1>7, RequeuePreserves
<1>8. CASE Held(j) /\ ~job[j].cancelReq /\ RequestCancel(j)
  BY <1>8, CancelPreserves
<1>9. CASE Cancel(j)
  BY <1>4, <1>8, <1>9 DEF Cancel
<1>10. CASE CancelForBudget(j)
  BY <1>4, <1>8, <1>10 DEF CancelForBudget, Held, HeldStates
<1>11. CASE CancelForProjectDelete(j)
  BY <1>4, <1>11 DEF CancelForProjectDelete
<1> QED BY <1>3, <1>5, <1>6, <1>7, <1>9, <1>10, <1>11

\* What the acks of a sync preserve, whatever the command and the outcome.
LEMMA AckRows ==
  ASSUME LeaseInv, RowInv, NEW c \in DOMAIN cmds, NEW result \in {"ok", "rejected"},
         NEW b \in Boots, Ack(c, result, b)
  PROVE  RowInv' /\ EpochsGrow
<1> DEFINE j == cmds[c].job
<1>1. /\ job \in [Jobs -> JobRecord] /\ cmds \in Seq(Command) /\ cmds[c] \in Command
      /\ j \in Jobs /\ cmds[c].runner \in Runners /\ cmds[c].epoch \in Nat
      /\ cmds[c].epoch <= job[j].epoch
  BY CmdDomain DEF RowInv, IssuedEpochs, Command
<1>2. \A res \in AckResults \ {"none"} : Answered(Answer(cmds, c, res))
  BY <1>1, AnswerFacts DEF Answered
<1>3. {"ok", "rejected", "STALE"} \subseteq AckResults \ {"none"}
  BY DEF AckResults
<1>4. ASSUME NEW to \in {"CRASHED", "FAILED", "CANCELLED"}, NEW by \in {"server", "runner"},
             Apply(j, to, by, Answer(cmds, c, result))
      PROVE  RowInv' /\ EpochsGrow
  <2>1. to \in JobStates /\ to \notin {NotCreated, "QUEUED", "ASSIGNED"}
    BY DEF JobStates, TerminalStates, NotCreated
  <2> QED BY <1>1, <1>2, <1>3, <1>4, <2>1, ApplyPreserves
<1>5. CASE AckStale(c)
  <2>1. Answered(Answer(cmds, c, "STALE")) /\ UNCHANGED job
    BY <1>2, <1>3, <1>5 DEF AckStale
  <2>2. CASE cmds' = Answer(cmds, c, "STALE")
    BY <1>1, <2>1, <2>2, AnswerPreserves
  <2>3. CASE cmds' = Issue(Answer(cmds, c, "STALE"), "ABANDON", cmds[c].runner, j, cmds[c].epoch)
    BY <1>1, <2>1, <2>3, NoticePreserves
  <2> QED BY <1>5, <2>2, <2>3 DEF AckStale, Abandon
<1>6. CASE cmds' = Answer(cmds, c, result) /\ UNCHANGED job
  BY <1>1, <1>2, <1>3, <1>6, AnswerPreserves
<1>7. CASE cmds' = Answer(cmds, c, result) /\ job' = [job EXCEPT ![j].boot = b]
  <2>1. /\ job' \in [Jobs -> JobRecord]
        /\ \A k \in Jobs : /\ job'[k].state = job[k].state /\ job'[k].runner = job[k].runner
                           /\ job'[k].epoch = job[k].epoch
                           /\ job'[k].cancelReq = job[k].cancelReq
    BY <1>1, <1>7 DEF JobRecord
  <2> QED BY <1>2, <1>3, <1>7, <2>1, AnswerPreserves
<1>8. CASE AckHeld(c, result, b)
  BY <1>4, <1>6, <1>7, <1>8 DEF AckHeld
<1>9. CASE AckAbandon(c, result)
  BY <1>6, <1>9 DEF AckAbandon
<1> QED BY <1>5, <1>8, <1>9 DEF Ack

\* What the rest of a sync preserves: reports, boots, placement, fenced requests.
LEMMA SyncApiRows ==
  ASSUME LeaseInv, RowInv, SyncApi
  PROVE  RowInv' /\ EpochsGrow
<1>1. /\ Answered(cmds) /\ job \in [Jobs -> JobRecord] /\ cmds \in Seq(Command)
      /\ \A c \in DOMAIN cmds : cmds[c] \in Command
  BY CmdDomain DEF RowInv, Answered
<1>2. \A r \in Runners : rn[r].boot \in Boots \cup {NoBoot}
  BY DEF LeaseInv, TypeOK, RunnerRow
<1>3. CASE UNCHANGED <<job, cmds>>
  BY <1>3, IdlePreserves
<1>4. ASSUME NEW r \in Runners, NEW j \in Jobs, FillOne(r, j)
      PROVE  RowInv' /\ EpochsGrow
  <2>1. CASE Apply(j, "CANCELLED", "server", cmds)
    BY <1>1, <2>1, ApplyPreserves DEF JobStates, TerminalStates, NotCreated
  <2>2. CASE Assign(j, r)
    BY <1>2, <1>4, <2>2, AssignPreserves DEF FillOne
  <2> QED BY <1>4, <2>1, <2>2 DEF FillOne
<1>5. ASSUME NEW l \in Leases
      PROVE  /\ l.job \in Jobs /\ l.runner \in Runners /\ l.epoch \in Nat
             /\ l.epoch <= job[l.job].epoch
  BY <1>1 DEF Leases, Command, RowInv, IssuedEpochs
<1>6. ASSUME NEW l \in Leases, Fenced(l)
      PROVE  RowInv' /\ EpochsGrow
  <2>1. CASE UNCHANGED cmds
    BY <1>3, <1>6, <2>1 DEF Fenced
  <2>2. CASE cmds' = Issue(cmds, "ABANDON", l.runner, l.job, l.epoch)
    BY <1>1, <1>5, <1>6, <2>2, NoticePreserves DEF Fenced
  <2> QED BY <1>6, <2>1, <2>2 DEF Fenced, Abandon
<1>7. ASSUME NEW l \in Leases, NEW to \in ReportStates, Report(l, to)
      PROVE  RowInv' /\ EpochsGrow
  <2>1. /\ Move(l.job, to, "runner", cmds) /\ l.job \in Jobs
        /\ <<job[l.job].state, to>> \in ReportMoves
        /\ to \in JobStates /\ to \notin {NotCreated, "QUEUED", "ASSIGNED"}
    BY <1>5, <1>7 DEF Report, ReportStates, JobStates, ActiveStates, TerminalStates, NotCreated
  <2> QED BY <1>1, <2>1, MovePreserves
<1>8. ASSUME NEW x \in recon, ReconWrite(x)
      PROVE  RowInv' /\ EpochsGrow
  <2>1. x \in ReconRow /\ x.job \in Jobs /\ x.epoch \in Nat /\ x.epoch <= job[x.job].epoch
          /\ x.runner \in Runners /\ x.boot \in Boots
    BY DEF LeaseInv, TypeOK, KnownEpochs, ReconRow
  <2>2. CASE job' = [job EXCEPT ![x.job].boot = x.boot] /\ UNCHANGED cmds
    <3>1. /\ job' \in [Jobs -> JobRecord]
          /\ \A k \in Jobs : /\ job'[k].state = job[k].state /\ job'[k].runner = job[k].runner
                             /\ job'[k].epoch = job[k].epoch
                             /\ job'[k].cancelReq = job[k].cancelReq
      BY <1>1, <2>1, <2>2 DEF JobRecord
    <3> QED BY <1>1, <2>2, <3>1, AnswerPreserves
  <2>3. CASE cmds' = Issue(cmds, "READOPT", x.runner, x.job, x.epoch) /\ UNCHANGED job
    BY <1>1, <2>1, <2>3, NoticePreserves
  <2> QED BY <1>8, <2>2, <2>3 DEF ReconWrite
<1>9. ASSUME NEW x \in recon, ReconCheck(x)
      PROVE  RowInv' /\ EpochsGrow
  BY <1>3, <1>9 DEF ReconCheck
<1>10. ASSUME NEW r \in Runners, NEW b \in Boots, SyncSeen(r, b) \/ ReconRead(r, b)
       PROVE  RowInv' /\ EpochsGrow
  BY <1>3, <1>10 DEF SyncSeen, ReconRead
<1> QED BY <1>4, <1>6, <1>7, <1>8, <1>9, <1>10, AckRows DEF SyncApi

\* What the sweep and the changes of runners and scopes preserve.
LEMMA BackgroundRows ==
  ASSUME LeaseInv, RowInv, Background
  PROVE  RowInv' /\ EpochsGrow
<1>1. CASE UNCHANGED <<job, cmds>>
  BY <1>1, IdlePreserves
<1>2. ASSUME NEW j \in Jobs, Sweep(j)
      PROVE  RowInv' /\ EpochsGrow
  <2>1. Apply(j, "CRASHED", "server", cmds) /\ Answered(cmds)
    BY <1>2 DEF Sweep, RowInv, Answered
  <2> QED BY <2>1, ApplyPreserves DEF JobStates, TerminalStates, NotCreated
<1>3. ASSUME NEW r \in Runners, TimePasses(r) \/ SetEnabled(r)
      PROVE  RowInv' /\ EpochsGrow
  BY <1>1, <1>3 DEF TimePasses, SetEnabled
<1>4. ASSUME NEW s \in PauseScopes, TogglePause(s)
      PROVE  RowInv' /\ EpochsGrow
  BY <1>1, <1>4 DEF TogglePause
<1>5. CASE ApiRestart
  BY <1>1, <1>5 DEF ApiRestart
<1> QED BY <1>2, <1>3, <1>4, <1>5 DEF Background

\* Every step of the server, taken together.
LEMMA NextRows ==
  ASSUME LeaseInv, [Next]_vars
  PROVE  RowInv' /\ EpochsGrow
<1>1. RowInv
  BY DEF LeaseInv, TypeOK, RowInv
<1>2. CASE UNCHANGED vars
  BY <1>1, <1>2, IdlePreserves DEF vars
<1> QED BY <1>1, <1>2, JobsApiRows, SyncApiRows, BackgroundRows DEF Next

-----------------------------------------------------------------------------
(* The rows no lease depends on *)

\* What every step preserves of runners, scopes, jobs being placed and reconciliations.
LEMMA OtherRows ==
  ASSUME LeaseInv, [Next]_vars
  PROVE  /\ rn' \in [Runners -> RunnerRow] /\ paused' \subseteq PauseScopes
         /\ placing' \subseteq Jobs /\ recon' \subseteq ReconRow
         /\ \A x \in recon' : x.epoch <= job[x.job].epoch
<1>1. /\ rn \in [Runners -> RunnerRow] /\ paused \subseteq PauseScopes
      /\ placing \subseteq Jobs /\ recon \subseteq ReconRow
      /\ \A x \in recon : x.epoch <= job[x.job].epoch
      /\ job \in [Jobs -> JobRecord]
  BY DEF LeaseInv, TypeOK, KnownEpochs
<1>2. CASE UNCHANGED <<rn, paused, placing, recon>>
  BY <1>1, <1>2
<1>3. CASE JobsApi
  BY <1>1, <1>3 DEF JobsApi, Dispatch, PlaceJob, Requeue, Cancel, CancelForBudget,
                    CancelForProjectDelete
<1>4. ASSUME NEW r \in Runners, NEW b \in Boots, SyncSeen(r, b)
      PROVE  rn' \in [Runners -> RunnerRow] /\ UNCHANGED <<paused, placing, recon>>
  BY <1>1, <1>4 DEF SyncSeen, RunnerRow
<1>5. ASSUME NEW r \in Runners, NEW b \in Boots, ReconRead(r, b)
      PROVE  /\ recon' \subseteq ReconRow /\ UNCHANGED <<rn, paused, placing>>
             /\ \A x \in recon' : x.epoch <= job[x.job].epoch
  <2> DEFINE x(j) == [runner |-> r, boot |-> b, job |-> j, epoch |-> job[j].epoch,
                      assigned |-> job[j].state = "ASSIGNED", step |-> "check"]
  <2>1. /\ recon' = recon \cup {x(j) : j \in {k \in HeldBy(r) : job[k].boot # b}}
        /\ UNCHANGED <<rn, paused, placing>>
    BY <1>5 DEF ReconRead
  <2>2. ASSUME NEW j \in Jobs
        PROVE  x(j) \in ReconRow /\ x(j).epoch <= job[x(j).job].epoch
    <3>1. job[j].epoch \in Nat
      BY <1>1 DEF JobRecord
    <3> QED BY <3>1 DEF ReconRow
  <2>3. HeldBy(r) \subseteq Jobs
    BY DEF HeldBy
  <2> HIDE DEF x
  <2> QED BY <1>1, <2>1, <2>2, <2>3
<1>6. ASSUME NEW x \in recon, ReconCheck(x)
      PROVE  /\ recon' \subseteq ReconRow /\ UNCHANGED <<rn, paused, placing>>
             /\ \A y \in recon' : y.epoch <= job[y.job].epoch
  <2>1. \A step \in {"touch", "readopt"} :
          /\ [x EXCEPT !.step = step] \in ReconRow
          /\ [x EXCEPT !.step = step].epoch = x.epoch /\ [x EXCEPT !.step = step].job = x.job
    BY <1>1 DEF ReconRow
  <2>2. recon' \subseteq recon \cup {[x EXCEPT !.step = "touch"], [x EXCEPT !.step = "readopt"]}
    BY <1>6 DEF ReconCheck
  <2> QED BY <1>1, <1>6, <2>1, <2>2 DEF ReconCheck
<1>7. ASSUME NEW x \in recon, ReconWrite(x)
      PROVE  recon' \subseteq recon /\ UNCHANGED <<rn, paused, placing>>
  BY <1>7 DEF ReconWrite
<1>8. CASE SyncApi
  BY <1>1, <1>2, <1>4, <1>5, <1>6, <1>7, <1>8 DEF SyncApi, FillOne, Ack, Fenced, Report
<1>9. ASSUME NEW r \in Runners, TimePasses(r) \/ SetEnabled(r)
      PROVE  rn' \in [Runners -> RunnerRow] /\ UNCHANGED <<paused, placing, recon>>
  <2>1. rn[r] \in RunnerRow
    BY <1>1
  <2>2. CASE SetEnabled(r)
    BY <1>1, <2>1, <2>2 DEF SetEnabled, RunnerRow
  <2>3. CASE TimePasses(r)
    BY <1>1, <2>1, <2>3 DEF TimePasses, RunnerRow
  <2> QED BY <1>9, <2>2, <2>3
<1>10. CASE Background
  BY <1>1, <1>2, <1>9, <1>10 DEF Background, Sweep, TogglePause, ApiRestart
<1> QED BY <1>1, <1>2, <1>3, <1>8, <1>10 DEF Next, vars

-----------------------------------------------------------------------------
(* The theorems *)

\* The initial state satisfies the lease invariant.
LEMMA LeaseInit == Init => LeaseInv
<1> SUFFICES ASSUME Init PROVE LeaseInv
  OBVIOUS
<1>1. TypeOK
  BY DEF Init, TypeOK, JobRecord, RunnerRow, JobStates
<1>2. cmds = << >> /\ recon = {} /\ \A j \in Jobs : job[j].state = NotCreated
  BY DEF Init
<1>3. DOMAIN cmds = {} /\ \A j \in Jobs : ~Held(j)
  BY <1>2 DEF Held, HeldStates, NotCreated
<1> QED BY <1>1, <1>2, <1>3 DEF LeaseInv, IssuedEpochs, KnownEpochs, UnheldIsFenced,
                 HolderWasAssigned, LeaseUnique, NoOrphanCommand, CancelMarked, CancelOnce

\* The lease invariant is inductive, and no step lowers an epoch.
LEMMA LeaseStep == LeaseInv /\ [Next]_vars => LeaseInv' /\ EpochsGrow
<1> SUFFICES ASSUME LeaseInv, [Next]_vars PROVE LeaseInv' /\ EpochsGrow
  OBVIOUS
<1>1. RowInv' /\ EpochsGrow
  BY NextRows
<1>2. /\ rn' \in [Runners -> RunnerRow] /\ paused' \subseteq PauseScopes
      /\ placing' \subseteq Jobs /\ recon' \subseteq ReconRow
      /\ \A x \in recon' : x.epoch <= job[x.job].epoch
  BY OtherRows
<1>3. TypeOK'
  BY <1>1, <1>2 DEF TypeOK, RowInv
<1>4. KnownEpochs'
  <2>1. ASSUME NEW x \in recon' PROVE x.epoch <= job'[x.job].epoch
    <3>1. x.job \in Jobs /\ x.epoch \in Nat /\ x.epoch <= job[x.job].epoch
      BY <1>2 DEF ReconRow
    <3>2. job[x.job].epoch \in Nat /\ job'[x.job].epoch \in Nat
      BY <1>1, <3>1 DEF LeaseInv, TypeOK, RowInv, JobRecord
    <3> QED BY <1>1, <3>1, <3>2 DEF EpochsGrow
  <2> QED BY <2>1 DEF KnownEpochs
<1> QED BY <1>1, <1>3, <1>4 DEF LeaseInv, RowInv

\* The lease protocol's inductive invariant holds in every reachable state.
THEOREM LeaseInvariance == Spec => []LeaseInv
<1>1. Init => LeaseInv
  BY LeaseInit
<1>2. LeaseInv /\ [Next]_vars => LeaseInv'
  BY LeaseStep
<1> QED BY <1>1, <1>2, PTL DEF Spec

\* Every row keeps its type (FleetJob.state, leaseEpoch, runnerBootId and so on).
THEOREM TypeCorrectness == Spec => []TypeOK
<1>1. LeaseInv => TypeOK
  BY DEF LeaseInv
<1> QED BY <1>1, LeaseInvariance, PTL

\* casAssign and the epoch bumps never grant a lease twice.
THEOREM LeasesAreUnique == Spec => []LeaseUnique
<1>1. LeaseInv => LeaseUnique
  BY DEF LeaseInv
<1> QED BY <1>1, LeaseInvariance, PTL

\* A job in a held state was given to its runner under its current epoch.
THEOREM HoldersWereAssigned == Spec => []HolderWasAssigned
<1>1. LeaseInv => HolderWasAssigned
  BY DEF LeaseInv
<1> QED BY <1>1, LeaseInvariance, PTL

\* Whatever a runner sends for a job the server crashed or queued again is
\* fenced, however late it arrives (FenceService.holds).
THEOREM Fencing == Spec => []TakenAwayIsFenced
<1>1. ASSUME LeaseInv PROVE TakenAwayIsFenced
  <2>1. SUFFICES ASSUME NEW j \in Jobs, job[j].state \in {"CRASHED", "QUEUED"},
                        NEW l \in Leases, l.job = j
                 PROVE  l.epoch < job[j].epoch
    BY DEF TakenAwayIsFenced
  <2>2. PICK c \in DOMAIN cmds :
          /\ cmds[c].type = "ASSIGN"
          /\ l = [job |-> cmds[c].job, runner |-> cmds[c].runner, epoch |-> cmds[c].epoch]
    BY DEF Leases
  <2>3. cmds[c].epoch < job[cmds[c].job].epoch
    BY <1>1, <2>1, <2>2 DEF LeaseInv, UnheldIsFenced
  <2> QED BY <2>1, <2>2, <2>3
<1> QED BY <1>1, LeaseInvariance, PTL

\* No ASSIGN or CANCEL is pending for a lease that is over
\* (withdrawPendingCommands in every terminal transition and in requeue).
THEOREM NoOrphans == Spec => []NoOrphanCommand
<1>1. LeaseInv => NoOrphanCommand
  BY DEF LeaseInv
<1> QED BY <1>1, LeaseInvariance, PTL

\* A lease gets one CANCEL at most (cancelRequestedAt).
THEOREM CancelAtMostOnce == Spec => []CancelOnce
<1>1. LeaseInv => CancelOnce
  BY DEF LeaseInv
<1> QED BY <1>1, LeaseInvariance, PTL

\* leaseEpoch never goes down.
THEOREM EpochsNeverFall == Spec => EpochMonotone
<1>1. LeaseInv /\ [Next]_vars => [\A j \in Jobs : job'[j].epoch >= job[j].epoch]_vars
  BY LeaseStep DEF EpochsGrow
<1> QED BY <1>1, LeaseInvariance, PTL DEF Spec, EpochMonotone

-----------------------------------------------------------------------------
(***************************************************************************)
(* FleetJob implements ExclusiveLease: a placement grants a lease, a       *)
(* transition out of the held states ends one, and nothing else touches    *)
(* what was granted or who holds it.                                       *)
(***************************************************************************)

LeaseStutter == UNCHANGED <<Leases, InForce>>
LeaseEnds    == \E l \in InForce : Exclusive!End(l)

\* What it takes for job j to leave a lease alone.
SameLease(j) ==
  /\ job'[j].state \in HeldStates <=> job[j].state \in HeldStates
  /\ job[j].state \in HeldStates =>
       job'[j].runner = job[j].runner /\ job'[j].epoch = job[j].epoch

-----------------------------------------------------------------------------
(* What was granted *)

\* Answering and withdrawing commands grants nothing.
LEMMA AnswersGrantNothing ==
  ASSUME Answered(cmds')
  PROVE  Leases' = Leases
  BY DEF Leases, Answered

\* Nor does a command that is no ASSIGN.
LEMMA NoticesGrantNothing ==
  ASSUME cmds \in Seq(Command), NEW cs, Answered(cs), NEW type \in CommandTypes \ {"ASSIGN"},
         NEW r, NEW j, NEW e, cmds' = Issue(cs, type, r, j, e)
  PROVE  Leases' = Leases
<1> DEFINE n == Len(cs) + 1
<1>1. DOMAIN cs = 1..Len(cs) /\ Len(cs) \in Nat /\ DOMAIN cs = DOMAIN cmds
  BY DEF Answered
<1>2. DOMAIN cmds' = DOMAIN cs \cup {n} /\ n \notin DOMAIN cs
  BY <1>1 DEF Issue, Answered
<1>3. /\ \A c \in DOMAIN cs : cmds'[c] = cs[c]
      /\ cmds'[n].type = type
  BY <1>1 DEF Issue, Answered
<1>4. {d \in DOMAIN cmds' : cmds'[d].type = "ASSIGN"}
        = {d \in DOMAIN cmds : cmds[d].type = "ASSIGN"}
  BY <1>1, <1>2, <1>3 DEF Answered
<1>5. \A d \in DOMAIN cmds : /\ cmds'[d].job = cmds[d].job /\ cmds'[d].runner = cmds[d].runner
                             /\ cmds'[d].epoch = cmds[d].epoch
  BY <1>1, <1>3 DEF Answered
<1> QED BY <1>4, <1>5 DEF Leases

-----------------------------------------------------------------------------
(* The kinds of step *)

\* Jobs that keep their leases change nobody's.
LEMMA Keeps ==
  ASSUME Leases' = Leases, \A k \in Jobs : SameLease(k)
  PROVE  LeaseStutter
<1>1. {k \in Jobs : Held(k)}' = {k \in Jobs : Held(k)}
  BY DEF SameLease, Held
<1>2. \A k \in {i \in Jobs : Held(i)} :
        job'[k].runner = job[k].runner /\ job'[k].epoch = job[k].epoch
  BY DEF SameLease, Held
<1> QED BY <1>1, <1>2 DEF InForce, LeaseStutter

\* One job leaves the held states.
LEMMA Ends ==
  ASSUME Leases' = Leases, NEW j \in Jobs, Held(j), job'[j].state \notin HeldStates,
         \A k \in Jobs \ {j} : SameLease(k)
  PROVE  LeaseEnds
<1> DEFINE l(k) == [job |-> k, runner |-> job[k].runner, epoch |-> job[k].epoch]
<1>1. l(j) \in InForce
  BY DEF InForce
<1>2. {k \in Jobs : Held(k)}' = {k \in Jobs : Held(k)} \ {j}
  BY DEF SameLease, Held
<1>3. \A k \in {i \in Jobs : Held(i)} \ {j} :
        job'[k].runner = job[k].runner /\ job'[k].epoch = job[k].epoch
  BY DEF SameLease, Held
<1>4. InForce' = {l(k) : k \in {i \in Jobs : Held(i)} \ {j}}
  BY <1>2, <1>3 DEF InForce
<1>5. InForce = {l(k) : k \in {i \in Jobs : Held(i)}}
  BY DEF InForce
<1>6. \A k \in Jobs : l(k) = l(j) => k = j
  OBVIOUS
<1>7. InForce' = InForce \ {l(j)}
  BY <1>4, <1>5, <1>6
<1> QED BY <1>1, <1>7 DEF LeaseEnds, Exclusive!End

\* A row written for j leaves the other jobs' leases alone.
LEMMA OthersKeep ==
  ASSUME NEW j \in Jobs, \A k \in Jobs \ {j} : job'[k] = job[k]
  PROVE  \A k \in Jobs \ {j} : SameLease(k)
  BY DEF SameLease

\* JobTransitionsService.apply ends a lease or leaves it alone.
LEMMA MoveIsLeaseStep ==
  ASSUME RowInv, NEW j \in Jobs, NEW to \in JobStates, NEW by \in {"server", "runner"},
         to \notin {NotCreated, "QUEUED", "ASSIGNED"},
         NEW cs, Answered(cs), Move(j, to, by, cs),
         job[j].state \in HeldStates \/ to \notin HeldStates
  PROVE  LeaseStutter \/ LeaseEnds
<1> DEFINE row == Moved(job[j], to, by)
<1>1. job[j] \in JobRecord /\ job \in [Jobs -> JobRecord] /\ cmds \in Seq(Command)
  BY DEF RowInv
<1>2. /\ row \in JobRecord /\ row.state = to /\ row.runner = job[j].runner
      /\ row.epoch # job[j].epoch => to \in TerminalStates
  BY <1>1, MovedFacts
<1>3. job' = [job EXCEPT ![j] = row]
  BY DEF Move
<1> HIDE DEF row
<1>4. job'[j] = row /\ \A k \in Jobs \ {j} : job'[k] = job[k]
  BY <1>1, <1>2, <1>3, RowWritten
<1>5. \A k \in Jobs \ {j} : SameLease(k)
  BY <1>4, OthersKeep
<1>6. Leases' = Leases
  <2>1. Answered(cmds')
    BY <1>1, WithdrawAnswered DEF Move
  <2> QED BY <2>1, AnswersGrantNothing
<1>7. CASE to \in HeldStates
  <2>1. to \notin TerminalStates
    BY <1>7 DEF HeldStates, TerminalStates
  <2>2. SameLease(j)
    BY <1>2, <1>4, <1>7, <2>1 DEF SameLease
  <2> QED BY <1>5, <1>6, <2>2, Keeps
<1>8. CASE to \notin HeldStates /\ job[j].state \in HeldStates
  BY <1>2, <1>4, <1>5, <1>6, <1>8, Ends DEF Held
<1>9. CASE to \notin HeldStates /\ job[j].state \notin HeldStates
  BY <1>2, <1>4, <1>5, <1>6, <1>9, Keeps DEF SameLease
<1> QED BY <1>7, <1>8, <1>9

\* A transition that the table allows.
LEMMA ApplyIsLeaseStep ==
  ASSUME RowInv, NEW j \in Jobs, NEW to \in TerminalStates, NEW by \in {"server", "runner"},
         NEW cs, Answered(cs), Apply(j, to, by, cs)
  PROVE  LeaseStutter \/ LeaseEnds
<1>1. to \in JobStates /\ to \notin HeldStates \cup {NotCreated, "QUEUED", "ASSIGNED"}
  BY DEF JobStates, TerminalStates, HeldStates, NotCreated
<1> QED BY <1>1, MoveIsLeaseStep DEF Apply

\* A placement grants a lease that is younger than any other of its job.
LEMMA AssignIsGrant ==
  ASSUME RowInv, NEW j \in Jobs, NEW r \in Runners, job[j].state = "QUEUED", Assign(j, r)
  PROVE  \E l \in Exclusive!Lease : Exclusive!Grant(l)
<1> DEFINE e == job[j].epoch + 1
           l == [job |-> j, runner |-> r, epoch |-> e]
           n == Len(cmds) + 1
           k(i) == [job |-> i, runner |-> job[i].runner, epoch |-> job[i].epoch]
<1>1. /\ job \in [Jobs -> JobRecord] /\ cmds \in Seq(Command) /\ job[j].epoch \in Nat
      /\ MaxEpoch \in Nat /\ job[j].epoch < MaxEpoch
  BY BoundAssumption DEF RowInv, JobRecord, Assign
<1>2. l \in Exclusive!Lease
  BY <1>1 DEF Exclusive!Lease
<1>3. \A g \in Leases : g.job = j => g.epoch < e
  <2>1. SUFFICES ASSUME NEW c \in DOMAIN cmds, cmds[c].type = "ASSIGN", cmds[c].job = j
                 PROVE  cmds[c].epoch < e
    BY DEF Leases
  <2>2. cmds[c].epoch <= job[j].epoch /\ cmds[c].epoch \in Nat
    BY <1>1, <2>1, CmdDomain DEF RowInv, IssuedEpochs, Command
  <2> QED BY <1>1, <2>2
<1>4. ~Held(j)
  BY DEF Held, HeldStates
<1>5. \A g \in InForce : g.job # j
  BY <1>4 DEF InForce
<1>6. /\ cmds' = Issue(cmds, "ASSIGN", r, j, e)
      /\ DOMAIN cmds = 1..Len(cmds) /\ Len(cmds) \in Nat
  BY <1>1 DEF Assign
<1>7. /\ DOMAIN cmds' = DOMAIN cmds \cup {n} /\ n \notin DOMAIN cmds
      /\ \A c \in DOMAIN cmds : cmds'[c] = cmds[c]
      /\ cmds'[n].type = "ASSIGN" /\ cmds'[n].job = j
      /\ cmds'[n].runner = r /\ cmds'[n].epoch = e
  BY <1>1, <1>6 DEF Issue
<1>8. Leases' = Leases \cup {l}
  <2> DEFINE of(cs, c) == [job |-> cs[c].job, runner |-> cs[c].runner, epoch |-> cs[c].epoch]
             A == {c \in DOMAIN cmds : cmds[c].type = "ASSIGN"}
  <2>1. {c \in DOMAIN cmds' : cmds'[c].type = "ASSIGN"} = A \cup {n}
    BY <1>7
  <2>2. \A c \in A : of(cmds', c) = of(cmds, c)
    BY <1>7
  <2>3. of(cmds', n) = l
    BY <1>7
  <2>4. Leases = {of(cmds, c) : c \in A}
    BY DEF Leases
  <2>5. Leases' = {of(cmds', c) : c \in A \cup {n}}
    BY <2>1 DEF Leases
  <2> HIDE DEF of, A
  <2> QED BY <2>2, <2>3, <2>4, <2>5
<1>9. /\ job'[j].state = "ASSIGNED" /\ job'[j].runner = r /\ job'[j].epoch = e
      /\ \A i \in Jobs \ {j} : job'[i] = job[i]
  BY <1>1 DEF Assign, Placed
<1>10. InForce' = InForce \cup {l}
  <2> DEFINE H == {i \in Jobs : Held(i)}
  <2>1. {i \in Jobs : Held(i)}' = H \cup {j}
    BY <1>9 DEF Held, HeldStates
  <2>2. j \notin H
    BY <1>4
  <2>3. InForce = {k(i) : i \in H}
    BY DEF InForce
  <2>4. InForce'
          = {[job |-> i, runner |-> job'[i].runner, epoch |-> job'[i].epoch] : i \in H \cup {j}}
    BY <2>1 DEF InForce
  <2>5. \A i \in H : [job |-> i, runner |-> job'[i].runner, epoch |-> job'[i].epoch] = k(i)
    BY <1>9, <2>2
  <2>6. [job |-> j, runner |-> job'[j].runner, epoch |-> job'[j].epoch] = l
    BY <1>9
  <2> HIDE DEF H
  <2> QED BY <2>3, <2>4, <2>5, <2>6
<1>11. Exclusive!Grant(l)
  BY <1>3, <1>5, <1>8, <1>10 DEF Exclusive!Grant
<1> QED BY <1>2, <1>11

-----------------------------------------------------------------------------
(* Every action is a lease step *)

\* The one kind of step that grants a lease: a placement that the rules allow.
Places(j, r) ==
  Fits(j, r) /\ Assign(j, r) /\ \E l \in Exclusive!Lease : Exclusive!Grant(l)

AnyLeaseStep == LeaseStutter \/ LeaseEnds \/ \E j \in Jobs, r \in Runners : Places(j, r)

\* Jobs that do not move and commands that are only answered.
LEMMA IdleIsLeaseStep ==
  ASSUME Answered(cmds'),
         \A k \in Jobs : /\ job'[k].state = job[k].state /\ job'[k].runner = job[k].runner
                         /\ job'[k].epoch = job[k].epoch
  PROVE  LeaseStutter
<1>1. \A k \in Jobs : SameLease(k)
  BY DEF SameLease
<1> QED BY <1>1, AnswersGrantNothing, Keeps

\* A command other than ASSIGN, for jobs that do not move.
LEMMA NoticeIsLeaseStep ==
  ASSUME RowInv, NEW cs, Answered(cs), NEW type \in CommandTypes \ {"ASSIGN"},
         NEW r, NEW j, NEW e, cmds' = Issue(cs, type, r, j, e),
         \A k \in Jobs : /\ job'[k].state = job[k].state /\ job'[k].runner = job[k].runner
                         /\ job'[k].epoch = job[k].epoch
  PROVE  LeaseStutter
<1>1. \A k \in Jobs : SameLease(k)
  BY DEF SameLease
<1>2. Leases' = Leases
  BY NoticesGrantNothing DEF RowInv
<1> QED BY <1>1, <1>2, Keeps

\* Dispatch and requeue write a row that nobody holds, before and after.
LEMMA UnheldIsLeaseStep ==
  ASSUME Answered(cmds'), NEW j \in Jobs,
         job[j].state \notin HeldStates, job'[j].state \notin HeldStates,
         \A k \in Jobs \ {j} : job'[k] = job[k]
  PROVE  LeaseStutter
<1>1. \A k \in Jobs : SameLease(k)
  BY DEF SameLease
<1> QED BY <1>1, AnswersGrantNothing, Keeps

\* An answered table, from an unchanged or a withdrawn one.
LEMMA AnsweredTables ==
  ASSUME RowInv, NEW j
  PROVE  Answered(cmds) /\ Answered(Withdraw(cmds, j))
<1>1. Answered(cmds) /\ cmds \in Seq(Command)
  BY DEF RowInv, Answered
<1> QED BY <1>1, WithdrawAnswered

\* The users' requests.
LEMMA JobsApiIsLeaseStep ==
  ASSUME LeaseInv, RowInv, JobsApi
  PROVE  AnyLeaseStep
<1>1. Answered(cmds) /\ job \in [Jobs -> JobRecord] /\ "CANCELLED" \in TerminalStates
  BY AnsweredTables DEF RowInv, TerminalStates
<1>2. PICK j \in Jobs : \/ Dispatch(j) \/ PlaceJob(j) \/ Requeue(j)
                        \/ Cancel(j) \/ CancelForBudget(j) \/ CancelForProjectDelete(j)
  BY DEF JobsApi
<1>3. CASE Apply(j, "CANCELLED", "server", cmds)
  BY <1>1, <1>3, ApplyIsLeaseStep DEF AnyLeaseStep
<1>4. CASE RequestCancel(j)
  <2>1. cmds' = Issue(cmds, "CANCEL", job[j].runner, j, job[j].epoch)
        /\ "CANCEL" \in CommandTypes \ {"ASSIGN"}
    BY <1>4 DEF RequestCancel, CommandTypes
  <2>2. \A k \in Jobs : /\ job'[k].state = job[k].state /\ job'[k].runner = job[k].runner
                        /\ job'[k].epoch = job[k].epoch
    BY <1>1, <1>4 DEF RequestCancel, JobRecord
  <2> QED BY <1>1, <2>1, <2>2, NoticeIsLeaseStep DEF AnyLeaseStep
<1>5. CASE Dispatch(j)
  <2>1. /\ job[j].state \notin HeldStates /\ job'[j].state \notin HeldStates
        /\ \A k \in Jobs \ {j} : job'[k] = job[k] /\ cmds' = cmds
    BY <1>1, <1>5 DEF Dispatch, HeldStates, NotCreated, JobRecord
  <2>2. Answered(cmds')
    BY <1>1, <1>5 DEF Dispatch, Answered
  <2> QED BY <2>1, <2>2, UnheldIsLeaseStep DEF AnyLeaseStep
<1>6. CASE Requeue(j)
  <2>1. job[j].state \notin HeldStates
    BY <1>6 DEF Requeue, CanTransition, ServerMoves, HeldStates
  <2>2. job'[j].state \notin HeldStates /\ \A k \in Jobs \ {j} : job'[k] = job[k]
    BY <1>1, <1>6 DEF Requeue, HeldStates
  <2>3. Answered(cmds')
    BY <1>6, AnsweredTables DEF Requeue
  <2> QED BY <2>1, <2>2, <2>3, UnheldIsLeaseStep DEF AnyLeaseStep
<1>7. CASE PlaceJob(j)
  <2>1. ASSUME NEW r \in Best(j), job[j].state = "QUEUED", Assign(j, r)
        PROVE  AnyLeaseStep
    <3>1. r \in Runners /\ Fits(j, r)
      BY DEF Best
    <3> QED BY <1>1, <2>1, <3>1, AssignIsGrant DEF AnyLeaseStep, Places
  <2>2. CASE UNCHANGED <<job, cmds>>
    BY <1>1, <2>2, IdleIsLeaseStep DEF AnyLeaseStep, Answered
  <2> QED BY <1>3, <1>7, <2>1, <2>2 DEF PlaceJob
<1> QED BY <1>2, <1>3, <1>4, <1>5, <1>6, <1>7
        DEF Cancel, CancelForBudget, CancelForProjectDelete

\* The acks of a sync.
LEMMA AckIsLeaseStep ==
  ASSUME LeaseInv, RowInv, NEW c \in DOMAIN cmds, NEW result \in {"ok", "rejected"},
         NEW b \in Boots, Ack(c, result, b)
  PROVE  AnyLeaseStep
<1> DEFINE j == cmds[c].job
           Same == \A k \in Jobs : /\ job'[k].state = job[k].state /\ job'[k].epoch = job[k].epoch
                                   /\ job'[k].runner = job[k].runner
<1>1. job \in [Jobs -> JobRecord] /\ cmds \in Seq(Command) /\ cmds[c] \in Command /\ j \in Jobs
  BY CmdDomain DEF RowInv, Command
<1>2. \A res \in {"ok", "rejected", "STALE"} : Answered(Answer(cmds, c, res))
  <2>1. \A res \in {"ok", "rejected", "STALE"} : res \in AckResults \ {"none"}
    BY DEF AckResults
  <2> QED BY <1>1, <2>1, AnswerFacts DEF Answered
<1>3. ASSUME NEW to \in {"CRASHED", "FAILED", "CANCELLED"}, NEW by \in {"server", "runner"},
             Apply(j, to, by, Answer(cmds, c, result))
      PROVE  AnyLeaseStep
  BY <1>1, <1>2, <1>3, ApplyIsLeaseStep DEF AnyLeaseStep, TerminalStates
<1>4. ASSUME NEW res \in {"ok", "rejected", "STALE"}, cmds' = Answer(cmds, c, res), Same
      PROVE  AnyLeaseStep
  BY <1>2, <1>4, IdleIsLeaseStep DEF AnyLeaseStep
<1>5. CASE AckStale(c)
  <2>1. Same
    BY <1>5 DEF AckStale
  <2>2. "ABANDON" \in CommandTypes \ {"ASSIGN"}
    BY DEF CommandTypes
  <2>3. CASE cmds' = Answer(cmds, c, "STALE")
    BY <1>4, <2>1, <2>3
  <2>4. CASE cmds' = Issue(Answer(cmds, c, "STALE"), "ABANDON", cmds[c].runner, j, cmds[c].epoch)
    BY <1>2, <2>1, <2>2, <2>4, NoticeIsLeaseStep DEF AnyLeaseStep
  <2> QED BY <1>5, <2>3, <2>4 DEF AckStale, Abandon
<1>6. CASE cmds' = Answer(cmds, c, result) /\ UNCHANGED job
  BY <1>4, <1>6
<1>7. CASE cmds' = Answer(cmds, c, result) /\ job' = [job EXCEPT ![j].boot = b]
  <2>1. Same
    BY <1>1, <1>7 DEF JobRecord
  <2> QED BY <1>4, <1>7, <2>1
<1> QED BY <1>3, <1>5, <1>6, <1>7 DEF Ack, AckHeld, AckAbandon

\* The rest of a sync.
LEMMA SyncApiIsLeaseStep ==
  ASSUME LeaseInv, RowInv, SyncApi
  PROVE  AnyLeaseStep
<1>1. /\ Answered(cmds) /\ job \in [Jobs -> JobRecord] /\ cmds \in Seq(Command)
      /\ \A c \in DOMAIN cmds : cmds[c] \in Command
  BY AnsweredTables, CmdDomain DEF RowInv
<1>2. CASE UNCHANGED <<job, cmds>>
  BY <1>1, <1>2, IdleIsLeaseStep DEF AnyLeaseStep, Answered
<1>3. ASSUME NEW type \in {"ABANDON", "READOPT"}, NEW r, NEW j, NEW e,
             cmds' = Issue(cmds, type, r, j, e), UNCHANGED job
      PROVE  AnyLeaseStep
  <2>1. type \in CommandTypes \ {"ASSIGN"}
    BY DEF CommandTypes
  <2> QED BY <1>1, <1>3, <2>1, NoticeIsLeaseStep DEF AnyLeaseStep
<1>4. ASSUME NEW r \in Runners, NEW j \in Jobs, FillOne(r, j)
      PROVE  AnyLeaseStep
  <2>1. CASE Apply(j, "CANCELLED", "server", cmds)
    BY <1>1, <2>1, ApplyIsLeaseStep DEF AnyLeaseStep, TerminalStates
  <2>2. CASE Assign(j, r)
    <3>1. job[j].state = "QUEUED"
      BY <1>4 DEF FillOne
    <3>2. CASE Fits(j, r)
      BY <1>4, <2>2, <3>1, <3>2, AssignIsGrant DEF AnyLeaseStep, Places
    <3>3. CASE ~Fits(j, r)
      BY <1>4, <2>1, <3>3 DEF FillOne
    <3> QED BY <3>2, <3>3
  <2> QED BY <1>4, <2>1, <2>2 DEF FillOne
<1>5. ASSUME NEW l \in Leases, Fenced(l)
      PROVE  AnyLeaseStep
  <2>1. CASE UNCHANGED cmds
    BY <1>2, <1>5, <2>1 DEF Fenced
  <2>2. CASE cmds' = Issue(cmds, "ABANDON", l.runner, l.job, l.epoch)
    BY <1>3, <1>5, <2>2 DEF Fenced
  <2> QED BY <1>5, <2>1, <2>2 DEF Fenced, Abandon
<1>6. ASSUME NEW l \in Leases, NEW to \in ReportStates, Report(l, to)
      PROVE  AnyLeaseStep
  <2>1. l.job \in Jobs
    BY <1>1 DEF Leases, Command
  <2>2. to \in JobStates /\ to \notin {NotCreated, "QUEUED", "ASSIGNED"}
    BY DEF ReportStates, TerminalStates, JobStates, ActiveStates, NotCreated
  <2>3. job[l.job].state \in HeldStates
    BY <1>6 DEF Report, ReportMoves, RunnerMoves, HeldStates
  <2> QED BY <1>1, <1>6, <2>1, <2>2, <2>3, MoveIsLeaseStep DEF Report, AnyLeaseStep
<1>7. ASSUME NEW x \in recon, ReconWrite(x)
      PROVE  AnyLeaseStep
  <2>1. CASE x.step = "touch"
    <3>1. /\ Answered(cmds')
          /\ \A k \in Jobs : /\ job'[k].state = job[k].state /\ job'[k].runner = job[k].runner
                             /\ job'[k].epoch = job[k].epoch
      BY <1>1, <1>7, <2>1 DEF ReconWrite, JobRecord, Answered
    <3> QED BY <3>1, IdleIsLeaseStep DEF AnyLeaseStep
  <2>2. CASE x.step = "readopt"
    BY <1>3, <1>7, <2>2 DEF ReconWrite
  <2> QED BY <1>7, <2>1, <2>2 DEF ReconWrite
<1>8. ASSUME NEW r \in Runners, NEW b \in Boots, SyncSeen(r, b) \/ ReconRead(r, b)
      PROVE  AnyLeaseStep
  BY <1>2, <1>8 DEF SyncSeen, ReconRead
<1>9. ASSUME NEW x \in recon, ReconCheck(x)
      PROVE  AnyLeaseStep
  BY <1>2, <1>9 DEF ReconCheck
<1> QED BY <1>4, <1>5, <1>6, <1>7, <1>8, <1>9, AckIsLeaseStep DEF SyncApi

\* Timers, operators and faults.
LEMMA BackgroundIsLeaseStep ==
  ASSUME LeaseInv, RowInv, Background
  PROVE  AnyLeaseStep
<1>1. Answered(cmds)
  BY AnsweredTables
<1>2. CASE UNCHANGED <<job, cmds>>
  BY <1>1, <1>2, IdleIsLeaseStep DEF AnyLeaseStep, Answered
<1>3. ASSUME NEW j \in Jobs, Sweep(j)
      PROVE  AnyLeaseStep
  BY <1>1, <1>3, ApplyIsLeaseStep DEF Sweep, AnyLeaseStep, TerminalStates
<1>4. ASSUME NEW r \in Runners, TimePasses(r) \/ SetEnabled(r)
      PROVE  AnyLeaseStep
  BY <1>2, <1>4 DEF TimePasses, SetEnabled
<1>5. ASSUME NEW s \in PauseScopes, TogglePause(s)
      PROVE  AnyLeaseStep
  BY <1>2, <1>5 DEF TogglePause
<1>6. CASE ApiRestart
  BY <1>2, <1>6 DEF ApiRestart
<1> QED BY <1>3, <1>4, <1>5, <1>6 DEF Background

\* Every step of the server is one of the three.
LEMMA EveryLeaseStep == LeaseInv /\ [Next]_vars => AnyLeaseStep
<1>1. SUFFICES ASSUME LeaseInv, [Next]_vars PROVE AnyLeaseStep
  OBVIOUS
<1>2. RowInv
  BY <1>1 DEF LeaseInv, TypeOK, RowInv
<1>3. CASE UNCHANGED vars
  <2>1. Answered(cmds') /\ job' = job
    BY <1>2, <1>3, AnsweredTables DEF vars, Answered
  <2> QED BY <2>1, IdleIsLeaseStep DEF AnyLeaseStep
<1>4. CASE Next
  BY <1>1, <1>2, <1>4, JobsApiIsLeaseStep, SyncApiIsLeaseStep, BackgroundIsLeaseStep DEF Next
<1> QED BY <1>1, <1>3, <1>4

\* The server keeps the promise of ExclusiveLease: a job's lease is granted
\* once, to one runner, and an ended lease is never in force again.
THEOREM ServerImplementsExclusiveLease == Spec => ImplementsExclusiveLease
<1>1. Init => Exclusive!LeaseInit
  BY DEF Init, Exclusive!LeaseInit, Leases, InForce, Held, HeldStates, NotCreated
<1>2. LeaseInv /\ [Next]_vars => [Exclusive!LeaseNext]_(Exclusive!leaseVars)
  BY EveryLeaseStep DEF AnyLeaseStep, Places, LeaseStutter, LeaseEnds, Exclusive!LeaseNext,
                        Exclusive!leaseVars
<1> QED BY <1>1, <1>2, LeaseInvariance, PTL DEF Spec, ImplementsExclusiveLease, Exclusive!LeaseSpec

-----------------------------------------------------------------------------
(* Who shares a machine *)

\* Whoever is held after a step that places nothing was held before it, by the same
\* runner.
LEMMA HeldWereHeld ==
  ASSUME LeaseStutter \/ LeaseEnds, NEW k \in Jobs, Held(k)'
  PROVE  Held(k) /\ job'[k].runner = job[k].runner
<1>1. InForce' \subseteq InForce
  BY DEF LeaseStutter, LeaseEnds, Exclusive!End
<1>2. [job |-> k, runner |-> job'[k].runner, epoch |-> job'[k].epoch] \in InForce'
  BY DEF InForce
<1>3. PICK i \in {x \in Jobs : Held(x)} :
        [job |-> k, runner |-> job'[k].runner, epoch |-> job'[k].epoch]
          = [job |-> i, runner |-> job[i].runner, epoch |-> job[i].epoch]
  BY <1>1, <1>2 DEF InForce
<1>4. k = i /\ job'[k].runner = job[i].runner
  BY <1>3
<1> QED BY <1>3, <1>4

\* A machine gains no job in a step but one that the placement rules let in beside
\* those it had.
LEMMA PlacementStep ==
  ASSUME LeaseInv, [Next]_vars, NEW r \in Runners
  PROVE  \/ HeldBy(r)' \subseteq HeldBy(r)
         \/ \E j \in Jobs : Fits(j, r) /\ HeldBy(r)' \subseteq HeldBy(r) \cup {j}
<1>1. job \in [Jobs -> JobRecord]
  BY DEF LeaseInv, TypeOK
<1>2. AnyLeaseStep
  BY EveryLeaseStep
<1>3. CASE LeaseStutter \/ LeaseEnds
  BY <1>3, HeldWereHeld DEF HeldBy
<1>4. ASSUME NEW j \in Jobs, NEW s \in Runners, Places(j, s)
      PROVE  \/ HeldBy(r)' \subseteq HeldBy(r)
             \/ \E i \in Jobs : Fits(i, r) /\ HeldBy(r)' \subseteq HeldBy(r) \cup {i}
  <2>1. job'[j].runner = s /\ \A k \in Jobs \ {j} : job'[k] = job[k]
    BY <1>1, <1>4 DEF Places, Assign, Placed
  <2>2. HeldBy(r)' \subseteq HeldBy(r) \cup (IF r = s THEN {j} ELSE {})
    BY <2>1 DEF HeldBy, Held
  <2> QED BY <1>4, <2>2 DEF Places
<1> QED BY <1>2, <1>3, <1>4 DEF AnyLeaseStep

\* Two jobs on one runner never share its checkout, on whichever path they were
\* placed (firstMisfit).
THEOREM CheckoutsHold == Spec => []OneJobPerCheckout
<1>1. Init => OneJobPerCheckout
  BY DEF Init, OneJobPerCheckout, HeldBy, Held, HeldStates, NotCreated
<1>2. LeaseInv /\ OneJobPerCheckout /\ [Next]_vars => OneJobPerCheckout'
  <2>1. SUFFICES ASSUME LeaseInv, OneJobPerCheckout, [Next]_vars, NEW r \in Runners,
                        NEW j \in HeldBy(r)' \ Threads, NEW k \in HeldBy(r)' \ Threads,
                        RepoOf[j] = RepoOf[k]
                 PROVE  j = k
    BY DEF OneJobPerCheckout
  <2>2. CASE HeldBy(r)' \subseteq HeldBy(r)
    BY <2>1, <2>2 DEF OneJobPerCheckout
  <2>3. ASSUME NEW i \in Jobs, Fits(i, r), HeldBy(r)' \subseteq HeldBy(r) \cup {i}
        PROVE  j = k
    <3>1. \A h \in HeldBy(r) \ Threads : i \notin Threads => RepoOf[h] # RepoOf[i]
      BY <2>3 DEF Fits, CheckoutFree
    <3> QED BY <2>1, <2>3, <3>1 DEF OneJobPerCheckout
  <2> QED BY <2>1, <2>2, <2>3, PlacementStep
<1> QED BY <1>1, <1>2, LeaseInvariance, PTL DEF Spec

\* A job with an unrestricted shell shares its machine with no other project's,
\* whichever came first (hasTrustDomainMisfit).
THEOREM TrustHolds == Spec => []TrustDomains
<1>1. Init => TrustDomains
  BY DEF Init, TrustDomains, HeldBy, Held, HeldStates, NotCreated
<1>2. LeaseInv /\ TrustDomains /\ [Next]_vars => TrustDomains'
  <2>1. SUFFICES ASSUME LeaseInv, TrustDomains, [Next]_vars, NEW r \in Runners,
                        NEW j \in HeldBy(r)', NEW k \in HeldBy(r)'
                 PROVE  ~TrustClash(j, k)
    BY DEF TrustDomains, TrustClash
  <2>2. CASE HeldBy(r)' \subseteq HeldBy(r)
    BY <2>1, <2>2 DEF TrustDomains
  <2>3. ASSUME NEW i \in Jobs, Fits(i, r), HeldBy(r)' \subseteq HeldBy(r) \cup {i}
        PROVE  ~TrustClash(j, k)
    <3>1. \A h \in HeldBy(r) : ~TrustClash(i, h) /\ ~TrustClash(h, i)
      BY <2>3 DEF Fits, Trusted, TrustClash
    <3>2. ~TrustClash(i, i)
      BY DEF TrustClash
    <3> QED BY <2>1, <2>3, <3>1, <3>2 DEF TrustDomains
  <2> QED BY <2>1, <2>2, <2>3, PlacementStep
<1> QED BY <1>1, <1>2, LeaseInvariance, PTL DEF Spec

-----------------------------------------------------------------------------
(* Who is given up *)

\* A step makes no job CRASHED that was not.
NobodyCrashes == \A j \in Jobs : job'[j].state = "CRASHED" => job[j].state = "CRASHED"

\* What warrants giving up a held job.
Warrant(j) ==
  \/ rn[job[j].runner].seen = "silent"
  \/ \E c \in DOMAIN cmds :
       /\ cmds[c].type = "READOPT" /\ Pending(c) /\ cmds'[c].ack = "rejected"
       /\ cmds[c].job = j /\ Holds(j, cmds[c].runner, cmds[c].epoch)
CrashesWarranted == \A j \in Jobs : Held(j) /\ job'[j].state = "CRASHED" => Warrant(j)

\* A transition to another state gives nobody up.
LEMMA MoveCrashesNobody ==
  ASSUME job \in [Jobs -> JobRecord], NEW j \in Jobs, NEW to \in JobStates \ {"CRASHED"},
         NEW by, NEW cs, Move(j, to, by, cs) \/ Apply(j, to, by, cs)
  PROVE  NobodyCrashes
<1>1. job' = [job EXCEPT ![j] = Moved(job[j], to, by)] /\ Moved(job[j], to, by).state = to
  BY DEF Apply, Move, Moved
<1> QED BY <1>1 DEF NobodyCrashes

\* Users cancel, requeue and dispatch.
LEMMA JobsApiCrashesNobody ==
  ASSUME job \in [Jobs -> JobRecord], JobsApi
  PROVE  NobodyCrashes
<1>1. ASSUME NEW j \in Jobs, Apply(j, "CANCELLED", "server", cmds) PROVE NobodyCrashes
  <2>1. "CANCELLED" \in JobStates \ {"CRASHED"}
    BY DEF JobStates, TerminalStates
  <2> QED BY <1>1, <2>1, MoveCrashesNobody
<1>2. ASSUME NEW j \in Jobs, RequestCancel(j) \/ Dispatch(j) \/ Requeue(j) PROVE NobodyCrashes
  BY <1>2 DEF RequestCancel, Dispatch, Requeue, NobodyCrashes, JobRecord
<1>3. ASSUME NEW j \in Jobs, NEW r \in Runners, Assign(j, r) PROVE NobodyCrashes
  BY <1>3 DEF Assign, Placed, NobodyCrashes
<1>4. ASSUME job' = job PROVE NobodyCrashes
  BY <1>4 DEF NobodyCrashes
<1> QED BY <1>1, <1>2, <1>3, <1>4
        DEF JobsApi, PlaceJob, Best, Cancel, CancelForBudget, CancelForProjectDelete

\* An ack gives a job up only by the READOPT that it rejects.
LEMMA AckWarrants ==
  ASSUME LeaseInv, NEW c \in DOMAIN cmds, NEW result \in {"ok", "rejected"}, NEW b \in Boots,
         Ack(c, result, b)
  PROVE  CrashesWarranted
<1> DEFINE j == cmds[c].job
           acked == Answer(cmds, c, result)
<1>1. /\ job \in [Jobs -> JobRecord] /\ cmds \in Seq(Command) /\ j \in Jobs
      /\ result \in AckResults \ {"none"}
  BY CmdDomain DEF LeaseInv, TypeOK, Command, AckResults
<1>2. CASE NobodyCrashes
  BY <1>2 DEF NobodyCrashes, CrashesWarranted, Held, HeldStates
<1>3. ASSUME NEW to \in {"FAILED", "CANCELLED"}, NEW by, Apply(j, to, by, acked) PROVE NobodyCrashes
  <2>1. to \in JobStates \ {"CRASHED"}
    BY DEF JobStates, TerminalStates
  <2> QED BY <1>1, <1>3, <2>1, MoveCrashesNobody
<1>4. ASSUME job' = job \/ job' = [job EXCEPT ![j].boot = b] PROVE NobodyCrashes
  BY <1>1, <1>4 DEF NobodyCrashes, JobRecord
<1>5. CASE /\ cmds[c].type = "READOPT" /\ result = "rejected"
           /\ Apply(j, "CRASHED", "server", acked)
           /\ Holds(j, cmds[c].runner, cmds[c].epoch)
  <2>1. cmds' = Withdraw(acked, j) /\ job' = [job EXCEPT ![j] = Moved(job[j], "CRASHED", "server")]
    BY <1>5 DEF Apply, Move, TerminalStates
  <2>2. acked \in Seq(Command) /\ DOMAIN acked = DOMAIN cmds
    BY <1>1, AnswerFacts
  <2>3. acked[c].ack = "rejected"
    <3>1. ASSUME NEW cs \in [1..Len(cmds) -> Command], NEW d \in 1..Len(cmds), NEW a
          PROVE  [cs EXCEPT ![d].ack = a][d].ack = a
      BY DEF Command
    <3>2. cmds \in [1..Len(cmds) -> Command] /\ c \in 1..Len(cmds)
      BY <1>1
    <3>3. [cmds EXCEPT ![c].ack = result][c].ack = result
      BY <3>1, <3>2
    <3> QED BY <1>5, <3>3 DEF Answer
  <2>4. cmds'[c].ack = "rejected"
    <3>1. ASSUME NEW cs \in Seq(Command), DOMAIN cs = DOMAIN cmds, cs[c].ack = "rejected", NEW i
          PROVE  Withdraw(cs, i)[c].ack = "rejected"
      BY <3>1 DEF Withdraw
    <3> HIDE DEF acked, j
    <3>2. Withdraw(acked, j)[c].ack = "rejected"
      BY <2>2, <2>3, <3>1
    <3> QED BY <2>1, <3>2
  <2>5. Warrant(j)
    BY <1>5, <2>4 DEF Warrant, Ack
  <2>6. \A k \in Jobs \ {j} : job'[k] = job[k]
    BY <1>1, <2>1
  <2> QED BY <2>5, <2>6 DEF CrashesWarranted, Held, HeldStates
<1> QED BY <1>2, <1>3, <1>4, <1>5 DEF Ack, AckStale, AckAbandon, AckHeld

\* The rest of a sync gives nobody up: a runner's report never says CRASHED.
LEMMA SyncApiWarrants ==
  ASSUME LeaseInv, SyncApi
  PROVE  CrashesWarranted
<1>1. /\ job \in [Jobs -> JobRecord] /\ recon \subseteq ReconRow
      /\ \A c \in DOMAIN cmds : cmds[c] \in Command
  BY CmdDomain DEF LeaseInv, TypeOK
<1>2. CASE NobodyCrashes
  BY <1>2 DEF NobodyCrashes, CrashesWarranted, Held, HeldStates
<1>3. ASSUME NEW r \in Runners, NEW j \in Jobs, FillOne(r, j) PROVE NobodyCrashes
  <2>1. "CANCELLED" \in JobStates \ {"CRASHED"}
    BY DEF JobStates, TerminalStates
  <2>2. CASE Assign(j, r)
    BY <1>1, <2>2 DEF Assign, Placed, NobodyCrashes
  <2> QED BY <1>1, <1>3, <2>1, <2>2, MoveCrashesNobody DEF FillOne
<1>4. ASSUME NEW l \in Leases, NEW to \in ReportStates, Report(l, to) PROVE NobodyCrashes
  <2>1. l.job \in Jobs
    BY <1>1 DEF Leases, Command
  <2>2. to \in JobStates \ {"CRASHED"}
    BY DEF ReportStates, JobStates, TerminalStates, ActiveStates
  <2> QED BY <1>1, <1>4, <2>1, <2>2, MoveCrashesNobody DEF Report
<1>5. ASSUME NEW x \in recon, ReconWrite(x) PROVE NobodyCrashes
  <2>1. \A k \in Jobs : job'[k].state = job[k].state
    BY <1>1, <1>5 DEF ReconWrite, JobRecord
  <2> QED BY <2>1 DEF NobodyCrashes
<1>6. ASSUME job' = job PROVE NobodyCrashes
  BY <1>6 DEF NobodyCrashes
<1> QED BY <1>2, <1>3, <1>4, <1>5, <1>6, AckWarrants
        DEF SyncApi, SyncSeen, ReconRead, Fenced, ReconCheck

\* A sweep gives up only jobs of a runner that has been silent long enough.
LEMMA BackgroundWarrants ==
  ASSUME LeaseInv, Background
  PROVE  CrashesWarranted
<1>1. ASSUME NEW j \in Jobs, Sweep(j) PROVE CrashesWarranted
  <2>1. rn[job[j].runner].seen = "silent" /\ \A k \in Jobs \ {j} : job'[k] = job[k]
    BY <1>1 DEF Sweep, Apply, Move, LeaseInv, TypeOK
  <2> QED BY <2>1 DEF CrashesWarranted, Warrant, Held, HeldStates
<1>2. ASSUME job' = job PROVE CrashesWarranted
  BY <1>2 DEF CrashesWarranted, Held, HeldStates
<1> QED BY <1>1, <1>2 DEF Background, TimePasses, SetEnabled, TogglePause, ApiRestart

\* A held job is given up for silence or for the READOPT of this very lease
\* (FleetSweeper.crashSilent, the ack of a READOPT).
THEOREM CrashesAreWarranted == Spec => CrashWarranted
<1>1. LeaseInv /\ [Next]_vars => [CrashesWarranted]_vars
  <2>1. LeaseInv /\ JobsApi => CrashesWarranted
    BY JobsApiCrashesNobody DEF LeaseInv, TypeOK, NobodyCrashes, CrashesWarranted, Held, HeldStates
  <2> QED BY <2>1, SyncApiWarrants, BackgroundWarrants DEF Next
<1>2. [CrashesWarranted]_vars =>
        [\A j \in Jobs : Held(j) /\ job'[j].state = "CRASHED" =>
          \/ rn[job[j].runner].seen = "silent"
          \/ \E c \in DOMAIN cmds :
               /\ cmds[c].type = "READOPT" /\ Pending(c) /\ cmds'[c].ack = "rejected"
               /\ cmds[c].job = j /\ Holds(j, cmds[c].runner, cmds[c].epoch)]_vars
  BY DEF CrashesWarranted, Warrant
<1> QED BY <1>1, <1>2, LeaseInvariance, PTL DEF Spec, CrashWarranted
=============================================================================
